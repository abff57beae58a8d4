----------------------- MODULE AnalyzerSessionProofs ------------------------
(***************************************************************************)
(* The safety of AnalyzerSession, for every set of scan trees and every    *)
(* history capacity.  The properties TLC checks are inductive together:    *)
(* what the review hides is decided by the antichain, what is visible by   *)
(* the agreement of review and exclusion, and where a step may go by what  *)
(* was visible before it.                                                  *)
(***************************************************************************)
EXTENDS AnalyzerSession, ScanForestProofs

IInv ==
  /\ TypeOK
  /\ ReviewAntichain
  /\ ReviewAgreement
  /\ ShownPlaceVisible
  /\ HistoryOfThisScan

-----------------------------------------------------------------------------
\* rebuild() keeps every item of such a review as a root.
LEMMA ReviewIsExcluded ==
  ASSUME NEW t \in Trees, NEW r, IsReview(t, r)
  PROVE  ExclusionRoots(t, r) = r
<1>1. ASSUME NEW c \in r PROVE c \in Nodes(t) /\ Parent[t][c] # invalid_node
  BY <1>1, TreeFacts DEF IsReview
<1>2. {c \in r : c \in Nodes(t) /\ Parent[t][c] # invalid_node} = r
  BY <1>1
<1>3. ASSUME NEW c \in r PROVE Above[t][c] \cap r = {c}
  BY <1>1, <1>3, AboveSelf DEF IsReview
<1>. QED
  BY <1>2, <1>3 DEF ExclusionRoots

\* The scanned folder is never hidden by a review.
LEMMA RootVisible ==
  ASSUME NEW t \in Trees, NEW ex, Root \notin ex
  PROVE  VisibleDirectory(t, ex, Root)
BY RootIsVisible DEF VisibleDirectory

\* The way up from a node of the tree always finds a visible directory.
LEMMA NearestIsVisible ==
  ASSUME NEW t \in Trees, NEW ex, Root \notin ex, NEW n \in Nodes(t)
  PROVE  LET d == NearestVisibleDirectory(t, ex, n)
         IN  d \in Nodes(t) /\ d \in Above[t][n] /\ VisibleDirectory(t, ex, d)
<1>. DEFINE found == {a \in Nodes(t) : /\ n \in Nodes(t)
                                       /\ a \in Above[t][n]
                                       /\ VisibleDirectory(t, ex, a)}
<1>1. Root \in found
  BY TreeFacts, AboveRoot, RootVisible
<1>2. PICK last \in Nat : Nodes(t) = 0 .. last
  BY TreeFacts
<1>3. \E a \in found : \A b \in found : b <= a
  <2>1. found \in SUBSET (0 .. last) /\ found # {}
    BY <1>1, <1>2
  <2>. HIDE DEF found
  <2>. QED
    BY <1>2, <2>1, GreatestMember
<1>4. NearestVisibleDirectory(t, ex, n) \in found
  <2>1. NearestVisibleDirectory(t, ex, n) =
          CHOOSE a \in found : \A b \in found : b <= a
    BY <1>1 DEF NearestVisibleDirectory
  <2>. HIDE DEF found
  <2>. QED
    BY <1>3, <2>1
<1>. QED
  BY <1>4

\* reconcile_analyzer_visibility leaves a visible directory with a visible
\* selection in it, whatever is hidden.
LEMMA ReconciledIsVisible ==
  ASSUME NEW t \in Trees, NEW ex, Root \notin ex, NEW n \in Navigations(t),
         n.root \in Nodes(t), n.selected \in Nodes(t)
  PROVE  LET place == Reconciled(n, t, ex)
         IN  /\ PlaceVisible(place, t, ex)
             /\ place.root \in Nodes(t)
             /\ place.selected \in Nodes(t)
             /\ place = [n EXCEPT !.root = place.root, !.selected = place.selected]
<1>. DEFINE root == NearestVisibleDirectory(t, ex, n.root)
            nearest == NearestVisibleDirectory(t, ex, n.selected)
            kept == ReconciledSelection(t, ex, n.root, n.selected)
            place == Reconciled(n, t, ex)
<1>1. root \in Nodes(t) /\ VisibleDirectory(t, ex, root)
  BY NearestIsVisible
<1>2. nearest \in Nodes(t) /\ VisibleDirectory(t, ex, nearest)
  BY NearestIsVisible
<1>3. root # invalid_node
  BY <1>1, TreeFacts DEF invalid_node
<1>4. CASE root # n.root
  <2>1. place = [n EXCEPT !.root = root, !.selected = root]
    BY <1>3, <1>4 DEF Reconciled
  <2>2. place.root = root /\ place.selected = root
    BY <2>1
  <2>. QED
    BY <1>1, <2>1, <2>2, AboveSelf DEF PlaceVisible, VisibleDirectory
<1>5. CASE root = n.root
  <2>1. place = [n EXCEPT !.selected = kept]
    BY <1>3, <1>5 DEF Reconciled
  <2>2. place.root = n.root /\ place.selected = kept
    BY <2>1
  <2>3. /\ kept \in Nodes(t)
        /\ IsVisible(t, ex, kept)
        /\ n.root \in Above[t][kept]
    BY <1>1, <1>2, <1>5, AboveSelf DEF ReconciledSelection, VisibleDirectory
  <2>4. place = [n EXCEPT !.root = place.root, !.selected = place.selected]
    BY <2>1, <2>2
  <2>. QED
    BY <1>1, <1>5, <2>2, <2>3, <2>4 DEF PlaceVisible
<1>. QED
  BY <1>4, <1>5

-----------------------------------------------------------------------------
\* The places a history may name are pairs of a view and a number.
LEMMA EntriesAreTyped ==
  ASSUME NEW t \in Trees
  PROVE  EntriesOf(t) \subseteq [view : Views, node : Int]
<1>1. Directory[t] \subseteq Int
  BY TreeFacts
<1>. QED
  BY <1>1 DEF EntriesOf, OverviewEntry, AnalyzerEntry, Views, invalid_node

\* AnalyzerHistory::reset leaves a history of one place.
LEMMA HistoryOfFits ==
  ASSUME NEW t \in Trees, NEW e \in EntriesOf(t)
  PROVE  HistoryOf(e) \in Histories /\ HistoryFits(HistoryOf(e), t)
<1>1. e \in [view : Views, node : Int]
  BY EntriesAreTyped
<1>2. Len(<<e>>) = 1 /\ <<e>>[1] = e /\ <<e>> # <<>>
  OBVIOUS
<1>. QED
  BY <1>1, <1>2, HistoryCapacityAssumption DEF HistoryOf, Histories, HistoryFits

\* The places up to the cursor.
LEMMA PastOfHistory ==
  ASSUME NEW E, NEW s \in Seq(E), NEW c \in 1 .. Len(s)
  PROVE  LET past == SubSeq(s, 1, c) IN
         /\ past \in Seq(E)
         /\ Len(past) = c
         /\ \A i \in 1 .. c : past[i] = s[i]
<1>. DEFINE past == SubSeq(s, 1, c)
<1>1. Len(s) \in Nat /\ c \in Int /\ 1 <= c
  OBVIOUS
<1>2. \A i \in 1 .. c : s[i] \in E
  <2>1. \A i \in 1 .. c : i \in 1 .. Len(s)
    BY <1>1
  <2>. QED
    BY <2>1, ElementOfSeq
<1>3. /\ past \in Seq(E)
      /\ Len(past) = IF 1 <= c THEN c - 1 + 1 ELSE 0
      /\ \A i \in 1 .. c - 1 + 1 : past[i] = s[1 + i - 1]
  BY <1>1, <1>2, SubSeqProperties
<1>4. c - 1 + 1 = c /\ \A i \in 1 .. c : 1 + i - 1 = i
  BY <1>1
<1>. HIDE DEF past
<1>. QED
  BY <1>1, <1>3, <1>4

\* AnalyzerHistory::record keeps the bound, the places and the cursor in
\* order, whether it forgets later places, the oldest one or none.
LEMMA RecordedFits ==
  ASSUME NEW t \in Trees, NEW h \in Histories, HistoryFits(h, t),
         NEW e \in EntriesOf(t)
  PROVE  Recorded(h, e) \in Histories /\ HistoryFits(Recorded(h, e), t)
<1>. DEFINE Entries == [view : Views, node : Int]
            past == SubSeq(h.entries, 1, h.cursor)
            kept == IF Len(past) = HistoryCapacity THEN Tail(past) ELSE past
            next == [entries |-> Append(kept, e), cursor |-> Len(kept) + 1]
<1>1. e \in Entries
  BY EntriesAreTyped
<1>2. CASE h.entries = <<>>
  BY <1>2, HistoryOfFits DEF Recorded
<1>3. CASE h.entries # <<>> /\ h.entries[h.cursor] = e
  BY <1>3 DEF Recorded
<1>4. CASE h.entries # <<>> /\ h.entries[h.cursor] # e
  <2>1. /\ h.entries \in Seq(Entries)
        /\ Len(h.entries) <= HistoryCapacity
        /\ h.cursor \in 1 .. Len(h.entries)
        /\ Len(h.entries) \in Nat
    BY <1>4 DEF Histories, HistoryFits
  <2>2. /\ past \in Seq(Entries)
        /\ Len(past) = h.cursor
        /\ \A i \in 1 .. h.cursor : past[i] = h.entries[i]
    BY <2>1, PastOfHistory
  <2>3. /\ \A i \in 1 .. Len(past) : past[i] \in EntriesOf(t)
        /\ \A i \in 2 .. Len(past) : past[i] # past[i - 1]
        /\ past[Len(past)] # e
    BY <1>4, <2>1, <2>2, SMTT(30) DEF HistoryFits
  <2>. HIDE DEF past
  <2>4. /\ kept \in Seq(Entries)
        /\ Len(kept) \in 1 .. HistoryCapacity - 1
        /\ \A i \in 1 .. Len(kept) : kept[i] \in EntriesOf(t)
        /\ \A i \in 2 .. Len(kept) : kept[i] # kept[i - 1]
        /\ kept[Len(kept)] # e
    <3>1. CASE Len(past) = HistoryCapacity
      <4>1. kept = Tail(past)
        BY <3>1
      <4>2. /\ Tail(past) \in Seq(Entries)
            /\ Len(Tail(past)) = Len(past) - 1
            /\ \A i \in 1 .. Len(past) - 1 : Tail(past)[i] = past[i + 1]
        BY <2>1, <2>2
      <4>3. \A i \in 2 .. Len(kept) : kept[i] # kept[i - 1]
        <5>. SUFFICES ASSUME NEW i \in 2 .. Len(kept)
                      PROVE  kept[i] # kept[i - 1]
          OBVIOUS
        <5>1. Len(kept) = Len(past) - 1 /\ Len(past) \in Nat
          BY <2>1, <2>2, <4>1, <4>2
        <5>2. /\ i \in 1 .. Len(past) - 1
              /\ i - 1 \in 1 .. Len(past) - 1
              /\ (i - 1) + 1 = i
          BY <5>1
        <5>3. kept[i] = past[i + 1] /\ kept[i - 1] = past[i]
          <6>. HIDE DEF kept
          <6>. QED
            BY <4>1, <4>2, <5>2
        <5>4. i + 1 \in 2 .. Len(past) /\ (i + 1) - 1 = i
          BY <5>1, <5>2
        <5>. QED
          BY <2>3, <5>3, <5>4
      <4>. QED
        BY <2>1, <2>2, <2>3, <3>1, <4>1, <4>2, <4>3, HistoryCapacityAssumption, SMTT(30)
    <3>2. CASE Len(past) # HistoryCapacity
      <4>1. kept = past
        BY <3>2
      <4>2. Len(past) \in 1 .. HistoryCapacity - 1
        BY <2>1, <2>2, <3>2, HistoryCapacityAssumption, SMTT(30)
      <4>. QED
        BY <2>2, <2>3, <4>1, <4>2
    <3>. QED
      BY <3>1, <3>2
  <2>. HIDE DEF kept
  <2>5. /\ Append(kept, e) \in Seq(Entries)
        /\ Len(Append(kept, e)) = Len(kept) + 1
        /\ \A i \in 1 .. Len(kept) : Append(kept, e)[i] = kept[i]
        /\ Append(kept, e)[Len(kept) + 1] = e
    BY <1>1, <2>4
  <2>6. next \in Histories
    BY <2>4, <2>5 DEF Histories
  <2>7. HistoryFits(next, t)
    <3>1. Append(kept, e) # <<>> /\ Len(kept) \in Nat
      BY <2>4, <2>5
    <3>2. Len(kept) + 1 <= HistoryCapacity
      BY <2>4, HistoryCapacityAssumption
    <3>3. ASSUME NEW i \in 1 .. Len(kept) + 1
          PROVE  Append(kept, e)[i] \in EntriesOf(t)
      BY <2>4, <2>5, <3>1, <3>3
    <3>4. ASSUME NEW i \in 2 .. Len(kept) + 1
          PROVE  Append(kept, e)[i] # Append(kept, e)[i - 1]
      <4>1. CASE i = Len(kept) + 1
        <5>1. i - 1 = Len(kept) /\ Len(kept) \in 1 .. Len(kept)
          BY <2>4, <3>1, <4>1
        <5>. QED
          BY <2>4, <2>5, <4>1, <5>1
      <4>2. CASE i # Len(kept) + 1
        <5>1. i \in 2 .. Len(kept) /\ i \in 1 .. Len(kept) /\ i - 1 \in 1 .. Len(kept)
          BY <3>1, <4>2
        <5>. QED
          BY <2>4, <2>5, <5>1
      <4>. QED
        BY <4>1, <4>2
    <3>. QED
      BY <2>5, <3>1, <3>2, <3>3, <3>4, SMTT(30) DEF HistoryFits
  <2>8. Recorded(h, e) = next
    BY <1>4 DEF Recorded, past, kept
  <2>. QED
    BY <2>6, <2>7, <2>8
<1>. QED
  BY <1>2, <1>3, <1>4

\* A place that the history holds and that is not hidden can be shown.
LEMMA MovedToFits ==
  ASSUME NEW t \in Trees, NEW ex, NEW n \in Navigations(t),
         HistoryFits(n.history, t),
         NEW i \in 1 .. Len(n.history.entries),
         VisibleEntry(t, ex, n.history.entries[i])
  PROVE  /\ MovedTo(n, i) \in Navigations(t)
         /\ HistoryFits(MovedTo(n, i).history, t)
         /\ MovedTo(n, i).view = "Analyzer" => PlaceVisible(MovedTo(n, i), t, ex)
<1>. DEFINE entry == n.history.entries[i]
            history == [n.history EXCEPT !.cursor = i]
<1>1. /\ n.history \in Histories
      /\ n.history.entries \in Seq([view : Views, node : Int])
      /\ i \in Nat
  BY DEF Navigations, Histories
<1>2. entry \in EntriesOf(t)
  BY DEF HistoryFits
<1>3. /\ history \in Histories
      /\ history.entries = n.history.entries
      /\ history.cursor = i
  BY <1>1 DEF Histories
<1>4. HistoryFits(history, t)
  BY <1>1, <1>3 DEF HistoryFits
<1>5. entry.view \in Views /\ entry.node \in Indices(t)
  BY <1>2, TreeFacts, NoTreeAssumption
    DEF EntriesOf, OverviewEntry, AnalyzerEntry, Views, Indices
<1>6. entry.view = "Analyzer" =>
        entry.node \in Nodes(t) /\ VisibleDirectory(t, ex, entry.node)
  BY DEF VisibleEntry, VisibleDirectory, IsVisible
<1>. HIDE DEF entry, history
<1>7. MovedTo(n, i) = [view |-> entry.view, root |-> entry.node,
                       selected |-> entry.node, history |-> history]
  BY DEF MovedTo, entry, history
<1>. QED
  BY <1>3, <1>4, <1>5, <1>6, <1>7, AboveSelf
    DEF Navigations, PlaceVisible, VisibleDirectory

\* NavigateBack shows an earlier place that is not hidden.
LEMMA MovedBackFits ==
  ASSUME NEW t \in Trees, NEW ex, NEW n \in Navigations(t),
         HistoryFits(n.history, t), NavigationCanBack(n, t, ex)
  PROVE  /\ MovedBack(n, t, ex) \in Navigations(t)
         /\ HistoryFits(MovedBack(n, t, ex).history, t)
         /\ MovedBack(n, t, ex).view = "Analyzer" =>
              PlaceVisible(MovedBack(n, t, ex), t, ex)
<1>. DEFINE earlier == EarlierEntries(n, t, ex)
            i == CHOOSE j \in earlier : \A k \in earlier : k <= j
<1>1. /\ n.history.cursor \in Nat
      /\ Len(n.history.entries) \in Nat
      /\ n.history.cursor <= Len(n.history.entries)
  BY DEF Navigations, Histories, HistoryFits
<1>2. earlier \in SUBSET (0 .. Len(n.history.entries))
  BY <1>1 DEF EarlierEntries
<1>3. earlier # {}
  BY DEF NavigationCanBack
<1>4. i \in earlier
  <2>. HIDE DEF earlier
  <2>1. \E j \in earlier : \A k \in earlier : k <= j
    BY <1>1, <1>2, <1>3, GreatestMember
  <2>. QED
    BY <2>1
<1>5. i \in 1 .. Len(n.history.entries) /\ VisibleEntry(t, ex, n.history.entries[i])
  <2>. HIDE DEF i
  <2>. QED
    BY <1>1, <1>4 DEF EarlierEntries
<1>6. MovedBack(n, t, ex) = MovedTo(n, i)
  BY <1>3 DEF MovedBack
<1>. HIDE DEF i
<1>. QED
  BY <1>5, <1>6, MovedToFits

\* NavigateForward shows a later place that is not hidden.
LEMMA MovedForwardFits ==
  ASSUME NEW t \in Trees, NEW ex, NEW n \in Navigations(t),
         HistoryFits(n.history, t), NavigationCanForward(n, t, ex)
  PROVE  /\ MovedForward(n, t, ex) \in Navigations(t)
         /\ HistoryFits(MovedForward(n, t, ex).history, t)
         /\ MovedForward(n, t, ex).view = "Analyzer" =>
              PlaceVisible(MovedForward(n, t, ex), t, ex)
<1>. DEFINE later == LaterEntries(n, t, ex)
            i == CHOOSE j \in later : \A k \in later : j <= k
<1>1. n.history.cursor \in Nat /\ Len(n.history.entries) \in Nat
  BY DEF Navigations, Histories
<1>2. later \in SUBSET Nat
  BY <1>1 DEF LaterEntries
<1>3. later # {}
  BY DEF NavigationCanForward
<1>4. i \in later
  <2>. HIDE DEF later
  <2>1. \E j \in later : \A k \in later : j <= k
    BY <1>2, <1>3, LeastMember
  <2>. QED
    BY <2>1
<1>5. i \in 1 .. Len(n.history.entries) /\ VisibleEntry(t, ex, n.history.entries[i])
  <2>. HIDE DEF i
  <2>. QED
    BY <1>1, <1>4 DEF LaterEntries
<1>6. MovedForward(n, t, ex) = MovedTo(n, i)
  BY <1>3 DEF MovedForward
<1>. HIDE DEF i
<1>. QED
  BY <1>5, <1>6, MovedToFits

-----------------------------------------------------------------------------
\* What the view is told about the history has the right type.
LEMMA SyncedIsTyped ==
  ASSUME NEW t, NEW view \in Displays(t), NEW n \in Navigations(t), NEW ex
  PROVE  /\ Synced(view, n, t, ex) \in Displays(t)
         /\ Synced(view, n, t, ex).root = view.root
         /\ Synced(view, n, t, ex).selected = view.selected
         /\ Synced(view, n, t, ex).reviewed = view.reviewed
         /\ Synced(view, n, t, ex).crumb =
              IF n.view = "Analyzer" THEN n.root ELSE invalid_node
<1>1. NavigationCanBack(n, t, ex) \in BOOLEAN /\ NavigationCanForward(n, t, ex) \in BOOLEAN
  BY DEF NavigationCanBack, NavigationCanForward
<1>2. n.root \in Indices(t) /\ invalid_node \in Indices(t)
  BY DEF Navigations, Indices
<1>. QED
  BY <1>1, <1>2 DEF Synced, Displays

\* Every command that moves the analyzer keeps the invariant when the place
\* it moves to can be shown.
LEMMA PresentKeepsIInv ==
  ASSUME IInv, tree # NoTree, nav.view = "Analyzer",
         NEW next \in Navigations(tree), NEW historyMove \in BOOLEAN,
         HistoryFits(next.history, tree),
         next.view = "Analyzer" => PlaceVisible(next, tree, excluded),
         Present(next, historyMove),
         UNCHANGED <<tree, review, excluded, scanning, recycle>>
  PROVE  IInv'
<1>. DEFINE placed == IF next.view = "Overview" THEN shown
                      ELSE [shown EXCEPT !.root = next.root,
                                         !.selected = next.selected]
            synced == Synced(placed, next, tree, excluded)
<1>1. shown \in Displays(tree) /\ shown.reviewed = review
  BY DEF IInv, TypeOK, ReviewAgreement
<1>2. next.root \in Indices(tree) /\ next.selected \in Indices(tree) /\ next.view \in Views
  BY DEF Navigations
<1>3. /\ placed \in Displays(tree)
      /\ placed.reviewed = review
      /\ next.view = "Analyzer" => /\ placed.root = next.root
                                   /\ placed.selected = next.selected
      /\ placed.crumb = shown.crumb
  BY <1>1, <1>2 DEF Displays, Views
<1>. HIDE DEF placed
<1>4. /\ synced \in Displays(tree)
      /\ synced.root = placed.root
      /\ synced.selected = placed.selected
      /\ synced.reviewed = placed.reviewed
      /\ synced.crumb = IF next.view = "Analyzer" THEN next.root ELSE invalid_node
  BY <1>3, SyncedIsTyped
<1>5. nav' = next /\ (shown' = synced \/ (shown' = placed /\ next.root = nav.root))
  BY DEF Present, placed
<1>. HIDE DEF synced
<1>6. shown.crumb = nav.root
  BY DEF IInv, ShownPlaceVisible
<1>7. /\ shown' \in Displays(tree)
      /\ shown'.reviewed = review
      /\ next.view = "Analyzer" => /\ shown'.root = next.root
                                   /\ shown'.selected = next.selected
                                   /\ shown'.crumb = next.root
  BY <1>3, <1>4, <1>5, <1>6
<1>8. TypeOK'
  BY <1>5, <1>7 DEF IInv, TypeOK
<1>9. ReviewAntichain' /\ ReviewAgreement'
  BY <1>7 DEF IInv, ReviewAntichain, ReviewAgreement
<1>10. ShownPlaceVisible'
  BY <1>5, <1>7 DEF ShownPlaceVisible, PlaceVisible, VisibleDirectory, IsVisible
<1>11. HistoryOfThisScan'
  BY <1>5 DEF HistoryOfThisScan, HistoryFits, EntriesOf
<1>. QED
  BY <1>8, <1>9, <1>10, <1>11 DEF IInv

\* A change of the review keeps the invariant when it leads to a review.
LEMMA ReviewBecomesKeepsIInv ==
  ASSUME IInv, tree # NoTree, nav.view = "Analyzer",
         NEW next, IsReview(tree, next), ReviewBecomes(next)
  PROVE  IInv'
<1>. DEFINE place == Reconciled(nav, tree, next)
            told == [shown EXCEPT !.root = place.root,
                                  !.selected = place.selected,
                                  !.reviewed = next,
                                  !.total = TotalBytes(tree, next)]
            synced == Synced(told, place, tree, next)
<1>1. tree \in Trees /\ nav \in Navigations(tree) /\ shown \in Displays(tree)
  BY DEF IInv, TypeOK
<1>2. ExclusionRoots(tree, next) = next
  BY <1>1, ReviewIsExcluded
<1>3. nav.root \in Nodes(tree) /\ nav.selected \in Nodes(tree)
  BY DEF IInv, ShownPlaceVisible, PlaceVisible, VisibleDirectory, IsVisible
<1>4. /\ PlaceVisible(place, tree, next)
      /\ place.root \in Nodes(tree)
      /\ place.selected \in Nodes(tree)
      /\ place = [nav EXCEPT !.root = place.root, !.selected = place.selected]
  BY <1>1, <1>3, ReconciledIsVisible DEF IsReview
<1>5. /\ nav' = place
      /\ shown' = synced
      /\ review' = next
      /\ excluded' = next
      /\ UNCHANGED <<tree, scanning, recycle>>
  BY <1>2 DEF ReviewBecomes
<1>. HIDE DEF place
<1>6. Nodes(tree) \subseteq Indices(tree)
  BY <1>1, NoTreeAssumption DEF Indices
<1>7. place \in Navigations(tree) /\ place.view = "Analyzer" /\ place.history = nav.history
  BY <1>1, <1>4, <1>6 DEF Navigations
<1>8. TotalBytes(tree, next) \in 0 .. MaxBytes
  BY TreesAssumption DEF TotalBytes, SaturatedBytes
<1>9. next \in SUBSET Indices(tree)
  BY <1>6 DEF IsReview
<1>10. /\ told \in Displays(tree)
       /\ told.root = place.root
       /\ told.selected = place.selected
       /\ told.reviewed = next
  BY <1>1, <1>4, <1>6, <1>8, <1>9 DEF Displays
<1>. HIDE DEF told
<1>11. /\ synced \in Displays(tree)
       /\ synced.root = place.root
       /\ synced.selected = place.selected
       /\ synced.reviewed = next
       /\ synced.crumb = place.root
  BY <1>7, <1>10, SyncedIsTyped
<1>. HIDE DEF synced
<1>12. TypeOK'
  <2>1. next \subseteq Indices(tree) \ {invalid_node}
    <3>1. invalid_node \notin Nodes(tree)
      BY <1>1, TreeFacts DEF invalid_node
    <3>. QED
      BY <1>6, <3>1 DEF IsReview
  <2>. QED
    BY <1>5, <1>7, <1>11, <2>1 DEF IInv, TypeOK
<1>13. ReviewAntichain' /\ ReviewAgreement'
  BY <1>5, <1>11 DEF IsReview, ReviewAntichain, ReviewAgreement
<1>14. ShownPlaceVisible'
  BY <1>4, <1>5, <1>11 DEF ShownPlaceVisible, PlaceVisible, VisibleDirectory, IsVisible
<1>15. HistoryOfThisScan'
  BY <1>5, <1>7 DEF IInv, HistoryOfThisScan, HistoryFits, EntriesOf
<1>. QED
  BY <1>12, <1>13, <1>14, <1>15 DEF IInv

-----------------------------------------------------------------------------
\* Nothing is shown before the first scan.
LEMMA InitIInv == Init => IInv
<1>. SUFFICES ASSUME Init PROVE IInv
  OBVIOUS
<1>1. tree = NoTree /\ Indices(tree) = {invalid_node}
  BY DEF Init, Indices
<1>2. NoNavigation \in Navigations(tree) /\ HistoryFits(NoNavigation.history, tree)
  BY <1>1, HistoryCapacityAssumption
    DEF NoNavigation, Navigations, Views, Histories, EmptyHistory, HistoryFits
<1>3. NothingShown \in Displays(tree)
  BY <1>1, TreesAssumption DEF NothingShown, Displays
<1>4. TypeOK
  BY <1>1, <1>2, <1>3 DEF Init, TypeOK
<1>. QED
  BY <1>2, <1>4 DEF Init, IInv, ReviewAntichain, ReviewAgreement, NothingShown,
    ShownPlaceVisible, NoNavigation, HistoryOfThisScan

\* Emptying the review hides nothing and shows nothing.
LEMMA StartScanKeepsIInv ==
  ASSUME IInv, StartScan
  PROVE  IInv'
<1>1. /\ shown' \in Displays(tree)
      /\ shown'.reviewed = {}
  <2>1. 0 \in 0 .. MaxBytes /\ {} \in SUBSET Indices(tree)
    BY TreesAssumption
  <2>2. shown \in Displays(tree) /\ shown' = [shown EXCEPT !.reviewed = {}, !.total = 0]
    BY DEF IInv, TypeOK, StartScan, NothingReviewed
  <2>. QED
    BY <2>1, <2>2 DEF Displays
<1>2. TypeOK'
  BY <1>1 DEF IInv, TypeOK, StartScan, ReviewCleared
<1>. QED
  BY <1>1, <1>2 DEF IInv, StartScan, ReviewCleared, ReviewAntichain,
    ReviewAgreement, ShownPlaceVisible, HistoryOfThisScan, HistoryFits, EntriesOf

\* A completed scan opens on its root with a history of two places.
LEMMA FinishScanKeepsIInv ==
  ASSUME IInv, NEW t \in Trees, FinishScan(t)
  PROVE  IInv'
<1>. DEFINE view == [NothingShown EXCEPT !.root = Root, !.selected = Root]
<1>1. Root \in Nodes(t) /\ Root \in Indices(t) /\ invalid_node \in Indices(t)
  BY TreeFacts, NoTreeAssumption DEF Indices
<1>2. OverviewEntry \in EntriesOf(t) /\ AnalyzerEntry(Root) \in EntriesOf(t)
  BY TreeFacts DEF EntriesOf
<1>3. /\ Opened.history \in Histories
      /\ HistoryFits(Opened.history, t)
  BY <1>2, HistoryOfFits, RecordedFits DEF Opened
<1>4. Opened \in Navigations(t) /\ Opened.root = Root /\ Opened.selected = Root
  BY <1>1, <1>3 DEF Opened, Navigations, Views
<1>5. view \in Displays(t)
  <2>1. 0 \in 0 .. MaxBytes /\ {} \in SUBSET Indices(t)
    BY TreesAssumption
  <2>. QED
    BY <1>1, <2>1 DEF NothingShown, Displays
<1>6. view.root = Root /\ view.selected = Root /\ view.reviewed = {}
  BY DEF NothingShown
<1>. HIDE DEF view
<1>7. /\ shown' \in Displays(t)
      /\ shown'.root = Root
      /\ shown'.selected = Root
      /\ shown'.reviewed = {}
      /\ shown'.crumb = Root
  <2>1. shown' = Synced(view, Opened, t, {}) /\ Opened.view = "Analyzer"
    BY DEF FinishScan, view, Opened
  <2>. QED
    BY <2>1, <1>4, <1>5, <1>6, SyncedIsTyped
<1>8. /\ tree' = t
      /\ nav' = Opened
      /\ review' = {}
      /\ excluded' = {}
      /\ scanning' = FALSE
      /\ recycle' = recycle
  BY DEF FinishScan, ReviewCleared
<1>9. VisibleDirectory(t, {}, Root) /\ Root \in Above[t][Root]
  BY <1>1, RootVisible, AboveSelf
<1>10. PlaceVisible(Opened, t, {})
  BY <1>4, <1>9 DEF PlaceVisible, VisibleDirectory
<1>11. TypeOK'
  BY <1>4, <1>7, <1>8, NoTreeAssumption DEF IInv, TypeOK
<1>12. ShownPlaceVisible'
  BY <1>4, <1>7, <1>8, <1>10 DEF ShownPlaceVisible, PlaceVisible, VisibleDirectory, IsVisible
<1>13. HistoryOfThisScan'
  BY <1>3, <1>8 DEF HistoryOfThisScan, HistoryFits, EntriesOf
<1>. QED
  BY <1>7, <1>8, <1>11, <1>12, <1>13 DEF IInv, ReviewAntichain, ReviewAgreement

\* A move that finds nothing to show leaves the cursor at an end of the
\* history and all else as it was.
LEMMA StayingKeepsIInv ==
  ASSUME IInv, tree # NoTree,
         \/ nav' = [nav EXCEPT !.history.cursor = IF @ = 0 THEN 0 ELSE 1]
         \/ nav' = [nav EXCEPT !.history.cursor = Len(nav.history.entries)],
         UNCHANGED <<tree, review, excluded, shown, scanning, recycle>>
  PROVE  IInv'
<1>1. /\ nav \in Navigations(tree)
      /\ HistoryFits(nav.history, tree)
      /\ nav.history.entries \in Seq([view : Views, node : Int])
      /\ nav.history.cursor \in Nat
  BY DEF IInv, TypeOK, HistoryOfThisScan, Navigations, Histories
<1>2. PICK c \in Nat :
        /\ nav' = [nav EXCEPT !.history.cursor = c]
        /\ c \in IF nav.history.entries = <<>> THEN {0}
                 ELSE 1 .. Len(nav.history.entries)
  <2>1. Len(nav.history.entries) \in Nat
    BY <1>1
  <2>2. nav.history.entries # <<>> => Len(nav.history.entries) > 0
    BY <1>1
  <2>3. nav.history.entries = <<>> => Len(nav.history.entries) = 0
    OBVIOUS
  <2>4. nav.history.cursor = 0 <=> nav.history.entries = <<>>
    BY <1>1, <2>1 DEF HistoryFits
  <2>. QED
    BY <2>1, <2>2, <2>3, <2>4
<1>3. /\ nav' \in Navigations(tree)
      /\ nav'.view = nav.view
      /\ nav'.root = nav.root
      /\ nav'.selected = nav.selected
      /\ nav'.history.entries = nav.history.entries
      /\ nav'.history.cursor = c
  BY <1>1, <1>2 DEF Navigations, Histories
<1>4. TypeOK'
  BY <1>3 DEF IInv, TypeOK
<1>5. ShownPlaceVisible'
  BY <1>3 DEF IInv, ShownPlaceVisible, PlaceVisible, VisibleDirectory, IsVisible
<1>6. HistoryOfThisScan'
  BY <1>1, <1>2, <1>3 DEF HistoryOfThisScan, HistoryFits, EntriesOf
<1>. QED
  BY <1>4, <1>5, <1>6 DEF IInv, ReviewAntichain, ReviewAgreement

\* Each command of the analyzer leads to a place it may show.
LEMMA NavigateKeepsIInv ==
  ASSUME IInv, tree # NoTree, Navigate
  PROVE  IInv'
<1>1. /\ tree \in Trees
      /\ nav \in Navigations(tree)
      /\ nav.history \in Histories
      /\ HistoryFits(nav.history, tree)
  BY DEF IInv, TypeOK, HistoryOfThisScan, Navigations
<1>2. CASE ReturnToOverview
  <2>1. OverviewEntry \in EntriesOf(tree)
    BY DEF EntriesOf
  <2>2. ReturnedToOverview(nav) \in Navigations(tree)
    BY <1>1, <2>1, RecordedFits DEF ReturnedToOverview, Navigations, Views, Indices
  <2>3. HistoryFits(ReturnedToOverview(nav).history, tree)
    BY <1>1, <2>1, RecordedFits DEF ReturnedToOverview
  <2>4. ReturnedToOverview(nav).view # "Analyzer"
    BY DEF ReturnedToOverview
  <2>5. /\ nav.view = "Analyzer"
        /\ Present(ReturnedToOverview(nav), FALSE)
        /\ UNCHANGED <<tree, review, excluded, scanning, recycle>>
    BY <1>2 DEF ReturnToOverview, CommandsHandled
  <2>. QED
    BY <2>2, <2>3, <2>4, <2>5, PresentKeepsIInv
<1>3. CASE NavigateBack
  <2>1. /\ nav.view = "Analyzer"
        /\ UNCHANGED <<tree, review, excluded, scanning, recycle>>
    BY <1>3 DEF NavigateBack, CommandsHandled
  <2>2. CASE NavigationCanBack(nav, tree, excluded)
    <3>1. Present(MovedBack(nav, tree, excluded), TRUE)
      BY <1>3, <2>2 DEF NavigateBack
    <3>. QED
      BY <1>1, <2>1, <2>2, <3>1, MovedBackFits, PresentKeepsIInv
  <2>3. CASE ~ NavigationCanBack(nav, tree, excluded)
    <3>1. nav' = MovedBack(nav, tree, excluded) /\ shown' = shown
      BY <1>3, <2>3 DEF NavigateBack
    <3>2. nav' = [nav EXCEPT !.history.cursor = IF @ = 0 THEN 0 ELSE 1]
      BY <2>3, <3>1 DEF MovedBack, NavigationCanBack
    <3>. QED
      BY <1>1, <2>1, <3>1, <3>2, StayingKeepsIInv
  <2>. QED
    BY <2>2, <2>3
<1>4. CASE NavigateForward
  <2>1. /\ nav.view = "Analyzer"
        /\ UNCHANGED <<tree, review, excluded, scanning, recycle>>
    BY <1>4 DEF NavigateForward, CommandsHandled
  <2>2. CASE NavigationCanForward(nav, tree, excluded)
    <3>1. Present(MovedForward(nav, tree, excluded), TRUE)
      BY <1>4, <2>2 DEF NavigateForward
    <3>. QED
      BY <1>1, <2>1, <2>2, <3>1, MovedForwardFits, PresentKeepsIInv
  <2>3. CASE ~ NavigationCanForward(nav, tree, excluded)
    <3>1. nav' = MovedForward(nav, tree, excluded) /\ shown' = shown
      BY <1>4, <2>3 DEF NavigateForward
    <3>2. nav' = [nav EXCEPT !.history.cursor = Len(nav.history.entries)]
      BY <2>3, <3>1 DEF MovedForward, NavigationCanForward
    <3>. QED
      BY <1>1, <2>1, <3>1, <3>2, StayingKeepsIInv
  <2>. QED
    BY <2>2, <2>3
<1>5. ASSUME NEW n \in Nodes(tree), NavigateTo(n) PROVE IInv'
  <2>1. /\ nav.view = "Analyzer"
        /\ VisibleDirectory(tree, excluded, n)
        /\ Present(NavigatedTo(nav, n), FALSE)
        /\ UNCHANGED <<tree, review, excluded, scanning, recycle>>
    BY <1>5 DEF NavigateTo, CommandsHandled
  <2>2. AnalyzerEntry(n) \in EntriesOf(tree)
    BY <2>1 DEF EntriesOf, VisibleDirectory
  <2>3. /\ Recorded(nav.history, AnalyzerEntry(n)) \in Histories
        /\ HistoryFits(Recorded(nav.history, AnalyzerEntry(n)), tree)
    BY <1>1, <2>2, RecordedFits
  <2>4. n \in Indices(tree)
    BY NoTreeAssumption DEF Indices
  <2>5. /\ NavigatedTo(nav, n) \in Navigations(tree)
        /\ NavigatedTo(nav, n).history = Recorded(nav.history, AnalyzerEntry(n))
        /\ NavigatedTo(nav, n).root = n
        /\ NavigatedTo(nav, n).selected = n
    BY <1>1, <2>3, <2>4 DEF NavigatedTo, Navigations
  <2>6. PlaceVisible(NavigatedTo(nav, n), tree, excluded)
    BY <1>1, <2>1, <2>5, AboveSelf DEF PlaceVisible, VisibleDirectory
  <2>. QED
    BY <2>1, <2>3, <2>5, <2>6, PresentKeepsIInv
<1>6. ASSUME NEW n \in Nodes(tree), SelectNode(n) PROVE IInv'
  <2>1. /\ nav.view = "Analyzer"
        /\ n \in Offered
        /\ IsVisible(tree, excluded, n)
        /\ nav' = [nav EXCEPT !.selected = n]
        /\ shown' = [shown EXCEPT !.selected = n]
        /\ UNCHANGED <<tree, review, excluded, scanning, recycle>>
    BY <1>6 DEF SelectNode, CommandsHandled
  <2>2. /\ VisibleDirectory(tree, excluded, nav.root)
        /\ shown.root = nav.root
        /\ shown.crumb = nav.root
        /\ nav.root \in Above[tree][n]
    BY <2>1 DEF IInv, ShownPlaceVisible, PlaceVisible, Offered
  <2>3. n \in Indices(tree)
    BY NoTreeAssumption DEF Indices
  <2>4. /\ nav' \in Navigations(tree)
        /\ nav'.root = nav.root
        /\ nav'.selected = n
        /\ nav'.history = nav.history
        /\ nav'.view = nav.view
    BY <1>1, <2>1, <2>3 DEF Navigations
  <2>5. /\ shown' \in Displays(tree)
        /\ shown'.root = shown.root
        /\ shown'.selected = n
        /\ shown'.crumb = shown.crumb
        /\ shown'.reviewed = shown.reviewed
    BY <2>1, <2>3 DEF IInv, TypeOK, Displays
  <2>6. TypeOK'
    BY <2>1, <2>4, <2>5 DEF IInv, TypeOK
  <2>7. ShownPlaceVisible'
    BY <2>1, <2>2, <2>4, <2>5
      DEF ShownPlaceVisible, PlaceVisible, VisibleDirectory, IsVisible
  <2>8. HistoryOfThisScan'
    BY <1>1, <2>1, <2>4 DEF HistoryOfThisScan, HistoryFits, EntriesOf
  <2>. QED
    BY <2>1, <2>5, <2>6, <2>7, <2>8 DEF IInv, ReviewAntichain, ReviewAgreement
<1>. QED
  BY <1>2, <1>3, <1>4, <1>5, <1>6 DEF Navigate

\* Collecting and restoring an item lead from a review to a review.
LEMMA EditReviewKeepsIInv ==
  ASSUME IInv, tree # NoTree, EditReview
  PROVE  IInv'
<1>1. tree \in Trees /\ IsReview(tree, review)
  BY DEF IInv, TypeOK, IsReview, ReviewAntichain, Indices
<1>2. ASSUME NEW n \in Nodes(tree), AddToReview(n) PROVE IInv'
  <2>1. /\ nav.view = "Analyzer"
        /\ CanCollect(tree, review, n)
        /\ ReviewBecomes(WithCollected(tree, review, n))
    BY <1>2 DEF AddToReview, CommandsHandled
  <2>. QED
    BY <1>1, <2>1, CollectedIsReview, ReviewBecomesKeepsIInv
<1>3. ASSUME NEW n \in Nodes(tree), RestoreReviewItem(n) PROVE IInv'
  <2>1. /\ nav.view = "Analyzer"
        /\ ReviewBecomes(review \ {n})
    BY <1>3 DEF RestoreReviewItem, CommandsHandled
  <2>2. IsReview(tree, review \ {n})
    BY <1>1 DEF IsReview
  <2>. QED
    BY <2>1, <2>2, ReviewBecomesKeepsIInv
<1>. QED
  BY <1>2, <1>3 DEF EditReview

\* A confirmed deletion runs beside the analyzer; its success takes the scan
\* and all that refers to it away.
LEMMA RecycleKeepsIInv ==
  ASSUME IInv, Recycle
  PROVE  IInv'
<1>1. ASSUME recycle' \in {"None", "Running", "Succeeded", "Failed"},
             UNCHANGED <<tree, review, excluded, nav, shown, scanning>>
      PROVE  IInv'
  BY <1>1 DEF IInv, TypeOK, ReviewAntichain, ReviewAgreement, ShownPlaceVisible,
    PlaceVisible, VisibleDirectory, IsVisible, HistoryOfThisScan, HistoryFits, EntriesOf
<1>2. CASE ConfirmReview
  BY <1>1, <1>2 DEF ConfirmReview
<1>3. CASE RecycleEnds
  BY <1>1, <1>3 DEF RecycleEnds
<1>4. CASE PollRecycleFailed
  BY <1>1, <1>4 DEF PollRecycleFailed
<1>5. CASE PollRecycleSucceeded
  <2>1. /\ tree' = NoTree
        /\ review' = {}
        /\ excluded' = {}
        /\ nav' = NoNavigation
        /\ shown' = NothingShown
        /\ recycle' = "None"
        /\ scanning' \in BOOLEAN
    BY <1>5 DEF PollRecycleSucceeded, ReviewCleared, IInv, TypeOK
  <2>2. Indices(NoTree) = {invalid_node}
    BY DEF Indices
  <2>3. NoNavigation \in Navigations(NoTree) /\ HistoryFits(NoNavigation.history, NoTree)
    BY <2>2, HistoryCapacityAssumption
      DEF NoNavigation, Navigations, Views, Histories, EmptyHistory, HistoryFits
  <2>4. NothingShown \in Displays(NoTree)
    BY <2>2, TreesAssumption DEF NothingShown, Displays
  <2>5. TypeOK'
    BY <2>1, <2>3, <2>4 DEF TypeOK
  <2>6. HistoryOfThisScan'
    BY <2>1, <2>3 DEF HistoryOfThisScan, HistoryFits, EntriesOf
  <2>. QED
    BY <2>1, <2>5, <2>6 DEF IInv, ReviewAntichain, ReviewAgreement,
      ShownPlaceVisible, NoNavigation, NothingShown
<1>. QED
  BY <1>2, <1>3, <1>4, <1>5 DEF Recycle

\* Every step keeps the invariant.
LEMMA NextKeepsIInv == IInv /\ [Next]_vars => IInv'
<1>. SUFFICES ASSUME IInv, [Next]_vars PROVE IInv'
  OBVIOUS
<1>1. CASE UNCHANGED vars
  BY <1>1 DEF vars, IInv, TypeOK, ReviewAntichain, ReviewAgreement, ShownPlaceVisible,
    PlaceVisible, VisibleDirectory, IsVisible, HistoryOfThisScan, HistoryFits, EntriesOf
<1>2. CASE Scan
  <2>1. ASSUME DropScan PROVE IInv'
    BY <2>1 DEF DropScan, IInv, TypeOK, ReviewAntichain, ReviewAgreement,
      ShownPlaceVisible, PlaceVisible, VisibleDirectory, IsVisible,
      HistoryOfThisScan, HistoryFits, EntriesOf
  <2>. QED
    BY <1>2, <2>1, StartScanKeepsIInv, FinishScanKeepsIInv DEF Scan
<1>3. CASE tree # NoTree /\ (Navigate \/ EditReview)
  BY <1>3, NavigateKeepsIInv, EditReviewKeepsIInv
<1>4. CASE Recycle
  BY <1>4, RecycleKeepsIInv
<1>. QED
  BY <1>1, <1>2, <1>3, <1>4 DEF Next

\* The properties of the session hold together in every behaviour.
THEOREM SessionInvariant == Spec => []IInv
BY InitIInv, NextKeepsIInv, PTL DEF Spec

\* main_window.cpp: the window, the view and the history only ever name nodes
\* of the scan that is open.
THEOREM TypeCorrect == Spec => []TypeOK
<1>1. IInv => TypeOK
  BY DEF IInv
<1>. QED
  BY <1>1, SessionInvariant, PTL

\* deletion_review.cpp: no collected item contains another one or is the
\* scanned folder.
THEOREM ReviewIsAntichain == Spec => []ReviewAntichain
<1>1. IInv => ReviewAntichain
  BY DEF IInv
<1>. QED
  BY <1>1, SessionInvariant, PTL

\* apply_review_change: review, exclusion and view agree on what is collected.
THEOREM ReviewIsAgreedOn == Spec => []ReviewAgreement
<1>1. IInv => ReviewAgreement
  BY DEF IInv
<1>. QED
  BY <1>1, SessionInvariant, PTL

\* analyzer_navigation.cpp: the analyzer shows a visible directory with a
\* visible selection in it.
THEOREM PlaceIsVisible == Spec => []ShownPlaceVisible
<1>1. IInv => ShownPlaceVisible
  BY DEF IInv
<1>. QED
  BY <1>1, SessionInvariant, PTL

\* analyzer_history.cpp: the history names directories of the open scan,
\* without repetition and within its capacity.
THEOREM HistoryIsOfThisScan == Spec => []HistoryOfThisScan
<1>1. IInv => HistoryOfThisScan
  BY DEF IInv
<1>. QED
  BY <1>1, SessionInvariant, PTL

-----------------------------------------------------------------------------
\* A scan is started from the overview, and the analyzer opens when it ends.
ScansBehindOverview == scanning => nav.view = "Overview"

\* A scan runs only while the overview is shown.
LEMMA ScansStayBehindOverview == Spec => []ScansBehindOverview
<1>1. Init => ScansBehindOverview
  BY DEF Init, ScansBehindOverview
<1>2. ScansBehindOverview /\ [Next]_vars => ScansBehindOverview'
  <2>. SUFFICES ASSUME ScansBehindOverview, [Next]_vars PROVE ScansBehindOverview'
    OBVIOUS
  <2>1. CASE UNCHANGED vars
    BY <2>1 DEF vars, ScansBehindOverview
  <2>2. CASE Scan
    BY <2>2 DEF Scan, StartScan, FinishScan, DropScan, ScansBehindOverview
  <2>3. CASE Navigate \/ EditReview
    BY <2>3 DEF Navigate, EditReview, ReturnToOverview, NavigateBack,
      NavigateForward, NavigateTo, SelectNode, AddToReview, RestoreReviewItem,
      CommandsHandled, ReviewBecomes, ScansBehindOverview
  <2>4. CASE Recycle
    <3>1. NoNavigation.view = "Overview"
      BY DEF NoNavigation
    <3>2. CASE PollRecycleSucceeded
      BY <3>1, <3>2 DEF PollRecycleSucceeded, ScansBehindOverview
    <3>. QED
      BY <2>4, <3>2 DEF Recycle, ConfirmReview, RecycleEnds, PollRecycleFailed,
        ScansBehindOverview
  <2>. QED
    BY <2>1, <2>2, <2>3, <2>4 DEF Next
<1>. QED
  BY <1>1, <1>2, PTL DEF Spec

\* nearest_visible_directory climbs no further than it must.
LEMMA NearestIsNearest ==
  ASSUME NEW t \in Trees, NEW ex, Root \notin ex, NEW n \in Nodes(t),
         NEW a \in Above[t][n], VisibleDirectory(t, ex, a)
  PROVE  a \in Above[t][NearestVisibleDirectory(t, ex, n)]
<1>. DEFINE d == NearestVisibleDirectory(t, ex, n)
            found == {b \in Nodes(t) : /\ n \in Nodes(t)
                                       /\ b \in Above[t][n]
                                       /\ VisibleDirectory(t, ex, b)}
<1>1. d \in found
  BY NearestIsVisible
<1>2. a \in found
  BY AboveSelf
<1>3. \E x \in found : \A y \in found : y <= x
  <2>1. PICK last \in Nat : Nodes(t) = 0 .. last
    BY TreeFacts
  <2>2. found \in SUBSET (0 .. last) /\ found # {}
    BY <1>1, <2>1
  <2>. HIDE DEF found
  <2>. QED
    BY <2>1, <2>2, GreatestMember
<1>4. \A y \in found : y <= d
  <2>1. d = CHOOSE x \in found : \A y \in found : y <= x
    BY <1>1 DEF NearestVisibleDirectory
  <2>. HIDE DEF found, d
  <2>. QED
    BY <1>3, <2>1
<1>5. CASE a \in Above[t][d]
  BY <1>5
<1>6. CASE d \in Above[t][a]
  <2>1. d <= a /\ a <= d /\ a \in Nat /\ d \in Nat
    BY <1>1, <1>2, <1>4, <1>6, AboveSmaller, TreeFacts
  <2>2. a = d
    <3>. HIDE DEF d
    <3>. QED
      BY <2>1
  <2>. QED
    BY <1>1, <2>2, AboveSelf
<1>. QED
  BY <1>1, <1>5, <1>6, AboveChain

\* A change of the review takes the analyzer to the closest visible place.
LEMMA ReviewBecomesKeepsPlace ==
  ASSUME IInv, tree # NoTree, nav.view = "Analyzer",
         NEW next, IsReview(tree, next), ReviewBecomes(next)
  PROVE  /\ nav'.history = nav.history
         /\ nav'.root \in Above[tree][nav.root]
         /\ \A a \in Above[tree][nav.root] :
              VisibleDirectory(tree, excluded', a) => a \in Above[tree][nav'.root]
<1>1. /\ tree \in Trees
      /\ nav \in Navigations(tree)
      /\ nav.root \in Nodes(tree)
      /\ Root \notin next
  BY DEF IInv, TypeOK, ShownPlaceVisible, PlaceVisible, VisibleDirectory, IsVisible, IsReview
<1>2. nav' = Reconciled(nav, tree, next) /\ excluded' = next
  BY <1>1, ReviewIsExcluded DEF ReviewBecomes
<1>. DEFINE root == NearestVisibleDirectory(tree, next, nav.root)
<1>3. root \in Nodes(tree) /\ root \in Above[tree][nav.root]
  BY <1>1, NearestIsVisible
<1>4. root # invalid_node
  BY <1>1, <1>3, TreeFacts DEF invalid_node
<1>5. nav'.root = root /\ nav'.history = nav.history
  BY <1>1, <1>2, <1>4 DEF Reconciled, Navigations
<1>6. ASSUME NEW a \in Above[tree][nav.root], VisibleDirectory(tree, next, a)
      PROVE  a \in Above[tree][root]
  BY <1>1, <1>6, NearestIsNearest
<1>. QED
  BY <1>2, <1>3, <1>5, <1>6

\* apply_review_change: collecting and restoring move the analyzer no further
\* than they must and leave the history alone.
THEOREM ReviewKeepsThePlace == Spec => ReviewKeepsPlace
<1>. DEFINE Kept ==
       nav.view = "Analyzer" /\ tree' = tree /\ review' # review /\ nav'.view = "Analyzer" =>
         /\ nav'.history = nav.history
         /\ nav'.root \in Above[tree][nav.root]
         /\ \A a \in Above[tree][nav.root] :
              VisibleDirectory(tree, excluded', a) => a \in Above[tree][nav'.root]
<1>1. IInv /\ ScansBehindOverview /\ [Next]_vars => Kept
  <2>. SUFFICES ASSUME IInv, ScansBehindOverview, [Next]_vars,
                       nav.view = "Analyzer", nav'.view = "Analyzer", review' # review
                PROVE  Kept
    OBVIOUS
  <2>. HIDE DEF Kept
  <2>1. ~ UNCHANGED vars
    BY DEF vars
  <2>2. ~ Scan
    BY DEF Scan, StartScan, FinishScan, DropScan, ScansBehindOverview
  <2>3. ~ Navigate
    BY DEF Navigate, ReturnToOverview, NavigateBack, NavigateForward, NavigateTo, SelectNode
  <2>4. ~ Recycle
    BY DEF Recycle, ConfirmReview, RecycleEnds, PollRecycleFailed,
      PollRecycleSucceeded, NoNavigation
  <2>5. tree # NoTree /\ EditReview
    BY <2>1, <2>2, <2>3, <2>4 DEF Next
  <2>6. IsReview(tree, review) /\ tree \in Trees
    BY <2>5 DEF IInv, TypeOK, IsReview, ReviewAntichain, Indices
  <2>7. ASSUME NEW n \in Nodes(tree), AddToReview(n) PROVE Kept
    <3>1. CanCollect(tree, review, n) /\ ReviewBecomes(WithCollected(tree, review, n))
      BY <2>7 DEF AddToReview
    <3>2. IsReview(tree, WithCollected(tree, review, n))
      BY <2>6, <3>1, CollectedIsReview
    <3>. QED
      BY <2>5, <3>1, <3>2, ReviewBecomesKeepsPlace DEF Kept
  <2>8. ASSUME NEW n \in Nodes(tree), RestoreReviewItem(n) PROVE Kept
    <3>1. ReviewBecomes(review \ {n})
      BY <2>8 DEF RestoreReviewItem
    <3>2. IsReview(tree, review \ {n})
      BY <2>6 DEF IsReview
    <3>. QED
      BY <2>5, <3>1, <3>2, ReviewBecomesKeepsPlace DEF Kept
  <2>. QED
    BY <2>5, <2>7, <2>8 DEF EditReview
<1>2. Spec => [][Kept]_vars
  BY <1>1, SessionInvariant, ScansStayBehindOverview, PTL DEF Spec
<1>. QED
  BY <1>2 DEF ReviewKeepsPlace

-----------------------------------------------------------------------------
\* The overview can only be the first place of the history of an open
\* analyzer: whoever returns to it meets the analyzer again with the next
\* scan, and that starts a history of its own.
OverviewOnlyFirst(h) ==
  /\ h.entries # <<>>
  /\ \A i \in 2 .. Len(h.entries) : h.entries[i].view = "Analyzer"
  /\ h.entries[1] = OverviewEntry => h.cursor >= 2

\* While the first place is the overview, Back is live, and Forward is live
\* when it leads anywhere.
ButtonsInv ==
  nav.view = "Analyzer" =>
    /\ OverviewOnlyFirst(nav.history)
    /\ nav.history.entries[1] = OverviewEntry =>
         /\ shown.canBack
         /\ NavigationCanForward(nav, tree, excluded) => shown.canForward

\* AnalyzerHistory::record of a folder keeps the overview first, drops it
\* with the oldest place, or keeps it out.
LEMMA RecordedOverviewOnlyFirst ==
  ASSUME NEW t \in Trees, NEW h \in Histories, HistoryFits(h, t),
         NEW d \in Directory[t], OverviewOnlyFirst(h)
  PROVE  LET next == Recorded(h, AnalyzerEntry(d)) IN
         /\ OverviewOnlyFirst(next)
         /\ next.entries[1] = OverviewEntry => h.entries[1] = OverviewEntry
         /\ next = h \/ next.cursor = Len(next.entries)
<1>. DEFINE Entries == [view : Views, node : Int]
            e == AnalyzerEntry(d)
            past == SubSeq(h.entries, 1, h.cursor)
            kept == IF Len(past) = HistoryCapacity THEN Tail(past) ELSE past
            next == [entries |-> Append(kept, e), cursor |-> Len(kept) + 1]
<1>1. CASE h.entries[h.cursor] = e
  BY <1>1 DEF Recorded, OverviewOnlyFirst
<1>2. CASE h.entries[h.cursor] # e
  <2>1. /\ h.entries \in Seq(Entries)
        /\ h.cursor \in 1 .. Len(h.entries)
        /\ Len(h.entries) \in Nat
    BY DEF Histories, HistoryFits, OverviewOnlyFirst
  <2>2. e \in Entries /\ e.view = "Analyzer" /\ e # OverviewEntry
    <3>1. e \in EntriesOf(t)
      BY DEF EntriesOf
    <3>. QED
      BY <3>1, EntriesAreTyped DEF AnalyzerEntry, OverviewEntry
  <2>3. /\ past \in Seq(Entries)
        /\ Len(past) = h.cursor
        /\ \A i \in 1 .. h.cursor : past[i] = h.entries[i]
    BY <2>1, PastOfHistory
  <2>4. /\ past[1] = h.entries[1]
        /\ \A i \in 2 .. Len(past) : past[i].view = "Analyzer"
    BY <2>1, <2>3 DEF OverviewOnlyFirst
  <2>. HIDE DEF past, Entries, e
  <2>5. /\ kept \in Seq(Entries)
        /\ Len(kept) \in Nat \ {0}
        /\ \A i \in 2 .. Len(kept) : kept[i].view = "Analyzer"
        /\ kept[1] = OverviewEntry => h.entries[1] = OverviewEntry
    <3>1. CASE Len(past) = HistoryCapacity
      <4>1. kept = Tail(past)
        BY <3>1
      <4>2. /\ Tail(past) \in Seq(Entries)
            /\ Len(Tail(past)) = Len(past) - 1
            /\ \A i \in 1 .. Len(past) - 1 : Tail(past)[i] = past[i + 1]
        BY <2>1, <2>3
      <4>3. Len(past) \in Nat /\ Len(past) >= 2
        BY <3>1, HistoryCapacityAssumption
      <4>. HIDE DEF kept
      <4>4. kept[1].view = "Analyzer"
        BY <2>4, <4>1, <4>2, <4>3
      <4>5. kept[1] # OverviewEntry
        <5>1. OverviewEntry.view # "Analyzer"
          BY DEF OverviewEntry
        <5>. QED
          BY <4>4, <5>1
      <4>6. ASSUME NEW i \in 2 .. Len(kept) PROVE kept[i].view = "Analyzer"
        <5>1. i \in 1 .. Len(past) - 1 /\ i + 1 \in 2 .. Len(past)
          BY <4>1, <4>2, <4>3
        <5>2. kept[i] = past[i + 1]
          BY <4>1, <4>2, <5>1
        <5>. QED
          BY <2>4, <5>1, <5>2
      <4>. QED
        BY <4>1, <4>2, <4>3, <4>5, <4>6
    <3>2. CASE Len(past) # HistoryCapacity
      BY <2>1, <2>3, <2>4, <3>2
    <3>. QED
      BY <3>1, <3>2
  <2>. HIDE DEF kept
  <2>6. /\ Len(Append(kept, e)) = Len(kept) + 1
        /\ \A i \in 1 .. Len(kept) : Append(kept, e)[i] = kept[i]
        /\ Append(kept, e)[Len(kept) + 1] = e
        /\ Append(kept, e) # <<>>
    BY <2>2, <2>5
  <2>7. ASSUME NEW i \in 2 .. Len(kept) + 1
        PROVE  Append(kept, e)[i].view = "Analyzer"
    BY <2>2, <2>5, <2>6
  <2>8. Append(kept, e)[1] = kept[1] /\ Len(kept) + 1 >= 2
    BY <2>5, <2>6
  <2>9. Recorded(h, e) = next
    BY <1>2 DEF Recorded, OverviewOnlyFirst, kept, past, e
  <2>. QED
    BY <2>5, <2>6, <2>7, <2>8, <2>9 DEF OverviewOnlyFirst, e
<1>. QED
  BY <1>1, <1>2

\* What a button is told is what the history allows.
LEMMA SyncedButtons ==
  ASSUME NEW t, NEW view \in Displays(t), NEW n, NEW ex
  PROVE  /\ Synced(view, n, t, ex).canBack = NavigationCanBack(n, t, ex)
         /\ Synced(view, n, t, ex).canForward = NavigationCanForward(n, t, ex)
BY DEF Synced, Displays

\* Back always leads to the overview while that is an earlier place.
LEMMA OverviewIsBack ==
  ASSUME NEW t, NEW ex, NEW n, n.history \in Histories,
         OverviewOnlyFirst(n.history), n.history.entries[1] = OverviewEntry
  PROVE  NavigationCanBack(n, t, ex)
<1>1. 1 \in 1 .. n.history.cursor - 1
  BY DEF Histories, OverviewOnlyFirst
<1>2. VisibleEntry(t, ex, n.history.entries[1])
  BY DEF VisibleEntry, OverviewEntry
<1>3. 1 \in EarlierEntries(n, t, ex)
  BY <1>1, <1>2 DEF EarlierEntries
<1>. QED
  BY <1>3 DEF NavigationCanBack

\* No place is left to go forward to at the end of the history.
LEMMA NoForwardAtEnd ==
  ASSUME NEW t, NEW ex, NEW n, n.history \in Histories,
         n.history.cursor = Len(n.history.entries)
  PROVE  ~ NavigationCanForward(n, t, ex)
<1>1. Len(n.history.entries) + 1 .. Len(n.history.entries) = {}
  BY DEF Histories
<1>. QED
  BY <1>1 DEF LaterEntries, NavigationCanForward

\* A command that moves the analyzer keeps the buttons right if it tells the
\* view, and if it does not, unless Forward leads further than before.
LEMMA PresentKeepsButtons ==
  ASSUME IInv, ButtonsInv, tree # NoTree, nav.view = "Analyzer",
         NEW next \in Navigations(tree), NEW historyMove \in BOOLEAN,
         next.view = "Analyzer" =>
           /\ OverviewOnlyFirst(next.history)
           /\ \/ historyMove
              \/ /\ next.history.entries[1] = OverviewEntry =>
                      nav.history.entries[1] = OverviewEntry
                 /\ NavigationCanForward(next, tree, excluded) =>
                      NavigationCanForward(nav, tree, excluded),
         Present(next, historyMove),
         UNCHANGED <<tree, review, excluded, scanning, recycle>>
  PROVE  ButtonsInv'
<1>. DEFINE placed == IF next.view = "Overview" THEN shown
                      ELSE [shown EXCEPT !.root = next.root,
                                         !.selected = next.selected]
            synced == Synced(placed, next, tree, excluded)
<1>. SUFFICES ASSUME next.view = "Analyzer" PROVE ButtonsInv'
  BY DEF Present, ButtonsInv
<1>1. nav' = next /\ OverviewOnlyFirst(next.history)
  BY DEF Present
<1>2. next.history \in Histories /\ next.root \in Indices(tree)
      /\ next.selected \in Indices(tree)
  BY DEF Navigations
<1>3. /\ placed \in Displays(tree)
      /\ placed.canBack = shown.canBack
      /\ placed.canForward = shown.canForward
  BY <1>2 DEF IInv, TypeOK, Displays
<1>4. shown' = synced \/ (shown' = placed /\ ~ historyMove)
  BY DEF Present
<1>. HIDE DEF placed
<1>5. /\ synced.canBack = NavigationCanBack(next, tree, excluded)
      /\ synced.canForward = NavigationCanForward(next, tree, excluded)
  BY <1>3, SyncedButtons
<1>. HIDE DEF synced
<1>6. ASSUME next.history.entries[1] = OverviewEntry
      PROVE  /\ shown'.canBack
             /\ NavigationCanForward(next, tree, excluded) => shown'.canForward
  <2>1. CASE shown' = synced
    BY <1>1, <1>2, <1>5, <1>6, <2>1, OverviewIsBack
  <2>2. CASE shown' = placed /\ ~ historyMove
    BY <1>3, <1>6, <2>2, SMTT(30) DEF ButtonsInv
  <2>. QED
    BY <1>4, <2>1, <2>2
<1>7. NavigationCanForward(nav, tree, excluded)' = NavigationCanForward(next, tree, excluded)
  BY <1>1 DEF NavigationCanForward, LaterEntries, VisibleEntry, VisibleDirectory, IsVisible
<1>. QED
  BY <1>1, <1>6, <1>7 DEF ButtonsInv, OverviewOnlyFirst

\* The place that Back shows lies behind the overview, or is the overview.
LEMMA MovedBackOverviewOnlyFirst ==
  ASSUME NEW t, NEW ex, NEW n \in Navigations(t), OverviewOnlyFirst(n.history),
         HistoryFits(n.history, t), NavigationCanBack(n, t, ex),
         MovedBack(n, t, ex).view = "Analyzer"
  PROVE  OverviewOnlyFirst(MovedBack(n, t, ex).history)
<1>. DEFINE earlier == EarlierEntries(n, t, ex)
            i == CHOOSE j \in earlier : \A k \in earlier : k <= j
<1>1. /\ n.history.cursor \in Nat
      /\ Len(n.history.entries) \in Nat
      /\ n.history.cursor <= Len(n.history.entries)
  BY DEF Navigations, Histories, HistoryFits
<1>2. earlier \in SUBSET (0 .. Len(n.history.entries)) /\ earlier # {}
  BY <1>1 DEF EarlierEntries, NavigationCanBack
<1>3. i \in earlier
  <2>. HIDE DEF earlier
  <2>1. \E j \in earlier : \A k \in earlier : k <= j
    BY <1>1, <1>2, GreatestMember
  <2>. QED
    BY <2>1
<1>4. MovedBack(n, t, ex) = MovedTo(n, i)
  BY <1>2 DEF MovedBack
<1>5. i \in Nat /\ i >= 1
  <2>. HIDE DEF i
  <2>. QED
    BY <1>1, <1>3 DEF EarlierEntries
<1>. HIDE DEF i
<1>6. MovedTo(n, i).history = [n.history EXCEPT !.cursor = i]
      /\ MovedTo(n, i).view = n.history.entries[i].view
  BY DEF MovedTo
<1>7. n.history.entries[1] = OverviewEntry => i # 1
  BY <1>4, <1>6 DEF OverviewEntry
<1>. QED
  BY <1>4, <1>5, <1>6, <1>7 DEF OverviewOnlyFirst, Navigations, Histories

\* The place that Forward shows lies behind the first.
LEMMA MovedForwardOverviewOnlyFirst ==
  ASSUME NEW t, NEW ex, NEW n \in Navigations(t), OverviewOnlyFirst(n.history),
         HistoryFits(n.history, t), NavigationCanForward(n, t, ex)
  PROVE  OverviewOnlyFirst(MovedForward(n, t, ex).history)
<1>. DEFINE later == LaterEntries(n, t, ex)
            i == CHOOSE j \in later : \A k \in later : j <= k
<1>1. /\ n.history.cursor \in Nat
      /\ n.history.cursor >= 1
      /\ Len(n.history.entries) \in Nat
  BY DEF Navigations, Histories, HistoryFits, OverviewOnlyFirst
<1>2. later \in SUBSET Nat /\ later # {}
  BY <1>1 DEF LaterEntries, NavigationCanForward
<1>3. i \in later
  <2>. HIDE DEF later
  <2>1. \E j \in later : \A k \in later : j <= k
    BY <1>2, LeastMember
  <2>. QED
    BY <2>1
<1>4. MovedForward(n, t, ex) = MovedTo(n, i)
  BY <1>2 DEF MovedForward
<1>5. i \in Nat /\ i >= 2
  <2>. HIDE DEF i
  <2>. QED
    BY <1>1, <1>3 DEF LaterEntries
<1>. HIDE DEF i
<1>6. MovedTo(n, i).history = [n.history EXCEPT !.cursor = i]
  BY DEF MovedTo
<1>. QED
  BY <1>4, <1>5, <1>6 DEF OverviewOnlyFirst, Navigations, Histories

\* Steps that leave history, exclusion and buttons alone, or leave the
\* analyzer closed.
LEMMA QuietKeepsButtons ==
  ASSUME ButtonsInv,
         \/ nav'.view = "Overview"
         \/ /\ tree' = tree /\ excluded' = excluded
            /\ nav'.view = nav.view /\ nav'.history = nav.history
            /\ shown'.canBack = shown.canBack /\ shown'.canForward = shown.canForward
  PROVE  ButtonsInv'
BY DEF ButtonsInv, NavigationCanForward, LaterEntries, VisibleEntry,
  VisibleDirectory, IsVisible, OverviewOnlyFirst

\* Each command of the analyzer keeps the buttons right.
LEMMA NavigateKeepsButtons ==
  ASSUME IInv, ButtonsInv, tree # NoTree, Navigate
  PROVE  ButtonsInv'
<1>1. /\ tree \in Trees
      /\ nav \in Navigations(tree)
      /\ nav.history \in Histories
      /\ HistoryFits(nav.history, tree)
      /\ nav.view = "Analyzer"
      /\ OverviewOnlyFirst(nav.history)
      /\ UNCHANGED <<tree, review, excluded, scanning, recycle>>
  BY DEF IInv, TypeOK, HistoryOfThisScan, Navigations, ButtonsInv, Navigate,
    ReturnToOverview, NavigateBack, NavigateForward, NavigateTo, SelectNode, CommandsHandled
<1>2. CASE ReturnToOverview
  <2>1. nav'.view = "Overview"
    BY <1>2 DEF ReturnToOverview, Present, ReturnedToOverview
  <2>. QED
    BY <2>1, QuietKeepsButtons
<1>3. CASE NavigateBack
  <2>1. CASE NavigationCanBack(nav, tree, excluded)
    <3>1. Present(MovedBack(nav, tree, excluded), TRUE)
      BY <1>3, <2>1 DEF NavigateBack
    <3>2. MovedBack(nav, tree, excluded) \in Navigations(tree)
      BY <1>1, <2>1, MovedBackFits
    <3>3. MovedBack(nav, tree, excluded).view = "Analyzer" =>
            OverviewOnlyFirst(MovedBack(nav, tree, excluded).history)
      BY <1>1, <2>1, MovedBackOverviewOnlyFirst
    <3>. QED
      BY <1>1, <3>1, <3>2, <3>3, PresentKeepsButtons
  <2>2. CASE ~ NavigationCanBack(nav, tree, excluded)
    <3>1. nav.history.entries[1] # OverviewEntry
      BY <1>1, <2>2, OverviewIsBack
    <3>2. nav' = [nav EXCEPT !.history.cursor = IF @ = 0 THEN 0 ELSE 1]
      BY <1>3, <2>2 DEF NavigateBack, MovedBack, NavigationCanBack
    <3>3. nav'.view = nav.view /\ nav'.history.entries = nav.history.entries
      BY <1>1, <3>2 DEF Navigations, Histories
    <3>. QED
      BY <1>1, <3>1, <3>3 DEF ButtonsInv, OverviewOnlyFirst
  <2>. QED
    BY <2>1, <2>2
<1>4. CASE NavigateForward
  <2>1. CASE NavigationCanForward(nav, tree, excluded)
    <3>1. Present(MovedForward(nav, tree, excluded), TRUE)
      BY <1>4, <2>1 DEF NavigateForward
    <3>2. MovedForward(nav, tree, excluded) \in Navigations(tree)
      BY <1>1, <2>1, MovedForwardFits
    <3>3. OverviewOnlyFirst(MovedForward(nav, tree, excluded).history)
      BY <1>1, <2>1, MovedForwardOverviewOnlyFirst
    <3>. QED
      BY <1>1, <3>1, <3>2, <3>3, PresentKeepsButtons
  <2>2. CASE ~ NavigationCanForward(nav, tree, excluded)
    <3>1. nav' = [nav EXCEPT !.history.cursor = Len(nav.history.entries)]
          /\ shown' = shown
      BY <1>4, <2>2 DEF NavigateForward, MovedForward, NavigationCanForward
    <3>2. /\ nav'.view = nav.view
          /\ nav'.history.entries = nav.history.entries
          /\ nav'.history.cursor = Len(nav.history.entries)
          /\ nav'.history \in Histories
      BY <1>1, <3>1 DEF Navigations, Histories
    <3>3. nav.history.entries[1] = OverviewEntry => nav'.history.cursor >= 2
      <4>1. nav.history.cursor <= Len(nav.history.entries)
            /\ nav.history.cursor \in Nat /\ Len(nav.history.entries) \in Nat
        BY <1>1, SMTT(30) DEF HistoryFits, Histories
      <4>. QED
        BY <1>1, <3>2, <4>1 DEF OverviewOnlyFirst
    <3>4. ~ NavigationCanForward(nav', tree', excluded')
      BY <3>2, NoForwardAtEnd
    <3>5. ~ NavigationCanForward(nav, tree, excluded)'
      BY <3>4 DEF NavigationCanForward, LaterEntries, VisibleEntry,
        VisibleDirectory, IsVisible
    <3>. QED
      BY <1>1, <3>1, <3>2, <3>3, <3>5 DEF ButtonsInv, OverviewOnlyFirst
  <2>. QED
    BY <2>1, <2>2
<1>5. ASSUME NEW n \in Nodes(tree), NavigateTo(n) PROVE ButtonsInv'
  <2>. DEFINE next == NavigatedTo(nav, n)
              recorded == Recorded(nav.history, AnalyzerEntry(n))
  <2>1. n \in Directory[tree] /\ Present(next, FALSE)
    BY <1>5 DEF NavigateTo, VisibleDirectory
  <2>2. /\ OverviewOnlyFirst(recorded)
        /\ recorded.entries[1] = OverviewEntry => nav.history.entries[1] = OverviewEntry
        /\ recorded = nav.history \/ recorded.cursor = Len(recorded.entries)
    BY <1>1, <2>1, RecordedOverviewOnlyFirst
  <2>3. recorded \in Histories
    BY <1>1, <2>1, RecordedFits DEF EntriesOf
  <2>4. n \in Indices(tree)
    BY NoTreeAssumption DEF Indices
  <2>. HIDE DEF recorded
  <2>5. next \in Navigations(tree) /\ next.history = recorded
    BY <1>1, <2>3, <2>4 DEF NavigatedTo, Navigations, recorded
  <2>. HIDE DEF next
  <2>6. NavigationCanForward(next, tree, excluded) =>
          NavigationCanForward(nav, tree, excluded)
    <3>1. CASE recorded = nav.history
      BY <2>5, <3>1 DEF NavigationCanForward, LaterEntries
    <3>2. CASE recorded.cursor = Len(recorded.entries)
      BY <2>3, <2>5, <3>2, NoForwardAtEnd
    <3>. QED
      BY <2>2, <3>1, <3>2
  <2>. QED
    BY <1>1, <2>1, <2>2, <2>5, <2>6, PresentKeepsButtons
<1>6. ASSUME NEW n \in Nodes(tree), SelectNode(n) PROVE ButtonsInv'
  <2>1. /\ nav'.view = nav.view
        /\ nav'.history = nav.history
        /\ shown'.canBack = shown.canBack
        /\ shown'.canForward = shown.canForward
    BY <1>1, <1>6 DEF SelectNode, Navigations, IInv, TypeOK, Displays
  <2>. QED
    BY <1>1, <2>1, QuietKeepsButtons
<1>. QED
  BY <1>2, <1>3, <1>4, <1>5, <1>6 DEF Navigate

\* apply_review_change tells the view what the history allows around the
\* items that are hidden now.
LEMMA EditReviewKeepsButtons ==
  ASSUME IInv, ButtonsInv, tree # NoTree, EditReview
  PROVE  ButtonsInv'
<1>1. tree \in Trees /\ IsReview(tree, review) /\ nav.view = "Analyzer"
      /\ nav \in Navigations(tree) /\ shown \in Displays(tree)
  BY DEF IInv, TypeOK, IsReview, ReviewAntichain, Indices, EditReview,
    AddToReview, RestoreReviewItem, CommandsHandled
<1>2. PICK next : IsReview(tree, next) /\ ReviewBecomes(next)
  <2>1. ASSUME NEW n \in Nodes(tree), AddToReview(n)
        PROVE  \E next : IsReview(tree, next) /\ ReviewBecomes(next)
    BY <1>1, <2>1, CollectedIsReview DEF AddToReview
  <2>2. ASSUME NEW n \in Nodes(tree), RestoreReviewItem(n)
        PROVE  \E next : IsReview(tree, next) /\ ReviewBecomes(next)
    <3>1. IsReview(tree, review \ {n}) /\ ReviewBecomes(review \ {n})
      BY <1>1, <2>2 DEF IsReview, RestoreReviewItem
    <3>. QED
      BY <3>1
  <2>. QED
    BY <2>1, <2>2 DEF EditReview
<1>. DEFINE place == Reconciled(nav, tree, next)
            told == [shown EXCEPT !.root = place.root,
                                  !.selected = place.selected,
                                  !.reviewed = next,
                                  !.total = TotalBytes(tree, next)]
            synced == Synced(told, place, tree, next)
<1>3. nav.root \in Nodes(tree) /\ nav.selected \in Nodes(tree) /\ Root \notin next
  BY <1>1, <1>2 DEF IInv, ShownPlaceVisible, PlaceVisible, VisibleDirectory, IsVisible, IsReview
<1>4. /\ place.root \in Nodes(tree)
      /\ place.selected \in Nodes(tree)
      /\ place = [nav EXCEPT !.root = place.root, !.selected = place.selected]
  BY <1>1, <1>3, ReconciledIsVisible
<1>5. ExclusionRoots(tree, next) = next
  BY <1>1, <1>2, ReviewIsExcluded
<1>6. nav' = place /\ shown' = synced /\ tree' = tree /\ excluded' = next
  BY <1>2, <1>5 DEF ReviewBecomes
<1>. HIDE DEF place
<1>7. place.view = nav.view /\ place.history = nav.history
  BY <1>1, <1>4 DEF Navigations
<1>8. Nodes(tree) \subseteq Indices(tree)
  BY <1>1, NoTreeAssumption DEF Indices
<1>9. TotalBytes(tree, next) \in 0 .. MaxBytes
  BY TreesAssumption DEF TotalBytes, SaturatedBytes
<1>10. told \in Displays(tree)
  BY <1>1, <1>2, <1>4, <1>8, <1>9 DEF Displays, IsReview
<1>. HIDE DEF told
<1>11. /\ synced.canBack = NavigationCanBack(place, tree, next)
       /\ synced.canForward = NavigationCanForward(place, tree, next)
  BY <1>10, SyncedButtons
<1>. HIDE DEF synced
<1>12. OverviewOnlyFirst(place.history) /\ place.history \in Histories
  BY <1>1, <1>7 DEF ButtonsInv, Navigations
<1>13. NavigationCanForward(nav, tree, excluded)' = NavigationCanForward(place, tree, next)
  BY <1>6 DEF NavigationCanForward, LaterEntries, VisibleEntry, VisibleDirectory, IsVisible
<1>. QED
  BY <1>6, <1>11, <1>12, <1>13, OverviewIsBack DEF ButtonsInv, OverviewOnlyFirst

\* A scan that completes starts a history of two places, and the view is told.
LEMMA FinishScanKeepsButtons ==
  ASSUME IInv, NEW t \in Trees, FinishScan(t)
  PROVE  ButtonsInv'
<1>. DEFINE view == [NothingShown EXCEPT !.root = Root, !.selected = Root]
<1>. DEFINE Entries == [view : Views, node : Int]
            past == SubSeq(<<OverviewEntry>>, 1, 1)
<1>1. /\ past \in Seq(Entries)
      /\ Len(past) = 1
      /\ past[1] = OverviewEntry
      /\ AnalyzerEntry(Root) \in Entries
  <2>1. OverviewEntry \in Entries /\ AnalyzerEntry(Root) \in Entries
    BY TreeFacts, EntriesAreTyped DEF EntriesOf
  <2>2. /\ <<OverviewEntry>> \in Seq(Entries)
        /\ 1 \in 1 .. Len(<<OverviewEntry>>)
        /\ <<OverviewEntry>>[1] = OverviewEntry
    BY <2>1
  <2>. HIDE DEF Entries
  <2>. QED
    BY <2>1, <2>2, PastOfHistory
<1>2. /\ Opened.history.entries # <<>>
      /\ Len(Opened.history.entries) = 2
      /\ Opened.history.cursor = 2
      /\ Opened.history.entries[1] = OverviewEntry
      /\ Opened.history.entries[2].view = "Analyzer"
  <2>. HIDE DEF past
  <2>1. OverviewEntry # AnalyzerEntry(Root) /\ AnalyzerEntry(Root).view = "Analyzer"
    BY DEF OverviewEntry, AnalyzerEntry
  <2>2. Len(past) # HistoryCapacity
    BY <1>1, HistoryCapacityAssumption
  <2>3. Opened.history = [entries |-> Append(past, AnalyzerEntry(Root)), cursor |-> 2]
    BY <1>1, <2>1, <2>2 DEF Opened, Recorded, HistoryOf, past
  <2>. QED
    BY <1>1, <2>1, <2>3, SMTT(30)
<1>. HIDE DEF Entries, past
<1>3. OverviewOnlyFirst(Opened.history)
  BY <1>2 DEF OverviewOnlyFirst
<1>4. view \in Displays(t)
  <2>1. Root \in Indices(t) /\ invalid_node \in Indices(t) /\ 0 \in 0 .. MaxBytes
    BY TreeFacts, NoTreeAssumption, TreesAssumption DEF Indices
  <2>. QED
    BY <2>1 DEF NothingShown, Displays
<1>5. /\ shown' = Synced(view, Opened, t, {})
      /\ tree' = t /\ nav' = Opened /\ excluded' = {}
  BY DEF FinishScan, ReviewCleared
<1>. HIDE DEF view
<1>6. /\ shown'.canBack = NavigationCanBack(Opened, t, {})
      /\ shown'.canForward = NavigationCanForward(Opened, t, {})
  BY <1>4, <1>5, SyncedButtons
<1>7. Opened.history \in Histories
  BY EntriesAreTyped, TreeFacts, HistoryOfFits, RecordedFits DEF Opened, EntriesOf
<1>8. NavigationCanBack(Opened, t, {})
  BY <1>2, <1>3, <1>7, OverviewIsBack
<1>9. NavigationCanForward(nav, tree, excluded)' = NavigationCanForward(Opened, t, {})
  BY <1>5 DEF NavigationCanForward, LaterEntries, VisibleEntry, VisibleDirectory, IsVisible
<1>. QED
  BY <1>3, <1>5, <1>6, <1>8, <1>9 DEF ButtonsInv, OverviewOnlyFirst

\* Every step keeps what the buttons follow.
LEMMA NextKeepsButtons == IInv /\ ButtonsInv /\ [Next]_vars => ButtonsInv'
<1>. SUFFICES ASSUME IInv, ButtonsInv, [Next]_vars PROVE ButtonsInv'
  OBVIOUS
<1>1. CASE UNCHANGED vars
  BY <1>1, QuietKeepsButtons DEF vars
<1>2. CASE Scan
  <2>1. CASE StartScan
    BY <2>1, QuietKeepsButtons DEF StartScan
  <2>2. CASE DropScan
    BY <2>2, QuietKeepsButtons DEF DropScan
  <2>. QED
    BY <1>2, <2>1, <2>2, FinishScanKeepsButtons DEF Scan
<1>3. CASE tree # NoTree /\ (Navigate \/ EditReview)
  BY <1>3, NavigateKeepsButtons, EditReviewKeepsButtons
<1>4. CASE Recycle
  <2>1. NoNavigation.view = "Overview"
    BY DEF NoNavigation
  <2>. QED
    BY <1>4, <2>1, QuietKeepsButtons DEF Recycle, ConfirmReview, RecycleEnds,
      PollRecycleFailed, PollRecycleSucceeded
<1>. QED
  BY <1>1, <1>2, <1>3, <1>4 DEF Next

\* sync_analyzer_navigation_chrome: Back is live exactly when it leads
\* somewhere, and Forward whenever it does, while the overview is in the
\* history.
THEOREM ButtonsAreRight == Spec => []ButtonsFollowHistory
<1>1. Init => ButtonsInv
  BY DEF Init, ButtonsInv, NoNavigation
<1>2. IInv /\ ButtonsInv => ButtonsFollowHistory
  <2>. SUFFICES ASSUME IInv, ButtonsInv, nav.view = "Analyzer",
                       nav.history.entries[1] = OverviewEntry
                PROVE  ButtonsFollowHistory
    BY DEF ButtonsFollowHistory
  <2>1. nav.history \in Histories
    BY DEF IInv, TypeOK, Navigations
  <2>. QED
    BY <2>1, OverviewIsBack DEF ButtonsInv, ButtonsFollowHistory
<1>. QED
  BY <1>1, <1>2, SessionInvariant, NextKeepsButtons, PTL DEF Spec

-----------------------------------------------------------------------------
\* EffectiveSizesExact: whatever was collected and restored, the size shown
\* for a visible node is that of the visible files in it.
THEOREM SizesAreExact == Spec => []EffectiveSizesExact
<1>1. IInv => EffectiveSizesExact
  <2>. SUFFICES ASSUME IInv, tree # NoTree, TotalsFit(tree),
                       NEW n \in Nodes(tree), IsVisible(tree, excluded, n)
                PROVE  EffectiveSize(tree, excluded, n) =
                         BytesIn(tree, {f \in Files(tree) \cap Below(tree, n) :
                                          IsVisible(tree, excluded, f)})
    BY DEF EffectiveSizesExact
  <2>1. tree \in Trees /\ excluded = review
    BY DEF IInv, TypeOK, ReviewAgreement
  <2>2. IsReview(tree, review)
    BY <2>1, NoTreeAssumption DEF IInv, TypeOK, ReviewAntichain, IsReview, Indices
  <2>. QED
    BY <2>1, <2>2, EffectiveIsVisible
<1>. QED
  BY <1>1, SessionInvariant, PTL
=============================================================================
