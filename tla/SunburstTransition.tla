-------------------------- MODULE SunburstTransition --------------------------
(***************************************************************************)
(* How one chart turns into another (core/sunburst_transition.cpp), as     *)
(* operators.                                                              *)
(*                                                                         *)
(* A state is an arc with the place of its ring, inner, and an opacity in  *)
(* 0 .. Full.  A morph is a pair of an optional source and an optional     *)
(* destination, each a sequence of at most one state.  The eased progress  *)
(* is a number of Full steps.  outerRadius goes with inner, and palettes   *)
(* are left out.                                                           *)
(***************************************************************************)
EXTENDS SunburstLayout

CONSTANTS
  Full,    \* the steps from the source to the destination; full opacity
  Radius   \* the width that the rings of a chart share

ASSUME TransitionAssumption == {Full, Radius} \subseteq Nat \ {0}

\* to_polar_state and polar_states: a chart has at most as many arcs as a
\* transition takes.  The rings of a chart share its radius
\* (compute_analyzer_layout).
PolarStates(arcs) ==
  [k \in DOMAIN arcs |->
     [node |-> arcs[k].node, aggregate |-> arcs[k].aggregate, depth |-> arcs[k].depth,
      from |-> arcs[k].from, to |-> arcs[k].to,
      inner |-> arcs[k].depth * (Radius \div Rings(arcs)), opacity |-> Full]]

\* identity(): the depth only counts for an arc that stands for the rest.
Identity(s) == [node |-> s.node, aggregate |-> s.aggregate,
                depth |-> IF s.aggregate THEN s.depth ELSE 0]

\* The states of anchorNode itself.
AnchorIn(S, anchorNode) ==
  {k \in DOMAIN S : S[k].node = anchorNode /\ ~S[k].aggregate}

\* find_anchor: where an arc without a peer comes from or goes to.
Anchor(S, D, anchorNode) ==
  LET place(s) == [angle |-> (s.from + s.to) \div 2, inner |-> s.inner]
  IN  IF AnchorIn(S, anchorNode) # {} THEN place(S[Min(AnchorIn(S, anchorNode))])
      ELSE IF AnchorIn(D, anchorNode) # {} THEN place(D[Min(AnchorIn(D, anchorNode))])
      ELSE IF S \o D # <<>> THEN place(Head(S \o D))
      ELSE [angle |-> 0, inner |-> 0]

-----------------------------------------------------------------------------
\* The first of the states with the identity of S[k].
IsFirst(S, k) == \A j \in 1 .. k - 1 : Identity(S[j]) # Identity(S[k])

\* The pairs of equal identity, each state in one pair.
MatchedPairs(S, D) ==
  {p \in (DOMAIN S) \X (DOMAIN D) : /\ Identity(S[p[1]]) = Identity(D[p[2]])
                                /\ IsFirst(S, p[1])
                                /\ IsFirst(D, p[2])}

\* A state, if there is a k-th in the index sequence I.
Optional(S, I, k) == IF k \in DOMAIN I THEN <<S[I[k]]>> ELSE <<>>

\* A seeded fault: what is left of the longer chart is forgotten.
ShorterOf(a, b) == IF a < b THEN a ELSE b

RemainingCount(a, b) == IF a > b THEN a ELSE b

\* build_plan: the matched pairs in the order of the source, then what is left
\* of both in order.
Plan(S, D, anchorNode) ==
  LET pairs  == MatchedPairs(S, D)
      kept   == Ascending({p[1] : p \in pairs})
      peer   == [i \in {p[1] : p \in pairs} |-> CHOOSE j \in DOMAIN D : <<i, j>> \in pairs]
      leftS  == Ascending({i \in DOMAIN S : i \notin {p[1] : p \in pairs}})
      leftD  == Ascending({j \in DOMAIN D : j \notin {p[2] : p \in pairs}})
  IN  [morphs |->
         [k \in DOMAIN kept |-> [source |-> <<S[kept[k]]>>,
                                 destination |-> <<D[peer[kept[k]]]>>]]
         \o [k \in 1 .. RemainingCount(Len(leftS), Len(leftD)) |->
               [source |-> Optional(S, leftS, k), destination |-> Optional(D, leftD, k)]],
       anchor |-> Anchor(S, D, anchorNode)]

NoPlan == [morphs |-> <<>>, anchor |-> [angle |-> 0, inner |-> 0]]

-----------------------------------------------------------------------------
\* collapsed_state
Collapsed(peer, anchor) ==
  [peer EXCEPT !.from = anchor.angle, !.to = anchor.angle,
               !.inner = anchor.inner, !.opacity = 0]

\* lerp, with an eased progress of e steps.
Lerp(a, b, e) == a + ((b - a) * e) \div Full

\* One arc of the frame.  From half of the way on it is known as what it
\* becomes.
DrawnMorph(m, anchor, e) ==
  LET s == IF m.source # <<>> THEN Head(m.source) ELSE Collapsed(Head(m.destination), anchor)
      d == IF m.destination # <<>> THEN Head(m.destination) ELSE Collapsed(Head(m.source), anchor)
      known == IF 2 * e >= Full /\ m.destination # <<>> THEN d ELSE s
  IN  [node |-> known.node, aggregate |-> known.aggregate, depth |-> known.depth,
       from |-> Lerp(s.from, d.from, e), to |-> Lerp(s.to, d.to, e),
       inner |-> Lerp(s.inner, d.inner, e),
       sourceOpacity |-> (s.opacity * (Full - e)) \div Full,
       destinationOpacity |-> (d.opacity * e) \div Full]

\* interpolate_sunburst_transition
FrameOf(plan, e) ==
  [k \in DOMAIN plan.morphs |-> DrawnMorph(plan.morphs[k], plan.anchor, e)]

Opacity(f) ==
  LET sum == f.sourceOpacity + f.destinationOpacity IN IF sum > Full THEN Full ELSE sum

\* snapshot_transition_frame
Snapshot(frame) ==
  [k \in DOMAIN frame |->
     [node |-> frame[k].node, aggregate |-> frame[k].aggregate, depth |-> frame[k].depth,
      from |-> frame[k].from, to |-> frame[k].to, inner |-> frame[k].inner,
      opacity |-> Opacity(frame[k])]]
=============================================================================
