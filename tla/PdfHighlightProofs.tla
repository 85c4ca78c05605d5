------------------------- MODULE PdfHighlightProofs -------------------------
(***************************************************************************)
(* Proofs about the viewer page, for every set of widths, page, boxes and  *)
(* number of resizes.  The inductive invariant says what an unfinished     *)
(* render owns (the canvas, the task to cancel), where a cancelled one     *)
(* still has to unwind, and which of the three widths (of the stage, noted *)
(* by the observer, of the viewport) may differ while the timer is off.    *)
(***************************************************************************)
EXTENDS PdfHighlight, TLAPS, FiniteSetTheorems

\* Nothing has been painted before the boxes are known.
BeforeRender ==
    IF renders = 0
    THEN /\ phase # "render" /\ reported = -1
         /\ ~timer /\ ~bounced /\ live = {} /\ cancelled = {} /\ renderTask = 0
         /\ boxes = {} /\ overlay.rects = {}
    ELSE phase \in {"render", "end"}

\* A render in progress is the newest one and owns the blank canvas; one that
\* was cancelled is not current and has a successor in progress.
Painting ==
    /\ \A t \in live : t.id = renders /\ renderTask = t.id /\ t.vp = viewport
    /\ live # {} => canvas = 0
    /\ cancelled # {} => live # {} /\ renderTask \notin cancelled

\* A finished render left a consistent page or a report of its failure.
Painted ==
    renders > 0 /\ live = {} =>
       \/ canvas = 0 /\ tone = "error"
       \/ canvas = viewport /\ overlay = DrawHighlights(boxes, viewport)

\* The width noted and the width painted.
Noted ==
    renders > 0 =>
       /\ reported \in {-1, stageWidth}
       /\ reported = -1 => viewport = FitViewport(stageWidth) /\ ~timer
       /\ ~timer /\ ~bounced /\ width = stageWidth => viewport = FitViewport(width)

\* Every render but the first is paid for by a change of the width.
RendersCounted ==
    renders > 0 =>
       renders + (IF timer THEN 1 ELSE 0) + (IF width # stageWidth THEN 1 ELSE 0)
          <= 1 + resizes

IInv == TypeOK /\ BeforeRender /\ Painting /\ Painted /\ Noted /\ RendersCounted

----------------------------------------------------------------------------
(* Geometry.                                                               *)

\* A page always has a width to be painted at.
LEMMA FitIsPositive ==
    ASSUME NEW w \in Widths
    PROVE  FitViewport(w) \in Nat \ {0}
<1> DEFINE a == (2 * PageWidth) \div 5
           S == {a, w - STAGE_GUTTER, MinUsable}
           m == Max(S)
           T == {2 * PageWidth, m}
<1>1. a \in Int /\ w \in Int /\ 2 * PageWidth \in Nat \ {0}
  BY ViewerConstants
<1>2. \E x \in S : \A y \in S : x >= y
  BY <1>1 DEF STAGE_GUTTER, MinUsable
<1>3. m \in S /\ \A y \in S : m >= y
  BY <1>2 DEF Max
<1>4. m \in Int /\ m >= 240
  BY <1>1, <1>3 DEF STAGE_GUTTER, MinUsable
<1> HIDE DEF m
<1>5. \E x \in T : \A y \in T : x <= y
  BY <1>1, <1>4
<1>6. Min(T) \in T
  BY <1>5 DEF Min
<1>7. FitViewport(w) = Min(T)
  BY DEF FitViewport, m
<1> QED
  BY <1>1, <1>4, <1>6, <1>7

\* The viewport fitted to the stage is one of a width the stage can have.
LEMMA FitIsAViewport ==
    ASSUME TypeOK
    PROVE  FitViewport(width) \in Viewports \ {0}
BY FitIsPositive DEF TypeOK, Viewports

\* The overlay is for one viewport and holds rectangles of the citation only.
LEMMA DrawnRects ==
    ASSUME NEW bs, NEW vp \in Viewports
    PROVE  DrawHighlights(bs, vp) \in [at : Viewports, rects : SUBSET bs]
BY DEF DrawHighlights

----------------------------------------------------------------------------
(* Renders.                                                                *)

\* The new render is alone on the canvas; it unwinds the one it replaces.
LEMMA RenderPageAlone ==
    ASSUME IInv, cancelled = {}, RenderPage, renders < MaxResizes + 1
    PROVE  /\ live' = {[id |-> renders + 1, vp |-> FitViewport(width)]}
           /\ cancelled' \subseteq {renderTask} /\ cancelled' \subseteq 1..renders
           /\ renders \in 0..MaxResizes /\ renders' \in 0..(MaxResizes + 1)
           /\ renderTask' \in 0..renders'
           /\ live' \in SUBSET [id : 1..renders', vp : Viewports \ {0}]
           /\ cancelled' \in SUBSET (1..renders')
           /\ viewport' \in Viewports /\ canvas' \in Viewports
           /\ Painting'
<1>1. TypeOK /\ Painting /\ MaxResizes \in Nat
  BY ViewerConstants DEF IInv
<1> DEFINE new == [id |-> renders + 1, vp |-> FitViewport(width)]
<1>2. live' = {new}
  BY <1>1 DEF RenderPage, Painting
<1>3. \A t \in live : t.id \in 1..renders
  BY <1>1 DEF TypeOK
<1>4. cancelled' \subseteq {renderTask} /\ cancelled' \subseteq 1..renders
  BY <1>3 DEF RenderPage
<1>5. renders \in 0..MaxResizes /\ renders' = renders + 1 /\ renderTask' = renders + 1
  BY <1>1 DEF TypeOK, RenderPage
<1>6. new \in [id : 1..renders', vp : Viewports \ {0}] /\ new.id = renders' /\ new.vp = viewport'
  BY <1>1, <1>5, FitIsAViewport DEF RenderPage
<1> HIDE DEF new
<1>7. viewport' \in Viewports /\ canvas' = 0 /\ 0 \in Viewports
  BY <1>1, FitIsAViewport DEF RenderPage, Viewports
<1>8. renderTask' \notin cancelled'
  BY <1>4, <1>5
<1>9. Painting'
  BY <1>2, <1>5, <1>6, <1>7, <1>8 DEF Painting
<1>10. /\ renders' \in 0..(MaxResizes + 1) /\ renderTask' \in 0..renders'
       /\ cancelled' \in SUBSET (1..renders')
  BY <1>1, <1>4, <1>5
<1>11. live' \in SUBSET [id : 1..renders', vp : Viewports \ {0}]
  BY <1>2, <1>6
<1> QED
  BY <1>2, <1>4, <1>5, <1>7, <1>9, <1>10, <1>11 DEF new

\* The first render starts on an empty page, with its width noted.
LEMMA FetchKeeps ==
    ASSUME IInv, FetchHighlightBoxes
    PROVE  IInv'
<1>1. /\ TypeOK /\ BeforeRender /\ MaxResizes \in Nat
      /\ phase = "boxes" /\ phase' = "render" /\ stageWidth' = width /\ RenderPage
      /\ UNCHANGED <<width, reported, timer, overlay, tone, resizes>>
  BY ViewerConstants DEF IInv, FetchHighlightBoxes
<1>2. renders = 0 /\ cancelled = {} /\ ~timer /\ overlay.rects = {}
  BY <1>1 DEF BeforeRender
<1>3. boxes' \in SUBSET NormalizeBoxes(BoxSizes) /\ lookupFailed' \in BOOLEAN
  BY DEF FetchHighlightBoxes, NormalizeBoxes
<1>4. /\ live' # {} /\ renders' = 1
      /\ renders' \in 0..(MaxResizes + 1) /\ renderTask' \in 0..renders'
      /\ live' \in SUBSET [id : 1..renders', vp : Viewports \ {0}]
      /\ cancelled' \in SUBSET (1..renders')
      /\ viewport' \in Viewports /\ canvas' \in Viewports
      /\ Painting'
  <2>1. renders < MaxResizes + 1 /\ renders' = 1
    BY <1>1, <1>2 DEF RenderPage
  <2> QED
    BY <1>1, <1>2, <2>1, RenderPageAlone
<1>5. overlay' \in [at : Viewports, rects : SUBSET boxes']
  BY <1>1, <1>2 DEF TypeOK
<1>6. bounced' = FALSE /\ viewport' = FitViewport(width)
  BY <1>1 DEF RenderPage
<1>7. TypeOK'
  <2>1. /\ width' \in Widths /\ reported' \in Widths \cup {-1} /\ stageWidth' \in Widths \cup {0}
        /\ timer' \in BOOLEAN /\ tone' \in {"loading", "error", "warn", "ok", "info"}
        /\ resizes' \in 0 .. MaxResizes /\ bounced' \in BOOLEAN
        /\ phase' \in {"document", "page", "boxes", "render", "end"}
    BY <1>1, <1>6 DEF TypeOK
  <2> QED
    BY <1>3, <1>4, <1>5, <2>1, Zenon DEF TypeOK
<1>8. BeforeRender' /\ Painted'
  BY <1>1, <1>4 DEF BeforeRender, Painted
<1>9. Noted' /\ RendersCounted'
  BY <1>1, <1>2, <1>4, <1>6 DEF Noted, RendersCounted, BeforeRender, TypeOK
<1> QED
  BY <1>4, <1>7, <1>8, <1>9 DEF IInv

\* The debounce timer fires: the number of renders stays within the changes
\* of the width.
LEMMA TimeoutKeeps ==
    ASSUME IInv, ResizeTimeout
    PROVE  IInv'
<1>1. /\ TypeOK /\ BeforeRender /\ Noted /\ RendersCounted /\ MaxResizes \in Nat
      /\ cancelled = {} /\ timer /\ timer' = FALSE /\ RenderPage
      /\ UNCHANGED <<boxes, lookupFailed, width, reported, stageWidth, resizes, phase,
                     overlay, tone>>
  BY ViewerConstants DEF IInv, ResizeTimeout, lookup
<1>2. renders \in Nat /\ renders # 0 /\ renders > 0
  BY <1>1 DEF BeforeRender, TypeOK
<1>3. renders < MaxResizes + 1 /\ resizes \in 0..MaxResizes
  BY <1>1, <1>2 DEF RendersCounted, TypeOK
<1>4. /\ live' # {}
      /\ renders' \in 0..(MaxResizes + 1) /\ renderTask' \in 0..renders'
      /\ live' \in SUBSET [id : 1..renders', vp : Viewports \ {0}]
      /\ cancelled' \in SUBSET (1..renders')
      /\ viewport' \in Viewports /\ canvas' \in Viewports
      /\ Painting'
  BY <1>1, <1>3, RenderPageAlone
<1>5. bounced' = FALSE /\ viewport' = FitViewport(width) /\ renders' = renders + 1
  BY <1>1 DEF RenderPage
<1>6. TypeOK'
  <2>1. /\ width' \in Widths /\ reported' \in Widths \cup {-1} /\ stageWidth' \in Widths \cup {0}
        /\ timer' \in BOOLEAN /\ tone' \in {"loading", "error", "warn", "ok", "info"}
        /\ resizes' \in 0 .. MaxResizes /\ bounced' \in BOOLEAN
        /\ phase' \in {"document", "page", "boxes", "render", "end"}
        /\ boxes' \in SUBSET NormalizeBoxes(BoxSizes) /\ lookupFailed' \in BOOLEAN
        /\ overlay' \in [at : Viewports, rects : SUBSET boxes']
    BY <1>1, <1>5 DEF TypeOK
  <2> QED
    BY <1>4, <2>1, Zenon DEF TypeOK
<1>7. BeforeRender' /\ Painted'
  BY <1>1, <1>2, <1>4 DEF BeforeRender, Painted
<1>8. Noted'
  BY <1>1, <1>2, <1>5 DEF Noted
<1>9. RendersCounted'
  BY <1>1, <1>2, <1>3, <1>5 DEF RendersCounted
<1> QED
  BY <1>4, <1>6, <1>7, <1>8, <1>9 DEF IInv

\* A render settles: it was the only one, and the current one.
LEMMA SettleKeeps ==
    ASSUME IInv, NEW t \in live, RenderDone(t) \/ RenderFails(t)
    PROVE  IInv'
<1>1. /\ TypeOK /\ BeforeRender /\ Painting /\ Noted /\ RendersCounted
      /\ cancelled = {} /\ live' = live \ {t}
      /\ UNCHANGED <<boxes, lookupFailed, width, reported, stageWidth, timer, resizes,
                     viewport, renders, bounced, cancelled>>
  BY DEF IInv, RenderDone, RenderFails, lookup, stage, page
<1>2. /\ t \in [id : 1..renders, vp : Viewports \ {0}] /\ renders # 0 /\ renders \in Nat
      /\ renderTask = t.id /\ t.vp = viewport /\ canvas = 0
  BY <1>1 DEF TypeOK, BeforeRender, Painting
<1>3. live' = {}
  <2>1. \A s \in live : s = t
    <3> SUFFICES ASSUME NEW s \in live PROVE s = t
      OBVIOUS
    <3>1. s \in [id : 1..renders, vp : Viewports \ {0}] /\ s.id = t.id /\ s.vp = t.vp
      BY <1>1, <1>2 DEF TypeOK, Painting
    <3> QED
      BY <1>2, <3>1
  <2> QED
    BY <1>1, <2>1
<1>4. renderTask' = 0
  BY <1>2 DEF RenderDone, RenderFails, ReleaseTask
<1>5. phase' \in {phase, "end"} /\ phase \in {"render", "end"}
  BY <1>1, <1>2 DEF RenderDone, RenderFails, EndStart, BeforeRender
<1>6. \/ /\ canvas' = viewport /\ overlay' = DrawHighlights(boxes, viewport)
         /\ tone' \in {tone, "warn", "ok", "info"}
      \/ canvas' = 0 /\ tone' = "error" /\ overlay' = overlay
  BY <1>2 DEF RenderDone, RenderFails, EndStart, FinalTone
<1>7. overlay' \in [at : Viewports, rects : SUBSET boxes]
  BY <1>1, <1>6, DrawnRects DEF TypeOK
<1>8. TypeOK'
  BY <1>1, <1>2, <1>3, <1>4, <1>5, <1>6, <1>7 DEF TypeOK, Viewports
<1>9. BeforeRender' /\ Painting'
  BY <1>1, <1>2, <1>3, <1>5 DEF BeforeRender, Painting
<1>10. Painted'
  BY <1>1, <1>6 DEF Painted
<1>11. Noted' /\ RendersCounted'
  BY <1>1 DEF Noted, RendersCounted
<1> QED
  BY <1>8, <1>9, <1>10, <1>11 DEF IInv

\* The microtask of a cancelled render leaves its successor alone.
LEMMA UnwindKeeps ==
    ASSUME IInv, NEW id \in cancelled, RenderCancelled(id)
    PROVE  IInv'
<1>1. /\ TypeOK /\ BeforeRender /\ Painting /\ Painted /\ Noted /\ RendersCounted
      /\ cancelled' = cancelled \ {id}
      /\ UNCHANGED <<boxes, lookupFailed, width, reported, stageWidth, timer, resizes,
                     viewport, renders, bounced, live, canvas, overlay>>
  BY DEF IInv, RenderCancelled, lookup, stage, page
<1>2. renderTask' = renderTask /\ live # {}
  BY <1>1 DEF Painting, RenderCancelled, ReleaseTask
<1>3. renders # 0 /\ phase \in {"render", "end"}
  BY <1>1 DEF BeforeRender
<1>4. phase' \in {phase, "end"} /\ tone' \in {tone, "warn", "ok", "info"}
  BY DEF RenderCancelled, EndStart, FinalTone
<1>5. TypeOK'
  BY <1>1, <1>2, <1>4 DEF TypeOK
<1>6. BeforeRender' /\ Painting' /\ Painted'
  BY <1>1, <1>2, <1>3, <1>4 DEF BeforeRender, Painting, Painted
<1>7. Noted' /\ RendersCounted'
  BY <1>1 DEF Noted, RendersCounted
<1> QED
  BY <1>5, <1>6, <1>7 DEF IInv

----------------------------------------------------------------------------
(* Loading and resizing.                                                   *)

\* Loading the document and the page paints nothing.
LEMMA LoadKeeps ==
    ASSUME IInv, Load \/ LoadFails
    PROVE  IInv'
<1>1. /\ UNCHANGED <<boxes, lookupFailed, width, reported, stageWidth, timer, resizes,
                     renderTask, live, cancelled, canvas, viewport, renders, bounced,
                     overlay>>
      /\ phase' \in {"page", "boxes", "end"} /\ phase \in {"document", "page"}
      /\ tone' \in {tone, "error"}
  BY DEF Load, LoadFails, lookup, stage, painting, page
<1>2. renders = 0
  BY <1>1 DEF IInv, BeforeRender
<1>3. TypeOK'
  BY <1>1 DEF IInv, TypeOK
<1>4. BeforeRender' /\ Painting'
  BY <1>1, <1>2 DEF IInv, BeforeRender, Painting
<1>5. Painted' /\ Noted' /\ RendersCounted'
  BY <1>1, <1>2 DEF Painted, Noted, RendersCounted
<1> QED
  BY <1>3, <1>4, <1>5 DEF IInv

\* A resize leaves what is painted to the observer.
LEMMA ResizeKeeps ==
    ASSUME IInv, Resize
    PROVE  IInv'
<1>1. /\ TypeOK /\ BeforeRender /\ Painting /\ Painted /\ Noted /\ RendersCounted
      /\ resizes < MaxResizes /\ resizes' = resizes + 1 /\ width' \in Widths
      /\ bounced' = (bounced \/ (/\ width' = reported /\ width' = stageWidth
                                 /\ viewport # FitViewport(width')))
      /\ UNCHANGED <<boxes, lookupFailed, reported, stageWidth, timer, renderTask, live,
                     cancelled, canvas, viewport, renders, phase, overlay, tone>>
  BY DEF IInv, Resize, lookup
<1>2. width' # -1 /\ MaxResizes \in Nat
  BY <1>1, ViewerConstants
<1>3. TypeOK'
  BY <1>1, <1>2 DEF TypeOK
<1>4. BeforeRender'
  BY <1>1, <1>2 DEF BeforeRender
<1>5. Painting' /\ Painted'
  BY <1>1 DEF Painting, Painted
<1>6. Noted'
  BY <1>1, <1>2 DEF Noted
<1>7. RendersCounted'
  <2>1. renders \in Nat /\ resizes \in Nat
    BY <1>1, <1>2 DEF TypeOK
  <2> QED
    BY <1>1, <2>1 DEF RendersCounted
<1> QED
  BY <1>3, <1>4, <1>5, <1>6, <1>7 DEF IInv

\* The observer arms the timer whenever the width changed.
LEMMA ObserveKeeps ==
    ASSUME IInv, ObserveResize
    PROVE  IInv'
<1>1. /\ TypeOK /\ BeforeRender /\ Painting /\ Painted /\ Noted /\ RendersCounted
      /\ renders > 0 /\ reported # width /\ reported' = width /\ stageWidth' = width
      /\ timer' = (timer \/ width # stageWidth)
      /\ UNCHANGED <<boxes, lookupFailed, width, resizes, renderTask, live, cancelled,
                     canvas, viewport, renders, bounced, phase, overlay, tone>>
  BY DEF IInv, ObserveResize, lookup, painting, page
<1>2. width # -1 /\ renders \in Nat /\ renders # 0 /\ resizes \in Nat
  BY <1>1, ViewerConstants DEF TypeOK
<1>3. TypeOK'
  BY <1>1 DEF TypeOK
<1>4. BeforeRender' /\ Painting' /\ Painted'
  BY <1>1, <1>2 DEF BeforeRender, Painting, Painted
<1>5. Noted'
  BY <1>1, <1>2 DEF Noted
<1>6. RendersCounted'
  BY <1>1, <1>2 DEF RendersCounted, TypeOK
<1> QED
  BY <1>3, <1>4, <1>5, <1>6 DEF IInv

----------------------------------------------------------------------------

\* The page starts blank.
LEMMA InitIInv ==
    ASSUME Init
    PROVE  IInv
<1>1. TypeOK
  <2>1. 0 \in 0 .. MaxResizes /\ 0 \in 0 .. MaxResizes + 1 /\ 0 \in 0 .. 0
    BY ViewerConstants
  <2>2. /\ overlay \in [at : Viewports, rects : SUBSET boxes]
        /\ viewport \in Viewports /\ canvas \in Viewports
    BY DEF Init, Viewports
  <2>3. /\ phase \in {"document", "page", "boxes", "render", "end"}
        /\ tone \in {"loading", "error", "warn", "ok", "info"}
    BY DEF Init
  <2> QED
    BY <2>1, <2>2, <2>3 DEF Init, TypeOK
<1>2. BeforeRender /\ Painting /\ Painted /\ Noted /\ RendersCounted
  BY DEF Init, BeforeRender, Painting, Painted, Noted, RendersCounted
<1> QED
  BY <1>1, <1>2 DEF IInv

\* Every task of the event loop keeps the inductive invariant.
LEMMA StepIInv ==
    ASSUME IInv, [Next]_vars
    PROVE  IInv'
<1>1. CASE UNCHANGED vars
  BY <1>1 DEF vars, lookup, stage, painting, page, IInv, TypeOK, BeforeRender, Painting,
     Painted, Noted, RendersCounted
<1>2. CASE Settle \/ Unwind
  BY <1>2, SettleKeeps, UnwindKeeps DEF Settle, Unwind
<1> QED
  BY <1>1, <1>2, FetchKeeps, TimeoutKeeps, LoadKeeps, ResizeKeeps, ObserveKeeps DEF Next

\* The inductive invariant holds of every reachable state.
LEMMA Invariance == Spec => []IInv
<1>1. Init => IInv
  BY InitIInv
<1>2. IInv /\ [Next]_vars => IInv'
  BY StepIInv
<1> QED
  BY <1>1, <1>2, PTL DEF Spec

\* Every viewport the page is painted for fits a width the stage had, and the
\* resizes bound the calls of page.render: the debounced observer never starts
\* a render that no change of the width asked for (renderPage, the observer).
THEOREM TypeCorrect == Spec => []TypeOK
<1>1. IInv => TypeOK
  BY DEF IInv
<1> QED
  BY <1>1, Invariance, PTL

\* renderPage cancels what it replaces: two renders never paint the shared
\* canvas, and the finally block of a cancelled one never makes its successor
\* impossible to cancel.
THEOREM CanvasHasOnePainter == Spec => []OneRenderOnCanvas
<1>1. ASSUME IInv PROVE OneRenderOnCanvas
  <2>1. TypeOK /\ Painting
    BY <1>1 DEF IInv
  <2>2. \A s, t \in live : s = t
    <3> SUFFICES ASSUME NEW s \in live, NEW t \in live PROVE s = t
      OBVIOUS
    <3>1. /\ s \in [id : 1..renders, vp : Viewports \ {0}]
          /\ t \in [id : 1..renders, vp : Viewports \ {0}]
          /\ s.id = t.id /\ s.vp = t.vp
      BY <2>1 DEF TypeOK, Painting
    <3> QED
      BY <3>1
  <2>3. Cardinality(live) <= 1
    <3>1. CASE live = {}
      BY <3>1, FS_EmptySet
    <3>2. CASE live # {}
      <4>1. PICK t \in live : TRUE
        BY <3>2
      <4>2. live = {t}
        BY <2>2, <4>1
      <4>3. Cardinality({t}) = 1
        BY FS_Singleton
      <4> QED
        BY <4>2, <4>3
    <3> QED
      BY <3>1, <3>2
  <2> QED
    BY <2>1, <2>3 DEF Painting, OneRenderOnCanvas
<1> QED
  BY <1>1, Invariance, PTL

\* A viewer at rest shows one consistent page for the stage as it is, with the
\* rectangles of the citation on it, or says that rendering failed; but for a
\* page fitted to a width that went back before the observer saw it (renderPage,
\* drawHighlights, the ResizeObserver of highlight.mjs).
THEOREM RestingViewIsCurrent == Spec => []SettledViewIsCurrent
<1>1. ASSUME IInv PROVE SettledViewIsCurrent
  <2> SUFFICES ASSUME Quiet
               PROVE  \/ canvas = 0 /\ tone = "error"
                      \/ /\ canvas = viewport
                         /\ overlay = DrawHighlights(boxes, viewport)
                         /\ viewport = FitViewport(width) \/ bounced
    BY DEF SettledViewIsCurrent
  <2>1. width # -1
    BY <1>1, ViewerConstants DEF IInv, TypeOK
  <2> QED
    BY <1>1, <2>1 DEF IInv, Painted, Noted, Quiet
<1> QED
  BY <1>1, Invariance, PTL
=============================================================================
