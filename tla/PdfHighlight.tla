---------------------------- MODULE PdfHighlight ----------------------------
(***************************************************************************)
(* The viewer page of a cited excerpt (static/pdfjs/web/highlight.mjs):    *)
(* start() loads the document, its page and the boxes to highlight, and    *)
(* renders the page to one shared canvas; a ResizeObserver with a          *)
(* debounce timer renders it again when the stage changes width.  All of   *)
(* it runs on one event loop: an action is one task (the settling of an    *)
(* awaited promise and what the code does up to its next await), and the   *)
(* microtask of a cancelled render runs before the next task does.         *)
(*                                                                         *)
(* PDF.js, the network and the layout are external: they settle or refuse  *)
(* a promise, and change the width of the stage, when they like.           *)
(***************************************************************************)
EXTENDS Integers, FiniteSets, FiniteSetsExt

CONSTANTS
    Widths,       \* the widths in pixels the stage may take
    PageWidth,    \* the width of the page at scale 1, a multiple of 5
    BoxSizes,     \* the sizes a box may have, in tenths of a PDF unit
    MaxResizes    \* bound: changes of the width of the stage

ASSUME ViewerConstants ==
    /\ Widths \subseteq Nat \ {0}
    /\ PageWidth \in Nat \ {0} /\ PageWidth % 5 = 0
    /\ BoxSizes \subseteq Nat
    /\ MaxResizes \in Nat

VARIABLES
    width,        \* stage.clientWidth
    reported,     \* the width the observer was last called for, -1 before
    phase,        \* where start() waits
    boxes,        \* state.boxes
    lookupFailed, \* highlightFailure
    stageWidth,   \* state.stageWidth
    timer,        \* the debounce timer is set
    renderTask,   \* state.renderTask, 0 for null
    live,         \* the render tasks PDF.js is painting, with their viewport
    cancelled,    \* the task whose cancellation renderPage has yet to see
    viewport,     \* pageView.viewport, by its width; 0 for null
    canvas,       \* the viewport the bitmap was painted for; 0 when blank
    overlay,      \* the viewport the rectangles were placed for, and these
    tone,         \* what the status line says
    renders,      \* number of calls of page.render so far
    bounced,      \* history: a render read a width that went back unreported
    resizes       \* number of changes of the width so far

lookup == <<boxes, lookupFailed>>
stage == <<width, reported, stageWidth, timer, resizes>>
page == <<viewport, renders, bounced>>
painting == <<renderTask, live, cancelled, canvas, page>>
vars == <<lookup, stage, painting, phase, overlay, tone>>

-----------------------------------------------------------------------------
(* Geometry.                                                               *)

STAGE_GUTTER == 2

MinUsable == 240

\* fitViewport: the page fits the stage, at a scale from 0.4 to 2.
FitViewport(w) ==
    Min({2 * PageWidth,
         Max({(2 * PageWidth) \div 5, w - STAGE_GUTTER, MinUsable})})

\* normalizeBoxes: a box less than half a PDF unit across is dropped.
NormalizeBoxes(raw) == {b \in raw : b >= 5}

\* drawHighlights: a box less than half a pixel across is left out.
DrawHighlights(bs, vp) ==
    [at |-> vp, rects |-> {b \in bs : b * vp >= 5 * PageWidth}]

-----------------------------------------------------------------------------
(* renderPage: the part before its await, and the ways the await ends.      *)

\* A page whose module has just been evaluated; without a source in the URL
\* start() says so and ends.
Init ==
    /\ width \in Widths
    /\ reported = -1
    /\ \/ phase = "document" /\ tone = "loading"
       \/ phase = "end" /\ tone = "error"
    /\ boxes = {}
    /\ lookupFailed = FALSE
    /\ stageWidth = 0
    /\ timer = FALSE
    /\ renderTask = 0
    /\ live = {}
    /\ cancelled = {}
    /\ viewport = 0
    /\ canvas = 0
    /\ overlay = [at |-> 0, rects |-> {}]
    /\ renders = 0
    /\ bounced = FALSE
    /\ resizes = 0

\* Resizing the canvas blanks it; the task in progress is cancelled, and the
\* new one takes its place before the old one's catch block runs.
RenderPage ==
    /\ viewport' = FitViewport(width)
    /\ canvas' = 0
    /\ renders' = renders + 1
    /\ renderTask' = renders + 1
    /\ live' = {t \in live : t.id # renderTask}
                 \cup {[id |-> renders + 1, vp |-> FitViewport(width)]}
    /\ cancelled' = {t.id : t \in live} \cap {renderTask}
    /\ bounced' = FALSE

\* Mutant: whatever task is current is forgotten.
ReleaseAnyTask(id) == renderTask' = 0

\* finally: forget the task, unless another one has taken its place.
ReleaseTask(id) == renderTask' = IF renderTask = id THEN 0 ELSE renderTask

\* The first render is the one start() awaits; once it returns, start() ends
\* with what it has to say of the highlights.
FinalTone ==
    IF lookupFailed THEN "warn" ELSE IF boxes # {} THEN "ok" ELSE "info"

EndStart(id, said) ==
    /\ phase' = IF id = 1 THEN "end" ELSE phase
    /\ tone' = IF id = 1 THEN said ELSE tone

\* The page is painted: the highlights are placed over it.
RenderDone(t) ==
    /\ cancelled = {}
    /\ live' = live \ {t}
    /\ canvas' = t.vp
    /\ ReleaseTask(t.id)
    /\ overlay' = DrawHighlights(boxes, viewport)
    /\ EndStart(t.id, FinalTone)
    /\ UNCHANGED <<lookup, stage, page, cancelled>>

\* Mutant: every failure is taken for a cancellation.
RenderFailsQuietly(t) ==
    /\ cancelled = {}
    /\ live' = live \ {t}
    /\ ReleaseTask(t.id)
    /\ EndStart(t.id, FinalTone)
    /\ UNCHANGED <<lookup, stage, page, cancelled, canvas, overlay>>

\* PDF.js fails: the error goes to reportRenderFailure, whether start() or
\* the timer was the caller.
RenderFails(t) ==
    /\ cancelled = {}
    /\ live' = live \ {t}
    /\ ReleaseTask(t.id)
    /\ phase' = IF t.id = 1 THEN "end" ELSE phase
    /\ tone' = "error"
    /\ UNCHANGED <<lookup, stage, page, cancelled, canvas, overlay>>

\* Mutant: a cancelled render's promise stays pending, and start() with it.
RenderCancelledHangs(id) ==
    /\ cancelled' = cancelled \ {id}
    /\ ReleaseTask(id)
    /\ UNCHANGED <<lookup, stage, page, phase, live, canvas, overlay, tone>>

\* The microtask of a cancelled render: RenderingCancelledException is no
\* failure, renderPage returns without drawing.
RenderCancelled(id) ==
    /\ cancelled' = cancelled \ {id}
    /\ ReleaseTask(id)
    /\ EndStart(id, FinalTone)
    /\ UNCHANGED <<lookup, stage, page, live, canvas, overlay>>

-----------------------------------------------------------------------------
(* start().                                                                *)

Load ==
    /\ \/ phase = "document" /\ phase' = "page"
       \/ phase = "page" /\ phase' = "boxes"
    /\ UNCHANGED <<lookup, stage, painting, overlay, tone>>

\* Neither the document nor the page: start() says so and ends.
LoadFails ==
    /\ phase \in {"document", "page"}
    /\ phase' = "end"
    /\ tone' = "error"
    /\ UNCHANGED <<lookup, stage, painting, overlay>>

\* The lookup of the boxes settles, with boxes or an error; the width is
\* noted, the observer attached and the first render started.
FetchHighlightBoxes ==
    /\ phase = "boxes"
    /\ \/ \E raw \in SUBSET BoxSizes : boxes' = NormalizeBoxes(raw)
          /\ lookupFailed' = FALSE
       \/ boxes' = {} /\ lookupFailed' = TRUE
    /\ phase' = "render"
    /\ stageWidth' = width
    /\ RenderPage
    /\ UNCHANGED <<width, reported, timer, overlay, tone, resizes>>

-----------------------------------------------------------------------------
(* Resizing.                                                               *)

\* The layout gives the stage another width.
Resize ==
    /\ cancelled = {}
    /\ resizes < MaxResizes
    /\ \E w \in Widths \ {width} :
          /\ width' = w
          /\ bounced' = (bounced \/ (/\ w = reported /\ w = stageWidth
                                     /\ viewport # FitViewport(w)))
    /\ resizes' = resizes + 1
    /\ UNCHANGED <<lookup, reported, stageWidth, timer, renderTask, live,
                   cancelled, canvas, viewport, renders, phase, overlay, tone>>

\* Mutant: every call of the observer restarts the timer.
ObserveResizeUnfiltered ==
    /\ cancelled = {}
    /\ renders > 0
    /\ reported # width
    /\ reported' = width
    /\ stageWidth' = width
    /\ timer' = TRUE
    /\ UNCHANGED <<lookup, width, resizes, painting, phase, overlay, tone>>

\* The observer is called for a size it has not been called for: a width it
\* has not noted restarts the debounce timer.  (A call for a change of height
\* alone finds the width it noted, and changes nothing.)
ObserveResize ==
    /\ cancelled = {}
    /\ renders > 0
    /\ reported # width
    /\ reported' = width
    /\ stageWidth' = width
    /\ timer' = (timer \/ width # stageWidth)
    /\ UNCHANGED <<lookup, width, resizes, painting, phase, overlay, tone>>

ResizeTimeout ==
    /\ cancelled = {}
    /\ timer
    /\ timer' = FALSE
    /\ RenderPage
    /\ UNCHANGED <<lookup, width, reported, stageWidth, resizes, phase,
                   overlay, tone>>

-----------------------------------------------------------------------------
Settle == \E t \in live : RenderDone(t) \/ RenderFails(t)

Unwind == \E id \in cancelled : RenderCancelled(id)

Next ==
    \/ Load \/ LoadFails \/ FetchHighlightBoxes
    \/ Settle \/ Unwind
    \/ Resize \/ ObserveResize \/ ResizeTimeout

\* The event loop runs what is ready, and the browser and PDF.js settle every
\* request; nothing obliges the stage to change its width.
Fairness ==
    /\ WF_vars(Load \/ LoadFails \/ FetchHighlightBoxes)
    /\ WF_vars(Settle) /\ WF_vars(Unwind)
    /\ WF_vars(ObserveResize) /\ WF_vars(ResizeTimeout)

Spec == Init /\ [][Next]_vars /\ Fairness

-----------------------------------------------------------------------------
(* Properties.                                                             *)

Viewports == {0} \cup {FitViewport(w) : w \in Widths}

\* Type invariant.  A viewport is always one that fits some width of the
\* stage, and every page.render is accounted for (renderPage, 166-206).
TypeOK ==
    /\ width \in Widths
    /\ reported \in Widths \cup {-1}
    /\ phase \in {"document", "page", "boxes", "render", "end"}
    /\ boxes \in SUBSET NormalizeBoxes(BoxSizes)
    /\ lookupFailed \in BOOLEAN
    /\ stageWidth \in Widths \cup {0}
    /\ timer \in BOOLEAN
    /\ renders \in 0 .. MaxResizes + 1
    /\ renderTask \in 0 .. renders
    /\ live \in SUBSET [id : 1 .. renders, vp : Viewports \ {0}]
    /\ cancelled \in SUBSET (1 .. renders)
    /\ viewport \in Viewports
    /\ canvas \in Viewports
    /\ overlay \in [at : Viewports, rects : SUBSET boxes]
    /\ tone \in {"loading", "error", "warn", "ok", "info"}
    /\ bounced \in BOOLEAN
    /\ resizes \in 0 .. MaxResizes

\* PDF.js never paints two renders to the shared canvas: whatever resizes come
\* while a render is in progress, the next one finds the task to cancel, and a
\* cancelled render's finally block never forgets its successor (185, 201).
OneRenderOnCanvas ==
    /\ Cardinality(live) <= 1
    /\ \A t \in live : renderTask = t.id

Quiet ==
    /\ phase = "end" /\ renders > 0
    /\ live = {} /\ cancelled = {} /\ ~timer /\ reported = width

\* Once nothing is in progress the reader sees one consistent page: painted
\* for the stage as it is, with the rectangles of the citation placed for the
\* same viewport; or is told that rendering failed.  The one exception, `bounced`,
\* is a stage that came back to the width the observer last saw after a render
\* had read another and fitted the page to it: the observer is never called, and
\* the page keeps the wrong size (171, 216).
SettledViewIsCurrent ==
    Quiet =>
        \/ canvas = 0 /\ tone = "error"
        \/ /\ canvas = viewport
           /\ overlay = DrawHighlights(boxes, viewport)
           /\ viewport = FitViewport(width) \/ bounced

\* However the resizes fall between loading, the debounce timer, a render in
\* progress and its cancellation, the viewer comes to rest again and again,
\* start() included: with a page for the width of the stage, with a failure the
\* status line reports, or, the exception of SettledViewIsCurrent, with a page
\* for a width that went back unreported; the reader is never left with "Loading
\* the document" (214-293).
ViewSettles ==
    []<>(/\ tone # "loading"
         /\ \/ renders = 0 /\ phase = "end"
            \/ Quiet /\ canvas = FitViewport(width)
            \/ Quiet /\ canvas = 0 /\ tone = "error"
            \/ Quiet /\ bounced)
=============================================================================
