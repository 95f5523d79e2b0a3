--------------------------- MODULE CanvasHistory ---------------------------
(***************************************************************************)
(* Undo and redo of the canvas editor (app/static/js/canvas-studio.js).    *)
(* Handlers run to completion one after another; what overlaps is          *)
(* canvas.loadFromJSON of a state with an image, which replaces the canvas *)
(* and calls back only when the image is decoded, and the decoding of an   *)
(* uploaded image.                                                         *)
(***************************************************************************)
EXTENDS Integers, SequencesExt

CONSTANTS MaxHistory,  \* MAX_HISTORY
          MaxEdits,    \* bound: objects made or changed in a behaviour
          MaxPending   \* bound: image decodings under way at a time

ASSUME CanvasAssumption ==
    /\ MaxHistory \in Nat \ {0}
    /\ MaxEdits \in Nat
    /\ MaxPending \in Nat

VARIABLES canvas,           \* the objects on the canvas
          history, idx,     \* saved states; historyIdx + 1
          suppressHistory,
          isDrawing,        \* a shape is being dragged open
          loading,          \* states given to loadFromJSON, not yet there
          uploads,          \* uploaded images being decoded
          edits,            \* objects made or changed so far
          overlapped        \* history: two loads were under way at once

saved == <<history, idx>>
pendingVars == <<loading, uploads, overlapped>>
canvasVars == <<canvas, saved, suppressHistory, isDrawing, pendingVars, edits>>

\* An object by the edit that made it; a changed object is a new one.
Shape == [edit |-> edits + 1, image |-> FALSE]
Image == [edit |-> edits + 1, image |-> TRUE]
HasImage(c) == \E o \in c : o.image

CanvasInit ==
    /\ canvas = {}
    /\ history = <<{}>>
    /\ idx = 1
    /\ suppressHistory = FALSE
    /\ isDrawing = FALSE
    /\ loading = <<>>
    /\ uploads = 0
    /\ edits = 0
    /\ overlapped = FALSE

----------------------------------------------------------------------------
(* The history.                                                            *)

\* Variant: saved while a load is under way, too.
SaveStateAlways(c) ==
    LET h == Append(SubSeq(history, 1, idx), c)
    IN  /\ history' = IF Len(h) > MaxHistory THEN Tail(h) ELSE h
        /\ idx' = Len(history')

SaveState(c) ==
    IF suppressHistory THEN UNCHANGED saved
    ELSE LET h == Append(SubSeq(history, 1, idx), c)
         IN  /\ history' = IF Len(h) > MaxHistory THEN Tail(h) ELSE h
             /\ idx' = Len(history')

\* Without an image loadFromJSON is over when it returns.
LoadState(c) ==
    /\ overlapped' = (overlapped \/ loading # <<>>)
    /\ IF HasImage(c)
       THEN /\ Len(loading) < MaxPending
            /\ loading' = Append(loading, c)
            /\ suppressHistory' = TRUE
            /\ UNCHANGED canvas
       ELSE /\ canvas' = c
            /\ suppressHistory' = FALSE
            /\ UNCHANGED loading

Undo ==
    /\ idx > 1
    /\ idx' = idx - 1
    /\ LoadState(history[idx - 1])
    /\ UNCHANGED <<history, isDrawing, uploads, edits>>

Redo ==
    /\ idx < Len(history)
    /\ idx' = idx + 1
    /\ LoadState(history[idx + 1])
    /\ UNCHANGED <<history, isDrawing, uploads, edits>>

\* Variant: the callback leaves the history suppressed.
LoadedMuted(i) ==
    /\ canvas' = loading[i]
    /\ loading' = RemoveAt(loading, i)
    /\ UNCHANGED <<saved, suppressHistory, isDrawing, uploads, edits, overlapped>>

\* The images of a load are decoded, in any order among loads: the canvas is
\* cleared and filled, and the callback runs.
Loaded(i) ==
    /\ canvas' = loading[i]
    /\ loading' = RemoveAt(loading, i)
    /\ suppressHistory' = FALSE
    /\ UNCHANGED <<saved, isDrawing, uploads, edits, overlapped>>

----------------------------------------------------------------------------
(* The tools: any of them may be chosen (setTool) before any step.         *)

Edit(c) ==
    /\ edits < MaxEdits
    /\ edits' = edits + 1
    /\ canvas' = c

\* mouse:down with a shape tool puts an empty shape on the canvas.
MouseDown ==
    /\ ~isDrawing
    /\ Edit(canvas \union {Shape})
    /\ isDrawing' = TRUE
    /\ UNCHANGED <<saved, suppressHistory, pendingVars>>

MouseUp ==
    /\ isDrawing
    /\ isDrawing' = FALSE
    /\ SaveState(canvas)
    /\ UNCHANGED <<canvas, suppressHistory, pendingVars, edits>>

\* mouse:down with the text tool, and path:created of the pencil.
AddAtOnce ==
    /\ ~isDrawing
    /\ Edit(canvas \union {Shape})
    /\ SaveState(canvas')
    /\ UNCHANGED <<suppressHistory, isDrawing, pendingVars>>

\* object:modified
Modified(o) ==
    /\ ~isDrawing
    /\ Edit((canvas \ {o}) \union {[o EXCEPT !.edit = edits + 1]})
    /\ SaveState(canvas')
    /\ UNCHANGED <<suppressHistory, isDrawing, pendingVars>>

DeleteSelected(objs) ==
    /\ canvas' = canvas \ objs
    /\ SaveState(canvas')
    /\ UNCHANGED <<suppressHistory, isDrawing, pendingVars, edits>>

Clear ==
    /\ canvas' = {}
    /\ SaveState(canvas')
    /\ UNCHANGED <<suppressHistory, isDrawing, pendingVars, edits>>

\* handleImageUpload, and later its callback.
Upload ==
    /\ uploads < MaxPending
    /\ uploads' = uploads + 1
    /\ UNCHANGED <<canvas, saved, suppressHistory, isDrawing, loading, edits, overlapped>>

Uploaded ==
    /\ uploads > 0
    /\ uploads' = uploads - 1
    /\ Edit(canvas \union {Image})
    /\ SaveState(canvas')
    /\ UNCHANGED <<suppressHistory, isDrawing, loading, overlapped>>

----------------------------------------------------------------------------
CanvasNext ==
    \/ Undo \/ Redo
    \/ \E i \in DOMAIN loading : Loaded(i)
    \/ MouseDown \/ MouseUp \/ AddAtOnce
    \/ \E o \in canvas : Modified(o)
    \/ \E objs \in SUBSET canvas \ {{}} : DeleteSelected(objs)
    \/ Clear \/ Upload \/ Uploaded

----------------------------------------------------------------------------
(* Properties.                                                             *)

\* saveState and loadState keep the canvas and the history in step: with no
\* load and no drag under way the canvas is the current entry, whatever was
\* drawn, deleted or uploaded while a load ran, unless two loads ever overlapped.
Settled == loading = <<>> /\ ~isDrawing /\ ~overlapped => canvas = history[idx]

\* Edits are recorded again: no order of loads and callbacks leaves the history
\* suppressed once all of them ended.
Resumes == suppressHistory ~> ~suppressHistory
=============================================================================
