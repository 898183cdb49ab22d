------------------------------ MODULE DrawDevice ------------------------------
(***************************************************************************)
(* DrawDevice: the Direct2D objects behind the window, over any number of   *)
(* calls of Draw by the display thread, while the graphics device may be    *)
(* lost at any moment. The four objects of one EnsureResources share a       *)
(* number; a pointer is the number of the object it points to, 0 where it is *)
(* null or was never written.                                               *)
(*                                                                          *)
(* The size test at the head of Draw is left out: the only caller passes    *)
(* exactly height * stride bytes, which always passes it.                   *)
(***************************************************************************)
EXTENDS Integers, FiniteSets

CONSTANTS
    MaxTargets, \* bound: render targets made
    Rotated     \* is m_rotation 90 or -90?

ASSUME MaxTargetsAssumption == MaxTargets \in Nat
ASSUME RotatedAssumption == Rotated \in BOOLEAN

Number == 0 .. MaxTargets
Kinds  == {"target", "bitmap", "stroke", "brush"}

VARIABLES
    pc,             \* where Draw is
    pRenderTarget,  \* m_pRenderTarget
    pBitmap,        \* m_pBitmap
    pStrokeStyle,   \* m_pStrokeStyle
    pBlackBrush,    \* m_pBlackBrush
    made,           \* render targets made so far
    held,           \* objects that are not released
    lost,           \* is the device under the target gone?
    transform,      \* the target's transform; the image is upside down without one
    drawnWith,      \* the transform DrawBitmap used
    shown,          \* is the picture of this or the last call on the screen?
    returned        \* what the last call returned

pointers == <<pRenderTarget, pBitmap, pStrokeStyle, pBlackBrush>>
objects  == <<pointers, made, held>>
outcome  == <<shown, returned>>
vars == <<pc, objects, lost, transform, drawnWith, outcome>>

Init ==
    /\ pc = "idle"
    /\ pRenderTarget = 0 /\ pBitmap = 0 /\ pStrokeStyle = 0 /\ pBlackBrush = 0
    /\ made = 0
    /\ held = {}
    /\ lost = FALSE
    /\ transform = "none"
    /\ drawnWith = "nothing"
    /\ shown = FALSE
    /\ returned = TRUE

Goes(from, to) == pc = from /\ pc' = to

Returns(from, result) == Goes(from, "idle") /\ returned' = result

StartDraw ==
    /\ Goes("idle", "ensure")
    /\ shown' = FALSE
    /\ UNCHANGED <<objects, lost, transform, drawnWith, returned>>

-----------------------------------------------------------------------------
(* EnsureResources.                                                         *)

HaveResources ==
    /\ Goes("ensure", "copy")
    /\ pRenderTarget # 0
    /\ UNCHANGED <<objects, lost, transform, drawnWith, outcome>>

CreateTargetFails ==
    /\ Returns("ensure", FALSE)
    /\ pRenderTarget = 0
    /\ UNCHANGED <<objects, lost, transform, drawnWith, shown>>

\* Mutant: keeps the target that has no bitmap.
CreateBitmapFails_KeepsTarget ==
    /\ Returns("ensure", FALSE)
    /\ pRenderTarget = 0
    /\ made < MaxTargets
    /\ made' = made + 1
    /\ pRenderTarget' = made'
    /\ held' = held \cup {<<"target", made'>>}
    /\ lost' = FALSE
    /\ UNCHANGED <<pBitmap, pStrokeStyle, pBlackBrush, transform, drawnWith, shown>>

\* The new target is released again.
CreateBitmapFails ==
    /\ Returns("ensure", FALSE)
    /\ pRenderTarget = 0
    /\ made < MaxTargets
    /\ made' = made + 1
    /\ UNCHANGED <<pointers, held, lost, transform, drawnWith, shown>>

\* Mutant: leaves the transform to Draw.
CreateResources_Untransformed(kinds) ==
    /\ pc = "ensure"
    /\ pRenderTarget = 0
    /\ made < MaxTargets
    /\ made' = made + 1
    /\ held' = held \cup {<<k, made'>> : k \in kinds}
    /\ pRenderTarget' = made'
    /\ pBitmap' = made'
    /\ pStrokeStyle' \in IF "stroke" \in kinds THEN {made'} ELSE {pStrokeStyle, 0}
    /\ pBlackBrush'  \in IF "brush" \in kinds THEN {made'} ELSE {pBlackBrush, 0}
    /\ lost' = FALSE
    /\ transform' = "none"
    /\ IF "brush" \in kinds THEN pc' = "copy" /\ UNCHANGED returned
                            ELSE Returns("ensure", FALSE)
    /\ UNCHANGED <<drawnWith, shown>>

\* Target and bitmap are made, and some of stroke style and brush. The result
\* for the stroke style is overwritten by the brush's; where the brush fails
\* the target stays and Draw returns.
CreateResources(kinds) ==
    /\ pc = "ensure"
    /\ pRenderTarget = 0
    /\ made < MaxTargets
    /\ made' = made + 1
    /\ held' = held \cup {<<k, made'>> : k \in kinds}
    /\ pRenderTarget' = made'
    /\ pBitmap' = made'
    /\ pStrokeStyle' \in IF "stroke" \in kinds THEN {made'} ELSE {pStrokeStyle, 0}
    /\ pBlackBrush'  \in IF "brush" \in kinds THEN {made'} ELSE {pBlackBrush, 0}
    /\ lost' = FALSE
    /\ transform' = IF Rotated THEN "rotated" ELSE "flipped"
    /\ IF "brush" \in kinds THEN pc' = "copy" /\ UNCHANGED returned
                            ELSE Returns("ensure", FALSE)
    /\ UNCHANGED <<drawnWith, shown>>

EnsureResources ==
    \/ HaveResources \/ CreateTargetFails \/ CreateBitmapFails
    \/ \E more \in SUBSET {"stroke", "brush"} :
          CreateResources({"target", "bitmap"} \cup more)

-----------------------------------------------------------------------------
(* The rest of Draw.                                                        *)

CopyFromMemory ==
    /\ Goes("copy", "paint")
    /\ UNCHANGED <<objects, lost, transform, drawnWith, outcome>>

\* Draw returns, and keeps the resources.
CopyFails ==
    /\ Returns("copy", FALSE)
    /\ UNCHANGED <<objects, lost, transform, drawnWith, shown>>

\* DrawBitmap, then SetTransform for the next call (the frame round the face
\* is FramePipeline's and FaceCrop's).
Paint ==
    /\ Goes("paint", "end")
    /\ drawnWith' = transform
    /\ transform' = "flipped"
    /\ UNCHANGED <<objects, lost, outcome>>

EndDraw ==
    /\ Returns("end", TRUE)
    /\ ~lost
    /\ shown' = TRUE
    /\ UNCHANGED <<objects, lost, transform, drawnWith>>

EndDrawFails ==
    /\ Returns("end", FALSE)
    /\ ~lost
    /\ UNCHANGED <<objects, lost, transform, drawnWith, shown>>

\* Mutant: releases the target only.
DiscardResources_KeepsBitmap ==
    /\ held' = held \ {<<"target", pRenderTarget>>}
    /\ pRenderTarget' = 0
    /\ UNCHANGED <<pBitmap, pStrokeStyle, pBlackBrush, made>>

DiscardResources ==
    /\ held' = held \ {<<"target", pRenderTarget>>, <<"bitmap", pBitmap>>}
    /\ pRenderTarget' = 0
    /\ pBitmap' = 0
    /\ UNCHANGED <<pStrokeStyle, pBlackBrush, made>>

\* Mutant: an error like any other.
EndDrawLost_Keeps ==
    /\ Returns("end", FALSE)
    /\ lost
    /\ UNCHANGED <<objects, lost, transform, drawnWith, shown>>

\* D2DERR_RECREATE_TARGET: hr becomes S_OK.
EndDrawLost ==
    /\ Returns("end", TRUE)
    /\ lost
    /\ DiscardResources
    /\ UNCHANGED <<lost, transform, drawnWith, shown>>

Draw == \/ StartDraw \/ EnsureResources \/ CopyFromMemory \/ CopyFails
        \/ Paint \/ EndDraw \/ EndDrawFails \/ EndDrawLost

\* The adapter is removed, reset or its driver replaced.
DeviceLost ==
    /\ pRenderTarget # 0
    /\ lost' = TRUE
    /\ UNCHANGED <<pc, objects, transform, drawnWith, outcome>>

-----------------------------------------------------------------------------
\* The destructor, between two calls.
Destroy ==
    /\ Goes("idle", "destroyed")
    /\ DiscardResources
    /\ UNCHANGED <<lost, transform, drawnWith, outcome>>

Next == Draw \/ DeviceLost \/ Destroy

\* Pictures go on coming, and whatever Direct2D refuses it grants in the end.
Fairness ==
    /\ WF_vars(Draw)
    /\ SF_vars(CreateResources(Kinds))
    /\ SF_vars(CopyFromMemory)
    /\ SF_vars(EndDraw)

Spec     == Init /\ [][Next]_vars
FairSpec == Spec /\ Fairness

-----------------------------------------------------------------------------
TypeOK ==
    /\ pc \in {"idle", "ensure", "copy", "paint", "end", "destroyed"}
    /\ pRenderTarget \in Number
    /\ pBitmap \in Number
    /\ pStrokeStyle \in Number
    /\ pBlackBrush \in Number
    /\ made \in Number
    /\ held \subseteq Kinds \X Number
    /\ lost \in BOOLEAN
    /\ transform \in {"none", "flipped", "rotated"}
    /\ drawnWith \in {"nothing", "flipped", "rotated"}
    /\ shown \in BOOLEAN
    /\ returned \in BOOLEAN

\* Draw copies into and paints a bitmap that exists and belongs to the target
\* it paints on, whichever creation failed before and however often the device
\* was lost: a target is never kept without its bitmap (DrawDevice.cpp:90, 218).
BitmapOfTarget ==
    pc \in {"copy", "paint", "end"} =>
        /\ pBitmap = pRenderTarget
        /\ {<<"target", pRenderTarget>>, <<"bitmap", pRenderTarget>>} \subseteq held

\* No target and no bitmap is lost track of: at most one of each is not
\* released, a pointer leads to it, and after the destructor there is none
\* (lines 42, 90, 156, 272).
NoTargetLeaks ==
    \A object \in held :
        /\ object[1] = "target" => object[2] = pRenderTarget
        /\ object[1] = "bitmap" => object[2] = pBitmap

\* Draw says that all is well of no picture that is lost, but for the one that finds
\* the device lost, and then it has no target any more (lines 265-275).
TrueMeansShown == pc = "idle" /\ returned => shown \/ pRenderTarget = 0

\* Every picture is drawn with the rotation Initialize was given ("display
\* rotation (in degrees)", line 185), the first after a loss included: the
\* buffer is upside down, and a new target has no transform. It holds for the
\* 180 degrees the program uses, and not for 90 (line 262).
Oriented ==
    pc = "end" => drawnWith = IF Rotated THEN "rotated" ELSE "flipped"

\* Whatever is lost or refused, a later picture gets on the screen again.
ShowsAgain ==
    pc = "idle" /\ ~shown ~> shown \/ made = MaxTargets \/ pc = "destroyed"
=============================================================================
