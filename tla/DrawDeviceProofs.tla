--------------------------- MODULE DrawDeviceProofs ---------------------------
(***************************************************************************)
(* Proofs about DrawDevice, for every number of targets made and lost.      *)
(***************************************************************************)
EXTENDS DrawDevice, TLAPS

\* Target and bitmap come and go together, and where the one is, the other is
\* held with it; a target always has its transform.
Paired ==
    /\ pBitmap = pRenderTarget
    /\ pc \in {"copy", "paint", "end"} => pRenderTarget # 0
    /\ pRenderTarget # 0 => transform # "none"
    /\ pRenderTarget # 0 =>
          {<<"target", pRenderTarget>>, <<"bitmap", pRenderTarget>>} \subseteq held
    /\ \A object \in held :
          /\ object[2] # 0
          /\ object[1] \in {"target", "bitmap"} => object[2] = pRenderTarget

Turned ==
    ~Rotated =>
        /\ pRenderTarget # 0 => transform = "flipped"
        /\ pc = "end" => drawnWith = "flipped"

IInv == TypeOK /\ Paired /\ Turned

LEMMA InitIInv == Init => IInv
<1> SUFFICES ASSUME Init PROVE IInv
  OBVIOUS
<1>1. 0 \in Number
  BY MaxTargetsAssumption DEF Number
<1>2. TypeOK
  BY <1>1, Zenon DEF Init, TypeOK
<1>3. Paired /\ Turned
  BY DEF Init, Paired, Turned
<1> QED BY <1>2, <1>3 DEF IInv

\* What making the resources does to them.
LEMMA CreateStep ==
    ASSUME IInv, NEW kinds \in SUBSET Kinds, {"target", "bitmap"} \subseteq kinds,
           CreateResources(kinds)
    PROVE  IInv'
<1>1. made' \in Number /\ made' # 0
  BY MaxTargetsAssumption DEF IInv, TypeOK, Number, CreateResources
<1>2. /\ pRenderTarget' = made' /\ pBitmap' = made'
      /\ held' = held \cup {<<k, made'>> : k \in kinds}
      /\ pRenderTarget = 0
  BY DEF CreateResources
<1>3. 0 \in Number
  BY MaxTargetsAssumption DEF Number
<1>4. pStrokeStyle' \in Number /\ pBlackBrush' \in Number
  BY <1>1, <1>3 DEF IInv, TypeOK, CreateResources
<1>5. held' \subseteq Kinds \X Number
  BY <1>1, <1>2 DEF IInv, TypeOK
<1>6. /\ pc' \in {"idle", "copy"}
      /\ transform' = IF Rotated THEN "rotated" ELSE "flipped"
      /\ drawnWith' = drawnWith /\ shown' = shown
  BY DEF CreateResources, Returns, Goes
<1>7. lost' \in BOOLEAN /\ returned' \in BOOLEAN
  BY Zenon DEF CreateResources, Returns, Goes, IInv, TypeOK
<1>8. TypeOK'
  <2>1. transform' \in {"none", "flipped", "rotated"}
    BY <1>6
  <2>2. pc' \in {"idle", "ensure", "copy", "paint", "end", "destroyed"}
    BY <1>6
  <2> QED BY <1>1, <1>2, <1>4, <1>5, <1>6, <1>7, <2>1, <2>2, Zenon DEF IInv, TypeOK
<1>9. Paired'
  <2>1. {<<"target", made'>>, <<"bitmap", made'>>} \subseteq held'
    BY <1>2
  <2>2. ASSUME NEW object \in held'
        PROVE  /\ object[2] # 0
               /\ object[1] \in {"target", "bitmap"} => object[2] = made'
    <3>1. CASE object \in held
      BY <3>1, <1>2 DEF IInv, Paired
    <3>2. CASE object \in {<<k, made'>> : k \in kinds}
      BY <3>2, <1>1
    <3> QED BY <3>1, <3>2, <1>2
  <2>3. transform' # "none"
    BY <1>6
  <2> QED BY <1>1, <1>2, <2>1, <2>2, <2>3 DEF Paired
<1>10. Turned'
  BY <1>6 DEF Turned
<1> QED BY <1>8, <1>9, <1>10 DEF IInv

\* A lost device's target and bitmap are the only ones that were held.
LEMMA LostStep == IInv /\ (EndDrawLost \/ Destroy) => IInv'
<1> SUFFICES ASSUME IInv, EndDrawLost \/ Destroy PROVE IInv'
  OBVIOUS
<1>1. /\ pc' \in {"idle", "destroyed"}
      /\ pRenderTarget' = 0 /\ pBitmap' = 0
      /\ held' = held \ {<<"target", pRenderTarget>>, <<"bitmap", pBitmap>>}
      /\ UNCHANGED <<pStrokeStyle, pBlackBrush, made, lost, transform, drawnWith, shown>>
  BY DEF EndDrawLost, Destroy, Returns, Goes, DiscardResources, outcome
<1>2. 0 \in Number
  BY MaxTargetsAssumption DEF Number
<1>3. TypeOK'
  <2>1. returned' \in BOOLEAN
    BY Zenon DEF EndDrawLost, Destroy, Returns, outcome, IInv, TypeOK
  <2>2. pc' \in {"idle", "ensure", "copy", "paint", "end", "destroyed"}
    BY <1>1
  <2> QED BY <1>1, <1>2, <2>1, <2>2, Zenon DEF IInv, TypeOK
<1>4. Paired'
  <2>1. ASSUME NEW object \in held'
        PROVE  object[2] # 0 /\ object[1] \notin {"target", "bitmap"}
    <3>1. object \in held /\ object \in Kinds \X Number
      BY <1>1, <2>1 DEF IInv, TypeOK
    <3>2. object = <<object[1], object[2]>>
      BY <3>1
    <3> QED BY <1>1, <2>1, <3>1, <3>2 DEF IInv, Paired
  <2> QED BY <1>1, <2>1 DEF Paired
<1>5. Turned'
  BY <1>1 DEF Turned
<1> QED BY <1>3, <1>4, <1>5 DEF IInv

\* Every other step leaves the objects alone; what it may do to the rest.
Quiet ==
    /\ UNCHANGED <<pRenderTarget, pBitmap, pStrokeStyle, pBlackBrush, held>>
    /\ made' \in Number
    /\ pc' \in {"idle", "ensure", "copy", "paint", "end", "destroyed"}
    /\ pc' \in {"copy", "paint", "end"} => pRenderTarget # 0
    /\ transform' \in {transform, "flipped"}
    /\ drawnWith' \in {"nothing", "flipped", "rotated"}
    /\ pc' = "end" /\ ~Rotated => drawnWith' = "flipped"

LEMMA QuietKeeps ==
    ASSUME IInv, Quiet,
           lost' \in BOOLEAN, shown' \in BOOLEAN, returned' \in BOOLEAN
    PROVE  IInv'
<1>1. transform' \in {"none", "flipped", "rotated"}
  BY DEF Quiet, IInv, TypeOK
<1>2. TypeOK'
  BY <1>1, Zenon DEF Quiet, IInv, TypeOK
<1>3. Paired'
  BY DEF Quiet, IInv, Paired
<1>4. Turned'
  BY DEF Quiet, IInv, Turned
<1> QED BY <1>2, <1>3, <1>4 DEF IInv

LEMMA Flags ==
    ASSUME TypeOK,
           \/ StartDraw \/ HaveResources \/ CreateTargetFails \/ CreateBitmapFails
           \/ CopyFromMemory \/ CopyFails \/ Paint \/ EndDraw \/ EndDrawFails
           \/ DeviceLost \/ UNCHANGED vars
    PROVE  lost' \in BOOLEAN /\ shown' \in BOOLEAN /\ returned' \in BOOLEAN
<1> USE DEF TypeOK, Returns, outcome
<1>1. CASE StartDraw
  BY <1>1, Zenon DEF StartDraw
<1>2. CASE HaveResources
  BY <1>2, Zenon DEF HaveResources
<1>3. CASE CreateTargetFails
  BY <1>3, Zenon DEF CreateTargetFails
<1>4. CASE CreateBitmapFails
  BY <1>4, Zenon DEF CreateBitmapFails
<1>5. CASE CopyFromMemory
  BY <1>5, Zenon DEF CopyFromMemory
<1>6. CASE CopyFails
  BY <1>6, Zenon DEF CopyFails
<1>7. CASE Paint
  BY <1>7, Zenon DEF Paint
<1>8. CASE EndDraw
  BY <1>8, Zenon DEF EndDraw
<1>9. CASE EndDrawFails
  BY <1>9, Zenon DEF EndDrawFails
<1>10. CASE DeviceLost
  BY <1>10, Zenon DEF DeviceLost
<1>11. CASE UNCHANGED vars
  BY <1>11, Zenon DEF vars
<1> QED BY <1>1, <1>2, <1>3, <1>4, <1>5, <1>6, <1>7, <1>8, <1>9, <1>10, <1>11

LEMMA QuietStep ==
    ASSUME IInv,
           \/ StartDraw \/ HaveResources \/ CreateTargetFails \/ CreateBitmapFails
           \/ CopyFromMemory \/ CopyFails \/ Paint \/ EndDraw \/ EndDrawFails
           \/ DeviceLost \/ UNCHANGED vars
    PROVE  IInv'
<1> USE MaxTargetsAssumption
        DEF IInv, TypeOK, Paired, Turned, Quiet, Goes, Returns, pointers, objects
<1>1. StartDraw => Quiet
  BY DEF StartDraw
<1>2. HaveResources => Quiet
  BY DEF HaveResources
<1>3. CreateTargetFails => Quiet
  BY DEF CreateTargetFails
<1>4. CreateBitmapFails => Quiet
  BY DEF CreateBitmapFails, Number
<1>5. CopyFromMemory => Quiet
  BY DEF CopyFromMemory
<1>6. CopyFails => Quiet
  BY DEF CopyFails
<1>7. Paint => Quiet
  <2> SUFFICES ASSUME Paint PROVE Quiet
    OBVIOUS
  <2>1. pRenderTarget # 0 /\ drawnWith' = transform /\ transform' = "flipped"
    BY DEF Paint
  <2>2. drawnWith' \in {"nothing", "flipped", "rotated"}
    BY <2>1
  <2>3. ~Rotated => drawnWith' = "flipped"
    BY <2>1
  <2> QED BY <2>1, <2>2, <2>3 DEF Paint
<1>8. EndDraw => Quiet
  BY DEF EndDraw
<1>9. EndDrawFails => Quiet
  BY DEF EndDrawFails
<1>10. DeviceLost => Quiet
  BY DEF DeviceLost
<1>11. UNCHANGED vars => Quiet
  BY DEF vars
<1>12. Quiet
  BY <1>1, <1>2, <1>3, <1>4, <1>5, <1>6, <1>7, <1>8, <1>9, <1>10, <1>11
<1>13. lost' \in BOOLEAN /\ shown' \in BOOLEAN /\ returned' \in BOOLEAN
  BY Flags
<1> QED BY <1>12, <1>13, QuietKeeps

LEMMA Inductive == Spec => []IInv
<1>1. IInv /\ [Next]_vars => IInv'
  <2> SUFFICES ASSUME IInv, [Next]_vars PROVE IInv'
    OBVIOUS
  <2>1. CASE \E more \in SUBSET {"stroke", "brush"} :
                CreateResources({"target", "bitmap"} \cup more)
    <3>1. PICK more \in SUBSET {"stroke", "brush"} :
              CreateResources({"target", "bitmap"} \cup more)
      BY <2>1
    <3>2. {"target", "bitmap"} \cup more \in SUBSET Kinds
      BY DEF Kinds
    <3> QED BY <3>1, <3>2, CreateStep
  <2>2. CASE EndDrawLost \/ Destroy
    BY <2>2, LostStep
  <2> QED BY <2>1, <2>2, QuietStep DEF Next, Draw, EnsureResources
<1> QED BY InitIInv, <1>1, PTL DEF Spec

-----------------------------------------------------------------------------
\* Every state of the drawing device is well typed; a picture is never drawn
\* without a transform.
THEOREM TypeCorrect == Spec => []TypeOK
BY Inductive, PTL DEF IInv

\* Draw uses a bitmap that exists and belongs to the target it paints on.
THEOREM DrawsOwnBitmap == Spec => []BitmapOfTarget
<1>1. IInv => BitmapOfTarget
  BY DEF IInv, Paired, BitmapOfTarget
<1> QED BY <1>1, Inductive, PTL

\* However often the device is lost, no target and no bitmap is lost track of.
THEOREM TargetsReleased == Spec => []NoTargetLeaks
<1>1. IInv => NoTargetLeaks
  BY DEF IInv, Paired, NoTargetLeaks
<1> QED BY <1>1, Inductive, PTL

\* With the rotation the program uses every picture is the right way up.
THEOREM RightWayUp == ASSUME ~Rotated PROVE Spec => []Oriented
<1>1. IInv => Oriented
  BY DEF IInv, Turned, Oriented
<1> QED BY <1>1, Inductive, PTL

-----------------------------------------------------------------------------
\* Draw's result is true of every picture but the first one on a lost device
\* (DrawDevice.cpp:269-275).
THEOREM DrawTellsTruth == Spec => []TrueMeansShown
<1>1. Init => TrueMeansShown
  BY DEF Init, TrueMeansShown
<1>2. TrueMeansShown /\ [Next]_vars => TrueMeansShown'
  <2> SUFFICES ASSUME TrueMeansShown, [Next]_vars PROVE TrueMeansShown'
    OBVIOUS
  <2> USE DEF TrueMeansShown, Goes, Returns, objects, pointers, outcome
  <2>1. CASE Draw
    <3>1. CASE StartDraw \/ HaveResources \/ CopyFromMemory \/ Paint
      BY <3>1 DEF StartDraw, HaveResources, CopyFromMemory, Paint
    <3>2. CASE CreateTargetFails \/ CreateBitmapFails \/ CopyFails \/ EndDrawFails
      BY <3>2 DEF CreateTargetFails, CreateBitmapFails, CopyFails, EndDrawFails
    <3>3. CASE \E more \in SUBSET {"stroke", "brush"} :
                  CreateResources({"target", "bitmap"} \cup more)
      <4>1. pc' = "copy" \/ ~returned'
        BY <3>3 DEF CreateResources
      <4> QED BY <4>1
    <3>4. CASE EndDraw
      BY <3>4 DEF EndDraw
    <3>5. CASE EndDrawLost
      BY <3>5 DEF EndDrawLost, DiscardResources
    <3> QED BY <2>1, <3>1, <3>2, <3>3, <3>4, <3>5 DEF Draw, EnsureResources
  <2>2. CASE DeviceLost
    BY <2>2 DEF DeviceLost
  <2>3. CASE Destroy
    BY <2>3 DEF Destroy
  <2>4. CASE UNCHANGED vars
    BY <2>4 DEF vars
  <2> QED BY <2>1, <2>2, <2>3, <2>4 DEF Next
<1> QED BY <1>1, <1>2, PTL DEF Spec
=============================================================================
