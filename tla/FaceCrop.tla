------------------------------- MODULE FaceCrop -------------------------------
(***************************************************************************)
(* The arithmetic on rectangles, one analysed picture long: which face      *)
(* FaceDetectionDlib picks, and which region of the picture ImgProcessing   *)
(* sends for it.                                                            *)
(*                                                                          *)
(* A rectangle is dlib's: its right column and bottom line belong to it. A  *)
(* region is OpenCV's Rect. left() - width() / 4 is unsigned in the code and *)
(* wraps back in the conversion to int; no value here is near 2^31.         *)
(***************************************************************************)
EXTENDS Integers, Sequences

CONSTANTS
    Width, Height, \* _img_width, _img_height
    Beyond,        \* bound: how far a detection may reach over the border
    Sizes,         \* bound: the side lengths of detections (they are square)
    MaxFaces       \* bound: detections in one picture

\* The smallest detection is four pixels wide (dlib's is eighty).
ASSUME SizesAssumption ==
    /\ Width \in Nat \ {0, 1} /\ Height \in Nat \ {0, 1}
    /\ Beyond \in Nat
    /\ Sizes \subseteq Nat \ (0 .. 3)
    /\ MaxFaces \in Nat

Rectangle == [left : Int, top : Int, right : Int, bottom : Int]
Region    == [x : Nat, y : Nat, width : Nat, height : Nat]

W(rect) == rect.right - rect.left + 1
H(rect) == rect.bottom - rect.top + 1

\* What the detector returns: it may reach over the border of the picture.
Square(l, t, s) == [left |-> l, top |-> t, right |-> l + s - 1, bottom |-> t + s - 1]
Detected ==
    {rect \in {Square(l, t, s) : l \in -Beyond .. Width - 1,
                                 t \in -Beyond .. Height - 1, s \in Sizes} :
        rect.right \in 0 .. Width - 1 + Beyond /\ rect.bottom \in 0 .. Height - 1 + Beyond}

VARIABLES
    stage,    \* where ImgProcessing is
    vec_rst,  \* the detector's results
    face_rst, \* what FaceDetectionDlib returned
    region    \* reg, the part of the picture that is sent

cropVars == <<stage, vec_rst, face_rst, region>>

Nothing == [x |-> 0, y |-> 0, width |-> 0, height |-> 0]

CropInit ==
    /\ stage = "captured"
    /\ vec_rst \in UNION {[1 .. n -> Detected] : n \in 0 .. MaxFaces}
    /\ face_rst = <<>>
    /\ region = Nothing

-----------------------------------------------------------------------------
(* FaceDetectionDlib.                                                       *)

\* best[n]: the number of max_rec after n rounds of the loop, 0 before a
\* rectangle has a larger area than 0.
LargestUpTo(s) ==
    LET area(n) == IF n = 0 THEN 0 ELSE W(s[n]) * H(s[n])
        best[n \in 0 .. Len(s)] ==
            IF n = 0 THEN 0
            ELSE IF area(best[n - 1]) < area(n) THEN n ELSE best[n - 1]
    IN best

FaceDetectionDlib ==
    /\ stage = "captured"
    /\ stage' = "detected"
    /\ \/ vec_rst = <<>> /\ face_rst' = <<>>
       \/ \E i \in DOMAIN vec_rst :
             i = LargestUpTo(vec_rst)[Len(vec_rst)] /\ face_rst' = <<vec_rst[i]>>
    /\ UNCHANGED <<vec_rst, region>>

-----------------------------------------------------------------------------
(* The margin of a quarter, and what the border leaves of it.               *)

\* Mutant: clamps to the width, not to the last column.
Right_OffByOne(face) ==
    IF face.right + W(face) \div 4 <= Width THEN face.right + W(face) \div 4 ELSE Width + 1

\* Mutant: does not clamp.
Left_Unclamped(face) == face.left - W(face) \div 4

Left(face) ==
    IF face.left - W(face) \div 4 >= 0 THEN face.left - W(face) \div 4 ELSE 0
Right(face) ==
    IF face.right + W(face) \div 4 < Width THEN face.right + W(face) \div 4 ELSE Width - 1
Top(face) ==
    IF face.top - H(face) \div 4 >= 0 THEN face.top - H(face) \div 4 ELSE 0
Bottom(face) ==
    IF face.bottom + H(face) \div 4 < Height THEN face.bottom + H(face) \div 4 ELSE Height - 1

CropOf(face) ==
    [x |-> Left(face), y |-> Top(face),
     width |-> Right(face) - Left(face), height |-> Bottom(face) - Top(face)]

Crop ==
    /\ stage = "detected"
    /\ face_rst # <<>>
    /\ stage' = "cropped"
    /\ region' = CropOf(face_rst[1])
    /\ UNCHANGED <<vec_rst, face_rst>>

-----------------------------------------------------------------------------
CropNext == FaceDetectionDlib \/ Crop

CropSpec == CropInit /\ [][CropNext]_cropVars

-----------------------------------------------------------------------------
\* The types; a region has no negative corner and no negative side.
CropTypeOK ==
    /\ stage \in {"captured", "detected", "cropped"}
    /\ vec_rst \in Seq(Detected)
    /\ face_rst \in Seq(Detected)
    /\ region \in Region

\* The region is a part of the picture, as cv::Mat's operator() demands, and
\* has pixels, wherever on the border the face is (ContentRendering.cpp:368).
CropInside ==
    stage = "cropped" =>
        /\ region.x + region.width <= Width
        /\ region.y + region.height <= Height
        /\ region.width > 0
        /\ region.height > 0

\* Nothing of the face that is in the picture is cut off, except in the last
\* column and line of the picture, which no region reaches: right and bottom
\* are inclusive where they are clamped and exclusive where they are used.
WholeFace ==
    stage = "cropped" =>
        LET face == face_rst[1]
        IN  /\ \A c \in 0 .. Width - 2 :
                  c \in face.left .. face.right => c \in region.x .. region.x + region.width - 1
            /\ \A r \in 0 .. Height - 2 :
                  r \in face.top .. face.bottom => r \in region.y .. region.y + region.height - 1

\* The face is the first of the largest ones, and there is one where the detector
\* has found any: no default rectangle is returned (Img_Prepro.cpp:31-42).
LargestFace ==
    stage # "captured" =>
        IF vec_rst = <<>> THEN face_rst = <<>>
        ELSE \E i \in DOMAIN vec_rst :
                /\ face_rst = <<vec_rst[i]>>
                /\ \A j \in DOMAIN vec_rst :
                      LET larger == W(vec_rst[i]) * H(vec_rst[i]) - W(vec_rst[j]) * H(vec_rst[j])
                      IN  IF j < i THEN larger > 0 ELSE larger >= 0

\* What cv::Mat is asked for is in the picture and holds the largest face.
CropFits == CropInside /\ WholeFace /\ LargestFace
==============================================================================
