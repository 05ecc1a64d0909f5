------------------------------ MODULE Pictures ------------------------------
(* The operators that make pictures: the scaler, the frames made between    *)
(* two others, and the filters.  They have no common state; a behaviour is  *)
(* one of one of them.                                                      *)
EXTENDS Scaler, Motion, PictureFilters

VARIABLE part \* the operator that runs

pictureVars == <<part, scaleVars, motionVars, filterVars>>

PictureInit ==
  /\ part \in {"scaler", "motion", "filters"}
  /\ ScaleInit /\ MotionInit /\ FilterInit

PictureNext ==
  /\ UNCHANGED part
  /\ \/ part = "scaler" /\ ScaleNext /\ UNCHANGED <<motionVars, filterVars>>
     \/ part = "motion" /\ MotionNext /\ UNCHANGED <<scaleVars, filterVars>>
     \/ part = "filters" /\ FilterNext /\ UNCHANGED <<scaleVars, motionVars>>

PictureSpec == PictureInit /\ [][PictureNext]_pictureVars
-----------------------------------------------------------------------------
\* Whatever operator runs, the picture that leaves it is the one it should make
\* of the picture that came in.
PicturesRight == ScaledRight /\ MidRight /\ FilteredRight
=============================================================================
