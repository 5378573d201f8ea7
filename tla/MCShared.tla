------------------------------ MODULE MCShared ------------------------------
(* Two connectors and two logical planes, as on the Raspberry Pi 4, but    *)
(* every encoder can drive the first two CRTCs; none can drive the third.  *)
EXTENDS ValVideo

FHD  == [w |-> 3, h |-> 2]

SharedEncoders == <<<<{1, 2}>>, <<{1, 2}>>>>
SharedRoute == {<<NoEncoder, NoEncoder>>, <<2, NoEncoder>>, <<NoCrtc, NoEncoder>>}

(* One kind of display. *)
OneSize == {FHD}
OneMode == {<<FHD>>}
NoMin == [w |-> 0, h |-> 0]

(* A plane both these CRTCs can use, one of the third, one of the second.  *)
SharedPlanes == <<{1, 2}, {3}, {2}>>

(* The instance meets the condition of the theorems about shared encoders, *)
(* and not that of the others.                                             *)
ASSUME InstanceUnshared == Unshared /\ ~Pinned /\ ~Disjoint
=============================================================================
