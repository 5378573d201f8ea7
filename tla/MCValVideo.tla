----------------------------- MODULE MCValVideo -----------------------------
(* Two connectors, two CRTCs and two logical planes; or one of each.       *)
EXTENDS ValVideo

HD   == [w |-> 2, h |-> 1]
FHD  == [w |-> 3, h |-> 2]
Tall == [w |-> 2, h |-> 3]
UHD  == [w |-> 4, h |-> 4]

NoMin == [w |-> 0, h |-> 0]

(* Each encoder drives one CRTC of its own; at boot the first one may be   *)
(* on it, or on none.                                                      *)
PinnedEncoders == <<<<{2}>>, <<{1}>>>>
PinnedRoute == {<<NoEncoder, NoEncoder>>, <<2, NoEncoder>>, <<NoCrtc, NoEncoder>>}
OneSize == {FHD}
TwoSizes == {FHD, Tall}
TallFirst == {<<Tall, FHD>>}
OneMode == {<<FHD>>}

(* Planes of one CRTC each; one plane that both CRTCs can use. *)
OwnPlanes == <<{1}, {2}, {2}>>
OnePlane  == <<{1, 2}>>

(* For the ranges: displays smaller, taller and larger than the maximum,   *)
(* on a connector with two encoders, the first of them without a CRTC and  *)
(* neither sure to be given.  A minimum excludes the smaller display's     *)
(* mode.                                                                   *)
RangeSize == {HD, FHD, Tall, UHD}
RangeModes == {<<HD>>, <<Tall, FHD>>, <<UHD, FHD>>}
RangeMin == [w |-> 2, h |-> 2]
RangeEncoders == <<<<{}, {1}>>>>
RangeRoute == {<<NoEncoder>>, <<1>>}
RangePlanes == <<{1}>>

(* A list as the kernel sorts it: the preferred mode first, then by size;  *)
(* the display has that size at another rate too.                          *)
PreferredFirst == {<<HD, FHD, HD>>}

(* The instances are of the kind the theorems are about. *)
ASSUME InstancePinned == Pinned /\ Disjoint
=============================================================================
