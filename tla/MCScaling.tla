----------------------------- MODULE MCScaling -----------------------------
(* One connector, one CRTC and one plane; regions on both sides of the     *)
(* heights refused.                                                        *)
EXTENDS Scaling

FHD == [w |-> 3, h |-> 2]

OneSize     == {FHD}
OneMode     == {<<FHD>>}
OneEncoder  == <<<<{1}>>>>
OneRoute    == {<<NoEncoder>>}
OnePlane    == <<{1}>>
NoMin       == [w |-> 0, h |-> 0]
=============================================================================
