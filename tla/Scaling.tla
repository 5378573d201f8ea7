------------------------------ MODULE Scaling ------------------------------
(***************************************************************************)
(* val_video_impl::applyScaling, on top of the other public calls.         *)
(*                                                                         *)
(* An output region is its height, which is all the code looks at.  The    *)
(* call is one step: nothing in it reads a connector.                      *)
(***************************************************************************)
EXTENDS ValVideo

CONSTANTS Height    \* heights of output regions callers ask for

NoHeight == -1

VARIABLES
    scale_param,  \* the global of that name
    scaled,       \* the kernel: the region each plane was last scaled to
    last          \* the sink of the last applyScaling, and what it returned

scalingVars == <<scale_param, scaled, last>>
svars       == <<vvars, scalingVars>>

(* A sink that is not in videoSinks may be named. *)
AnyWid == 0..NumPlanes

SInit ==
    /\ VInit
    /\ scale_param = NoHeight
    /\ scaled = [p \in PlaneId |-> NoHeight]
    /\ last = [wid |-> 0, ret |-> FALSE]

IsSinkConnected(w) == w \in Wid /\ connected[w]

(* "1 is used as a work around value for special purposes." *)
TooLow(h) == 1 < h /\ h < 12

(* setPlaneProperties, and the kernel's answer.  A sink without a physical *)
(* plane names object 0, which there is not.                               *)
SetPlaneProperties(p, h) ==
    \/ p \in PlaneId /\ scaled' = [scaled EXCEPT ![p] = h]
    \/ UNCHANGED scaled

(* True is returned whatever setPlaneProperties returns. *)
ApplyScaling(w, h) ==
    /\ Ready
    /\ IF IsSinkConnected(w) /\ ~TooLow(h)
       THEN /\ scale_param' = h
            /\ SetPlaneProperties(sink[w].plane, h)
            /\ last' = [wid |-> w, ret |-> TRUE]
       ELSE last' = [wid |-> w, ret |-> FALSE] /\ UNCHANGED <<scale_param, scaled>>
    /\ UNCHANGED vvars

SNext ==
    \/ VNext /\ UNCHANGED scalingVars
    \/ alive /\ \E w \in AnyWid, h \in Height : ApplyScaling(w, h)

(* The calls and ticks are as fairly served as without it. *)
SSpec == SInit /\ [][SNext]_svars /\ VFairness

-----------------------------------------------------------------------------
(* val_video_impl.cpp:166 logs "Failed to apply scaling for plane": true   *)
(* is returned only when the plane of the sink was given the region.       *)
TrueMeansScaled ==
    last.ret => /\ sink[last.wid].plane # NoPlane
                /\ scaled[sink[last.wid].plane] = scale_param
=============================================================================
