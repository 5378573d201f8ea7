-------------------------- MODULE DeviceCapability --------------------------
(***************************************************************************)
(* DeviceCapability: what the device capability file says, and what the    *)
(* library makes of it.                                                    *)
(*                                                                         *)
(* A file is abstracted to [max, min, planes]: a resolution is Unusable    *)
(* when the file, "videoCapabilities" or the key is missing, is not an     *)
(* object, or lacks one of w, h and freq; the planes are Unusable when the *)
(* key is missing or is not an array.                                      *)
(***************************************************************************)
EXTENDS Integers, Sequences

CONSTANTS
    UWord,          \* 2^16
    Unusable,
    DefaultMax,     \* 1920 x 1080
    DefaultMin,     \* 0 x 0
    DefaultPlanes,  \* {"MAIN"}
    PlaneName

Uint16 == 0..UWord - 1
Resolution == [w : Uint16, h : Uint16]

ASSUME CapabilityAssumption ==
    /\ UWord \in Nat \ {0}
    /\ DefaultMax \in Resolution /\ DefaultMin \in Resolution
    /\ DefaultPlanes \subseteq PlaneName
    /\ Unusable \notin [w : Int, h : Int] \cup Seq(PlaneName)

File == [max : {Unusable} \cup [w : Int, h : Int], min : {Unusable} \cup [w : Int, h : Int],
         planes : {Unusable} \cup Seq(PlaneName)]
Capability == [max : Resolution, min : Resolution, planes : SUBSET PlaneName]

(* A variant a run must reject: the number kept as it is. *)
Uncut(n) == n

(* static_cast<uint16_t> *)
Cut(n) == n % UWord

(* A variant a run must reject: width and height swapped. *)
ParseSwapped(default, r) == IF r = Unusable THEN default ELSE [w |-> Cut(r.h), h |-> Cut(r.w)]

(* All of a resolution, or nothing of it. *)
ParseResolution(default, r) == IF r = Unusable THEN default ELSE [w |-> Cut(r.w), h |-> Cut(r.h)]

(* The names form a set: a name given twice is one plane. *)
ParsePlanes(ps) == IF ps = Unusable THEN DefaultPlanes ELSE {ps[i] : i \in DOMAIN ps}

Parsed(file) == [max    |-> ParseResolution(DefaultMax, file.max),
                 min    |-> ParseResolution(DefaultMin, file.min),
                 planes |-> ParsePlanes(file.planes)]

(* val_video_impl::isValidMode *)
IsValidMode(cap, s) == /\ s.w <= cap.max.w /\ s.h <= cap.max.h
                       /\ s.w >= cap.min.w /\ s.h >= cap.min.h
=============================================================================
