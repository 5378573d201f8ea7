--------------------------- MODULE DisplayControl ---------------------------
(***************************************************************************)
(* What the library promises to its callers about pictures, on a card      *)
(* where every display has a CRTC of its own.  Hotplug, connectors, CRTCs, *)
(* planes and buffers are not visible here.                                *)
(*                                                                         *)
(* An output of the card gets a picture at start, once, or by a call that  *)
(* names its path, whether a display is plugged into it or not; the call   *)
(* changes no other output.  Whether it set the picture the caller cannot  *)
(* rely on (see FalseMeansFailed of module ValVideo), so what it returns   *)
(* is no part of the promise.  The promise has the condition of module     *)
(* Scanout: once an allocation has failed ("not sound"), setting one       *)
(* picture may darken others.                                              *)
(***************************************************************************)
EXTENDS Integers

CONSTANTS
    Path,     \* display paths: 0 is the primary display
    Size,     \* picture sizes
    Dark,     \* no picture of this process
    MaxSize,  \* the configured maximum
    MinSize,  \* the configured minimum
    Request   \* what callers may ask for: [win, path]

VARIABLES
    started,  \* initialize has returned
    shown,    \* shown[p]: the picture on the output of path p, or Dark
    pending,  \* the setDisplayResolution under way, as a set
    sound,    \* no allocation has failed yet
    alive     \* the process runs

dvars == <<started, shown, pending, sound, alive>>

Init ==
    /\ started = FALSE
    /\ shown = [p \in Path |-> Dark]
    /\ pending = {}
    /\ sound = TRUE
    /\ alive = TRUE

(* The picture of path p becomes s; others may go dark if not sound. *)
Others(p) == IF sound THEN {{}} ELSE SUBSET (Path \ {p})
Repaint(p, s) ==
    \E lost \in Others(p) :
        shown' = [q \in Path |-> IF q = p THEN s
                                 ELSE IF q \in lost THEN Dark
                                 ELSE shown[q]]

(* The kernel took the picture, or refused it and the output is dark. *)
Painted(p, s) == (Repaint(p, s) \/ Repaint(p, Dark)) /\ UNCHANGED <<sound, alive>>

(* There was no memory for the picture; what was there is gone. *)
Lost(p) == Repaint(p, Dark) /\ sound' = FALSE /\ UNCHANGED alive

(* The process goes down, for one of the causes of CrashCause in module    *)
(* DriElements.                                                            *)
Crash == alive' = FALSE /\ UNCHANGED <<started, shown, pending, sound>>

(* At start an output gets a picture that exceeds the maximum in one       *)
(* dimension at most.                                                      *)
Light(p, s) ==
    /\ ~started /\ shown[p] = Dark
    /\ s.w <= MaxSize.w \/ s.h <= MaxSize.h
    /\ Painted(p, s) \/ Lost(p)
    /\ UNCHANGED <<started, pending>>

Start == ~started /\ started' = TRUE /\ UNCHANGED <<shown, pending, sound, alive>>

(* A call, one at a time; a size out of bounds is refused at once. *)
Call(r) ==
    /\ started /\ pending = {}
    /\ r.win.w <= MaxSize.w /\ r.win.h <= MaxSize.h
    /\ MinSize.w <= r.win.w /\ MinSize.h <= r.win.h
    /\ pending' = {r}
    /\ UNCHANGED <<started, shown, sound, alive>>

(* The call ends; it may have been refused, or have failed. *)
Return(r) ==
    /\ pending = {r} /\ pending' = {}
    /\ \/ UNCHANGED <<shown, sound, alive>>
       \/ r.path \in Path /\ (Painted(r.path, r.win) \/ Lost(r.path))
       \/ ~sound /\ alive' = FALSE /\ UNCHANGED <<shown, sound>>
    /\ UNCHANGED started

Next ==
    /\ alive
    /\ \/ \E p \in Path, s \in Size : Light(p, s)
       \/ Start
       \/ \E r \in Request : Call(r) \/ Return(r)
       \/ Crash

Spec == Init /\ [][Next]_dvars
=============================================================================
