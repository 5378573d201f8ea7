------------------------------ MODULE Scanout ------------------------------
(***************************************************************************)
(* What mode setting promises to the rest of the library: the picture of   *)
(* this process that each CRTC shows.                                      *)
(*                                                                         *)
(* DriDevice::setActiveMode ends in DrmCrtc::createScanoutFb followed by   *)
(* drmModeSetCrtc.  A caller of the pair sees one of four outcomes, the    *)
(* four actions below; module ScanoutFb models the pair itself, with its   *)
(* buffers and framebuffers, and is shown to implement this module.        *)
(*                                                                         *)
(* The promise has a condition.  A CRTC's buffer record goes stale when an *)
(* allocation fails; from then on ("not sound") a mode set may darken      *)
(* CRTCs it was not asked about, or corrupt the heap.                      *)
(*                                                                         *)
(* Connectors are not known here: the user of the module says which other  *)
(* CRTCs the kernel turns off because the mode set takes their connectors. *)
(***************************************************************************)
CONSTANTS
    Crtc,    \* the CRTCs of the card
    Size,    \* picture sizes
    Dark     \* no picture of this process

VARIABLES
    picture,   \* picture[c]: the size of our framebuffer on c, or Dark
    sound,     \* no buffer allocation has failed yet
    alive      \* the process runs and its heap is intact

scanoutVars == <<picture, sound, alive>>

ScanoutTypeOK ==
    /\ picture \in [Crtc -> Size \cup {Dark}]
    /\ sound \in BOOLEAN
    /\ alive \in BOOLEAN

ScanoutInit ==
    /\ picture = [c \in Crtc |-> Dark]
    /\ sound = TRUE
    /\ alive = TRUE

(* The sets of CRTCs, other than c, that a mode set on c may darken. *)
Collateral(c) == IF sound THEN {{}} ELSE SUBSET (Crtc \ {c})

Repaint(c, p, off) ==
    \E lost \in Collateral(c) :
        picture' = [d \in Crtc |-> IF d = c THEN p
                                   ELSE IF d \in lost \cup off THEN Dark
                                   ELSE picture[d]]

(* The buffer was made and the kernel took the mode; off are the CRTCs it  *)
(* turned off for it.                                                      *)
Shown(c, s, off) ==
    /\ alive
    /\ Repaint(c, s, off)
    /\ UNCHANGED <<sound, alive>>

(* The buffer was made, the kernel refused the mode: the previous picture  *)
(* is gone all the same, its framebuffer was removed first.                *)
Refused(c) ==
    /\ alive
    /\ Repaint(c, Dark, {})
    /\ UNCHANGED <<sound, alive>>

(* No buffer could be made: the previous picture is gone too. *)
NoBuffer(c) ==
    /\ alive
    /\ Repaint(c, Dark, {})
    /\ sound' = FALSE
    /\ UNCHANGED alive

(* The stale record of c was released a second time. *)
HeapCorrupted ==
    /\ alive
    /\ ~sound
    /\ alive' = FALSE
    /\ UNCHANGED <<picture, sound>>

ScanoutNext ==
    \/ \E c \in Crtc : \/ \E s \in Size : Shown(c, s, {})
                       \/ Refused(c)
                       \/ NoBuffer(c)
    \/ HeapCorrupted

ScanoutSpec == ScanoutInit /\ [][ScanoutNext]_scanoutVars
=============================================================================
