---------------------------- MODULE PixelLayout ----------------------------
(***************************************************************************)
(* bo_create: how the planes of a pixel format are laid out in one dumb    *)
(* buffer.  The kernel makes a buffer of a virtual height, the code places *)
(* each plane in it, and drmModeAddFB2 checks the result.                  *)
(*                                                                         *)
(* One name stands for the formats the code treats alike: "NV12" for NV12  *)
(* and NV21, "NV16" for NV16 and NV61, "YUV420" for YUV420 and YVU420,     *)
(* "YUYV" for the packed YUV formats, "RGB16", "RGB24" and "RGB32" for the *)
(* RGB formats of that depth, "other" for those it does not know.          *)
(***************************************************************************)
EXTENDS Integers, Sequences

CONSTANTS
    Word,     \* 2^32: unsigned int wraps there
    Width,    \* widths asked for
    Height,   \* heights asked for
    Padding   \* bytes the kernel may add to a row

ASSUME LayoutAssumption ==
    /\ Word \in Nat \ {0}
    /\ Width \subseteq 1..Word - 1 /\ Height \subseteq 1..Word - 1
    /\ Padding \subseteq Nat

TwoPlanes   == {"NV12", "NV16"}
ThreePlanes == {"YUV420"}
Format == TwoPlanes \cup ThreePlanes \cup {"YUYV", "RGB16", "RGB24", "RGB32", "other"}

VARIABLE bo   \* what the last bo_create returned, and what it was asked for

NoBo == [format |-> "none"]

Init == bo = NoBo

-----------------------------------------------------------------------------
(* The code.                                                               *)

Bpp(f) == CASE f \in TwoPlanes \cup ThreePlanes -> 8
            [] f \in {"YUYV", "RGB16"}          -> 16
            [] f = "RGB24"                      -> 24
            [] f = "RGB32"                      -> 32

(* A variant a run must reject: NV16 takes the height of NV12. *)
VirtualHeightOfNV12(f, h) ==
    IF f \in TwoPlanes \cup ThreePlanes THEN ((h * 3) % Word) \div 2 ELSE h

VirtualHeight(f, h) ==
    CASE f \in {"NV12", "YUV420"} -> ((h * 3) % Word) \div 2
      [] f = "NV16"               -> (h * 2) % Word
      [] OTHER                    -> h

(* A variant a run must reject: a plane half as long. *)
BytesHalved(pitch, rows) == ((pitch * rows) % Word) \div 2

(* unsigned arithmetic *)
Bytes(pitch, rows) == (pitch * rows) % Word

(* pitches and offsets of the planes, in order.                            *)
Planes(f, pitch, h) ==
    LET half   == pitch \div 2
        first  == [pitch |-> pitch, offset |-> 0]
        second == Bytes(pitch, h)
        third  == (second + Bytes(half, h) \div 2) % Word
    IN  CASE f \in TwoPlanes   -> <<first, [pitch |-> pitch, offset |-> second]>>
          [] f \in ThreePlanes -> <<first, [pitch |-> half, offset |-> second],
                                           [pitch |-> half, offset |-> third]>>
          [] OTHER             -> <<first>>

-----------------------------------------------------------------------------
(* The kernel: DRM_IOCTL_MODE_CREATE_DUMB rounds a row up to whole bytes   *)
(* and perhaps further, and refuses an empty buffer or one beyond 32 bits. *)
RowBytes(w, bpp) == (w * bpp + 7) \div 8
Accepts(pitch, rows) == rows > 0 /\ pitch * rows < Word

BoCreate(f, w, h, pad) ==
    LET pitch == RowBytes(w, Bpp(f)) + pad
        rows  == VirtualHeight(f, h)
    IN  /\ f # "other" /\ Accepts(pitch, rows)
        /\ bo' = [format |-> f, width |-> w, height |-> h,
                  size |-> pitch * rows, planes |-> Planes(f, pitch, h)]

(* An unknown format, or bo_create_dumb failed. *)
BoCreateNull == bo' = NoBo

Next == \/ \E f \in Format, w \in Width, h \in Height, pad \in Padding : BoCreate(f, w, h, pad)
        \/ BoCreateNull

Spec == Init /\ [][Next]_bo

-----------------------------------------------------------------------------
(* What the kernel knows of the formats: bytes of a sample, and how many   *)
(* pixels share one in each direction, plane by plane.                     *)
Full(n)       == [bytes |-> n, hsub |-> 1, vsub |-> 1]
Shared(n, hs, vs) == [bytes |-> n, hsub |-> hs, vsub |-> vs]
Info(f) ==
    CASE f = "NV12"              -> <<Full(1), Shared(2, 2, 2)>>
      [] f = "NV16"              -> <<Full(1), Shared(2, 2, 1)>>
      [] f = "YUV420"            -> <<Full(1), Shared(1, 2, 2), Shared(1, 2, 2)>>
      [] f \in {"YUYV", "RGB16"} -> <<Full(2)>>
      [] f = "RGB24"             -> <<Full(3)>>
      [] f = "RGB32"             -> <<Full(4)>>

(* Odd pictures: the samples at the right and lower edge count in full, as *)
(* they do for framebuffer_check.                                          *)
Samples(n, sub) == (n + sub - 1) \div sub
RowOf(i)  == Samples(bo.width, Info(bo.format)[i].hsub) * Info(bo.format)[i].bytes
RowsOf(i) == Samples(bo.height, Info(bo.format)[i].vsub)

(* One past the last byte of plane i. *)
End(i) == bo.planes[i].offset + (RowsOf(i) - 1) * bo.planes[i].pitch + RowOf(i)

-----------------------------------------------------------------------------
(* Sizes for which neither three times the height nor twice a row wraps:   *)
(* all those a display mode, of 16 bits each, can have.                    *)
Modest == 3 * bo.height < Word /\ 2 * bo.planes[1].pitch < Word

OfOnePlane == bo.format \notin TwoPlanes \cup ThreePlanes

(* No sample is shared by pixels inside and outside the picture.  Kernels  *)
(* differ on the others: some refuse them, some round up.                  *)
Divides ==
    \A i \in DOMAIN Info(bo.format) :
        /\ bo.width % Info(bo.format)[i].hsub = 0
        /\ bo.height % Info(bo.format)[i].vsub = 0

(* drmModeAddFB2 accepts what bo_create returns: as many planes as the     *)
(* format has, rows as long as the picture's, and every sample inside the  *)
(* buffer.  For a format of one plane, whatever the size; for the others,  *)
(* where the samples divide the picture: a pitch halved, or a virtual      *)
(* height divided, leaves no room for what an odd size adds.               *)
PlanesInside ==
    bo # NoBo /\ (OfOnePlane \/ (Modest /\ Divides)) =>
        /\ Len(bo.planes) = Len(Info(bo.format))
        /\ \A i \in DOMAIN bo.planes : bo.planes[i].pitch >= RowOf(i) /\ End(i) <= bo.size

(* No byte of the buffer belongs to two planes: for two planes whatever    *)
(* the size, for three where the samples divide the picture.               *)
PlanesApart ==
    bo # NoBo /\ Modest /\ (bo.format \in ThreePlanes => Divides) =>
        \A i \in DOMAIN bo.planes, j \in DOMAIN bo.planes :
            i < j => End(i) <= bo.planes[j].offset
=============================================================================
