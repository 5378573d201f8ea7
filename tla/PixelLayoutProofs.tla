------------------------- MODULE PixelLayoutProofs -------------------------
(***************************************************************************)
(* The layouts of bo_create, for every width, height, padding and word.    *)
(*                                                                         *)
(* Made says how the last buffer came about; with it the two properties    *)
(* are arithmetic, format by format.  Below the word nothing wraps, since  *)
(* the kernel refuses a buffer that would (NoWrap); the rest is comparing  *)
(* products of a pitch with numbers of rows (MoreRows).                    *)
(***************************************************************************)
EXTENDS PixelLayout, TLAPS

Made(f, w, h, p) ==
    /\ p \in Nat /\ p >= RowBytes(w, Bpp(f))
    /\ Accepts(p, VirtualHeight(f, h))
    /\ bo.format = f /\ bo.width = w /\ bo.height = h
    /\ bo.size = p * VirtualHeight(f, h)
    /\ bo.planes = Planes(f, p, h)

MadeInv ==
    bo = NoBo \/ \E f \in Format \ {"other"}, w \in Width, h \in Height, p \in Nat : Made(f, w, h, p)

-----------------------------------------------------------------------------
(* Arithmetic.                                                             *)

LEMMA MoreRows == \A p, a, b \in Nat : a <= b => p * a <= p * b
  OBVIOUS

LEMMA AddRows == \A p, a, b \in Nat : p * (a + b) = p * a + p * b
  OBVIOUS

LEMMA Remainder == \A n \in Nat : n < Word => n % Word = n
  BY LayoutAssumption

(* Samples of one pixel, and shared ones that divide the picture. *)
LEMMA SamplesAre ==
    \A n \in Nat : /\ Samples(n, 1) = n
                   /\ n % 2 = 0 => Samples(n, 2) = n \div 2
                   /\ Samples(n, 2) \in Nat
  BY DEF Samples

LEMMA RowFits ==
    ASSUME NEW w \in Nat
    PROVE  /\ RowBytes(w, 8) >= w
           /\ RowBytes(w, 16) >= 2 * w
           /\ RowBytes(w, 24) >= 3 * w
           /\ RowBytes(w, 32) >= 4 * w
  BY DEF RowBytes

LEMMA RowBytesNat ==
    ASSUME NEW w \in Nat, NEW f \in Format \ {"other"} PROVE RowBytes(w, Bpp(f)) \in Nat
  BY DEF RowBytes, Bpp, Format, TwoPlanes, ThreePlanes

LEMMA VirtualHeightNat ==
    ASSUME NEW h \in Nat, NEW f \in Format PROVE VirtualHeight(f, h) \in Nat
  BY LayoutAssumption DEF VirtualHeight, Format, TwoPlanes, ThreePlanes

-----------------------------------------------------------------------------
LEMMA MadeAlways == Spec => []MadeInv
<1>1. Init => MadeInv
  BY DEF Init, MadeInv
<1>2. MadeInv /\ [Next]_bo => MadeInv'
  <2>1. SUFFICES ASSUME MadeInv, [Next]_bo PROVE MadeInv'
    OBVIOUS
  <2>2. ASSUME NEW f \in Format, NEW w \in Width, NEW h \in Height, NEW pad \in Padding,
               BoCreate(f, w, h, pad)
        PROVE  MadeInv'
    <3> DEFINE p == RowBytes(w, Bpp(f)) + pad
    <3>1. f # "other" /\ w \in Nat /\ pad \in Nat
      BY <2>2, LayoutAssumption DEF BoCreate
    <3>2. p \in Nat /\ p >= RowBytes(w, Bpp(f))
      BY <3>1, RowBytesNat
    <3>3. Made(f, w, h, p)'
      BY <2>2, <3>2 DEF BoCreate, Made
    <3>4. QED
      BY <3>1, <3>2, <3>3 DEF MadeInv
  <2>3. CASE BoCreateNull \/ UNCHANGED bo
    BY <2>1, <2>3 DEF BoCreateNull, MadeInv, Made
  <2>4. QED
    BY <2>1, <2>2, <2>3 DEF Next
<1>3. QED
  BY <1>1, <1>2, PTL DEF Spec

-----------------------------------------------------------------------------
(* One plane. *)
LEMMA OnePlane ==
    ASSUME NEW f \in Format \ {"other"}, f \notin TwoPlanes, f \notin ThreePlanes,
           NEW w \in Width, NEW h \in Height, NEW p \in Nat, Made(f, w, h, p)
    PROVE  PlanesInside /\ PlanesApart
<1>1. w \in Nat /\ h \in Nat \ {0}
  BY LayoutAssumption
<1>2. /\ bo.planes = <<[pitch |-> p, offset |-> 0]>>
      /\ bo.size = p * h
  BY DEF Made, Planes, VirtualHeight, TwoPlanes, ThreePlanes
<1>3. PICK n \in 1..4 : Info(f) = <<Full(n)>> /\ Bpp(f) = 8 * n
  BY DEF Info, Bpp, Format, TwoPlanes, ThreePlanes
<1>4. RowOf(1) = w * n /\ RowsOf(1) = h /\ p >= w * n
  <2>1. Samples(w, 1) = w /\ Samples(h, 1) = h
    BY <1>1, SamplesAre
  <2>2. RowOf(1) = w * n /\ RowsOf(1) = h
    BY <1>3, <2>1 DEF RowOf, RowsOf, Made, Full
  <2>3. n = 1 \/ n = 2 \/ n = 3 \/ n = 4
    OBVIOUS
  <2>4. p >= w * n
    BY <1>1, <1>3, <2>3, RowFits DEF Made, RowBytes
  <2>5. QED
    BY <2>2, <2>4
<1>5. p * h = p * (h - 1) + p
  BY <1>1
<1>6. End(1) <= p * h
  BY <1>1, <1>2, <1>4, <1>5 DEF End
<1>7. QED
  BY <1>2, <1>3, <1>4, <1>6 DEF PlanesInside, PlanesApart, Made

(* A first plane of one byte a sample, in any format. *)
LEMMA LumaPlane ==
    ASSUME NEW f \in TwoPlanes \cup ThreePlanes, NEW w \in Width, NEW h \in Height,
           NEW p \in Nat, Made(f, w, h, p)
    PROVE  /\ w \in Nat /\ h \in Nat \ {0} /\ p >= w
           /\ bo.planes[1] = [pitch |-> p, offset |-> 0]
           /\ RowOf(1) = w /\ RowsOf(1) = h
           /\ End(1) <= p * h
<1>1. w \in Nat /\ h \in Nat \ {0}
  BY LayoutAssumption
<1>2. p >= w
  <2>1. Bpp(f) = 8
    BY DEF Bpp, TwoPlanes, ThreePlanes
  <2>2. RowBytes(w, 8) \in Nat /\ RowBytes(w, 8) >= w
    BY <1>1, RowFits DEF RowBytes
  <2>3. QED
    BY <1>1, <2>1, <2>2 DEF Made
<1>3. bo.planes[1] = [pitch |-> p, offset |-> 0]
  BY DEF Made, Planes, TwoPlanes, ThreePlanes
<1>4. RowOf(1) = w /\ RowsOf(1) = h
  <2>1. Samples(w, 1) = w /\ Samples(h, 1) = h
    BY <1>1, SamplesAre
  <2>2. Info(f)[1] = [bytes |-> 1, hsub |-> 1, vsub |-> 1]
    BY DEF Info, Full, TwoPlanes, ThreePlanes
  <2>3. QED
    BY <1>1, <2>1, <2>2 DEF RowOf, RowsOf, Made
<1>5. p * h = p * (h - 1) + p
  BY <1>1
<1>6. End(1) <= p * h
  BY <1>1, <1>2, <1>3, <1>4, <1>5 DEF End
<1>7. QED
  BY <1>1, <1>2, <1>3, <1>4, <1>6

(* The bytes of h rows are within the buffer, so they do not wrap. *)
LEMMA NoWrap ==
    ASSUME NEW f \in TwoPlanes \cup ThreePlanes, NEW w \in Width, NEW h \in Height,
           NEW p \in Nat, Made(f, w, h, p), Modest
    PROVE  /\ VirtualHeight(f, h) = IF f = "NV16" THEN h * 2 ELSE (h * 3) \div 2
           /\ Bytes(p, h) = p * h
           /\ p * h <= bo.size /\ p * h < Word
<1>1. h \in Nat \ {0} /\ 3 * h < Word
  BY LayoutAssumption DEF Made, Modest
<1>2. (h * 3) % Word = h * 3 /\ (h * 2) % Word = h * 2
  <2>1. /\ h * 3 \in Nat /\ h * 3 < Word
        /\ h * 2 \in Nat /\ h * 2 < Word
    BY <1>1, LayoutAssumption
  <2>2. QED
    BY <2>1, Remainder
<1>3. VirtualHeight(f, h) = IF f = "NV16" THEN h * 2 ELSE (h * 3) \div 2
  BY <1>2 DEF VirtualHeight, TwoPlanes, ThreePlanes
<1>4. VirtualHeight(f, h) \in Nat /\ h <= VirtualHeight(f, h)
  BY <1>1, <1>3
<1>5. p * h <= p * VirtualHeight(f, h)
  BY <1>1, <1>4, MoreRows
<1>6. p * h < Word
  BY <1>1, <1>4, <1>5, LayoutAssumption DEF Made, Accepts
<1>7. QED
  BY <1>1, <1>3, <1>5, <1>6, Remainder DEF Bytes, Made

(* Luma, then one plane of interleaved chroma. *)
LEMMA TwoPlanesFit ==
    ASSUME NEW f \in TwoPlanes, NEW w \in Width, NEW h \in Height, NEW p \in Nat,
           Made(f, w, h, p)
    PROVE  PlanesInside /\ PlanesApart
<1>1. SUFFICES ASSUME Modest PROVE PlanesInside /\ PlanesApart
  BY DEF PlanesInside, PlanesApart, OfOnePlane, Made
<1>2. /\ w \in Nat /\ h \in Nat \ {0} /\ p >= w /\ RowOf(1) = w /\ End(1) <= p * h
  BY LumaPlane
<1>3. bo.planes = <<[pitch |-> p, offset |-> 0], [pitch |-> p, offset |-> p * h]>>
  <2>1. Bytes(p, h) = p * h
    BY <1>1, NoWrap
  <2>2. QED
    BY <2>1 DEF Made, Planes, TwoPlanes, ThreePlanes
<1>4. ASSUME Divides
      PROVE  /\ w % 2 = 0
             /\ \E r \in Nat \ {0} : RowsOf(2) = r /\ VirtualHeight(f, h) = h + r
  <2>1. CASE f = "NV12"
    <3>1. Info(f) = <<Full(1), Shared(2, 2, 2)>>
      BY <2>1 DEF Info
    <3>2. w % 2 = 0 /\ h % 2 = 0
      BY <1>4, <3>1 DEF Divides, Shared, Made
    <3>3. RowsOf(2) = h \div 2
      BY <1>2, <3>1, <3>2, SamplesAre DEF RowsOf, Shared, Made
    <3>4. h \div 2 \in Nat \ {0} /\ (h * 3) \div 2 = h + h \div 2
      BY <1>2, <3>2
    <3>5. QED
      BY <1>1, <2>1, <3>2, <3>3, <3>4, NoWrap
  <2>2. CASE f = "NV16"
    <3>1. Info(f) = <<Full(1), Shared(2, 2, 1)>>
      BY <2>2 DEF Info
    <3>2. w % 2 = 0
      BY <1>4, <3>1 DEF Divides, Shared, Made
    <3>3. RowsOf(2) = h /\ h * 2 = h + h
      BY <1>2, <3>1, SamplesAre DEF RowsOf, Shared, Made
    <3>4. QED
      BY <1>1, <1>2, <2>2, <3>2, <3>3, NoWrap
  <2>3. QED
    BY <2>1, <2>2 DEF TwoPlanes
<1>5. ASSUME Divides
      PROVE  RowOf(2) = w
  <2>1. RowOf(2) = Samples(w, 2) * 2
    BY DEF RowOf, Info, Shared, Made, TwoPlanes
  <2>2. Samples(w, 2) = w \div 2 /\ (w \div 2) * 2 = w
    BY <1>2, <1>4, <1>5, SamplesAre
  <2>3. QED
    BY <2>1, <2>2
<1>6. ASSUME Divides
      PROVE  End(2) <= bo.size
  <2>1. PICK r \in Nat \ {0} : RowsOf(2) = r /\ VirtualHeight(f, h) = h + r
    BY <1>4, <1>6
  <2>2. bo.size = p * h + p * r
    BY <1>2, <2>1, AddRows DEF Made
  <2>3. p * r \in Nat /\ p * h \in Nat /\ p * r = (r - 1) * p + p
    BY <1>2
  <2>4. QED
    BY <1>2, <1>3, <1>5, <1>6, <2>1, <2>2, <2>3 DEF End
<1>7. Len(Info(f)) = 2
  BY DEF Info, TwoPlanes
<1>8. PlanesInside
  <2>1. SUFFICES ASSUME Divides
                 PROVE  \A i \in {1, 2} : bo.planes[i].pitch >= RowOf(i) /\ End(i) <= bo.size
    <3>1. f \notin ThreePlanes /\ bo.format = f
      BY DEF Made, TwoPlanes, ThreePlanes
    <3>2. Len(bo.planes) = 2 /\ DOMAIN bo.planes = {1, 2}
      BY <1>3
    <3>3. QED
      BY <1>7, <3>1, <3>2 DEF PlanesInside, OfOnePlane
  <2>2. p * h \in Nat /\ p * h <= bo.size /\ bo.size \in Nat
    <3>1. p * h <= bo.size
      BY <1>1, NoWrap
    <3>2. QED
      BY <1>2, <3>1, VirtualHeightNat DEF Made, Format
  <2>3. bo.planes[1].pitch >= RowOf(1) /\ End(1) <= bo.size
    <3>1. End(1) \in Int
      BY <1>2, <1>3, LumaPlane DEF End
    <3>2. QED
      BY <1>2, <1>3, <2>2, <3>1
  <2>4. bo.planes[2].pitch >= RowOf(2)
    BY <1>2, <1>3, <1>5, <2>1
  <2>5. QED
    BY <1>6, <2>1, <2>3, <2>4
<1>9. PlanesApart
  BY <1>2, <1>3 DEF PlanesApart
<1>10. QED
  BY <1>8, <1>9

(* Halving: a row of c rows of chroma is at most that of c rows of luma,   *)
(* and half of the product is at least the product of the halves.          *)
LEMMA HalfOfProduct ==
    ASSUME NEW q \in Nat, NEW c \in Nat, NEW e \in {0, 1}
    PROVE  /\ (q * (2 * c + e)) \div 2 = q * c + (q * e) \div 2
           /\ q * c \in Nat /\ (q * e) \div 2 \in Nat
           /\ (q * e) \div 2 <= q
           /\ c # 0 => (q * e) \div 2 <= q * c
<1>1. q * c \in Nat /\ q * (2 * c + e) = 2 * (q * c) + q * e
  OBVIOUS
<1>2. q * e = 0 \/ q * e = q
  OBVIOUS
<1>3. c # 0 => q * 1 <= q * c
  BY MoreRows
<1>4. QED
  BY <1>1, <1>2, <1>3

(* The third plane starts where the second one ends or behind, and, for an *)
(* even height, half a picture of half rows before the end of the buffer.  *)
LEMMA ThirdPlane ==
    ASSUME NEW f \in ThreePlanes, NEW w \in Width, NEW h \in Height, NEW p \in Nat,
           Made(f, w, h, p), Modest,
           NEW q, q = p \div 2, NEW c, c = h \div 2
    PROVE  /\ q \in Nat /\ c \in Nat
           /\ \E t \in Nat :
                /\ bo.planes = <<[pitch |-> p, offset |-> 0],
                                 [pitch |-> q, offset |-> p * h],
                                 [pitch |-> q, offset |-> t]>>
                /\ p * h + c * q <= t
                /\ h % 2 = 0 => t + c * q <= bo.size
<1>1. p \in Nat /\ h \in Nat \ {0} /\ q \in Nat /\ c \in Nat /\ 2 * q <= p
  BY LayoutAssumption
<1>2. PICK e \in {0, 1} : h = 2 * c + e /\ h % 2 = e /\ (h * 3) \div 2 = h + c
  BY <1>1
<1>3. f = "YUV420"
  BY DEF ThreePlanes
<1>4. /\ bo.size = p * (h + c)
      /\ Bytes(p, h) = p * h /\ p * h < Word
  <2>1. VirtualHeight(f, h) = h + c
    BY <1>2, <1>3, NoWrap
  <2>2. QED
    BY <2>1, NoWrap DEF Made
<1>5. bo.size = p * h + p * c /\ bo.size < Word
  <2>1. VirtualHeight(f, h) = h + c
    BY <1>2, <1>3, NoWrap
  <2>2. bo.size < Word
    BY <2>1 DEF Made, Accepts
  <2>3. QED
    BY <1>1, <1>4, <2>2, AddRows
<1>6. 2 * p < Word
  <2>1. bo.planes[1] = [pitch |-> p, offset |-> 0]
    BY LumaPlane
  <2>2. QED
    BY <2>1 DEF Modest
<1> DEFINE m == (q * h) \div 2
<1>7. m \in Nat /\ q * c \in Nat /\ q * c <= m
  BY <1>1, <1>2, HalfOfProduct
<1>8. p * h \in Nat /\ p * c \in Nat /\ 2 * (q * c) <= p * c
  <2>1. c * (2 * q) <= c * p
    BY <1>1, MoreRows
  <2>2. c * (2 * q) = 2 * (q * c) /\ c * p = p * c
    BY <1>1
  <2>3. QED
    BY <1>1, <2>1, <2>2
<1>9. Bytes(q, h) = q * h
  <2>1. h * q <= h * p
    BY <1>1, MoreRows
  <2>2. q * h \in Nat /\ q * h < Word
    BY <1>1, <1>4, <2>1, LayoutAssumption
  <2>3. QED
    BY <2>2, Remainder DEF Bytes
<1>10. p * h + m < Word
  <2>1. CASE c = 0
    <3>1. h = 1 /\ e = 1 /\ p * h = p
      BY <1>1, <1>2, <2>1
    <3>2. m <= q
      BY <1>1, <3>1
    <3>3. QED
      BY <1>1, <1>6, <1>7, <3>1, <3>2, LayoutAssumption
  <2>2. CASE c # 0
    <3>1. m <= 2 * (q * c)
      BY <1>1, <1>2, <1>7, <2>2, HalfOfProduct
    <3>2. QED
      BY <1>5, <1>7, <1>8, <3>1, LayoutAssumption
  <2>3. QED
    BY <2>1, <2>2
<1>11. (p * h + m) % Word = p * h + m
  BY <1>7, <1>8, <1>10, Remainder
<1>12. bo.planes = <<[pitch |-> p, offset |-> 0],
                    [pitch |-> q, offset |-> p * h],
                    [pitch |-> q, offset |-> p * h + m]>>
  BY <1>3, <1>4, <1>9, <1>11 DEF Made, Planes, TwoPlanes, ThreePlanes
<1>13. p * h + c * q <= p * h + m
  BY <1>1, <1>7, <1>8
<1>14. h % 2 = 0 => p * h + m + c * q <= bo.size
  <2>1. h % 2 = 0 => m = q * c
    BY <1>1, <1>2, HalfOfProduct
  <2>2. QED
    BY <1>1, <1>5, <1>7, <1>8, <2>1
<1>15. QED
  BY <1>1, <1>7, <1>8, <1>12, <1>13, <1>14

LEMMA ThreePlanesFit ==
    ASSUME NEW f \in ThreePlanes, NEW w \in Width, NEW h \in Height, NEW p \in Nat,
           Made(f, w, h, p)
    PROVE  PlanesInside /\ PlanesApart
<1>1. f = "YUV420" /\ bo.format = f /\ bo.width = w /\ bo.height = h
  BY DEF ThreePlanes, Made
<1>2. SUFFICES ASSUME Modest, Divides PROVE PlanesInside /\ PlanesApart
  BY <1>1 DEF PlanesInside, PlanesApart, OfOnePlane
<1> DEFINE q == p \div 2
           c == h \div 2
<1>3. /\ w \in Nat /\ h \in Nat \ {0} /\ p >= w /\ RowOf(1) = w /\ End(1) <= p * h
  BY LumaPlane
<1>4. Info(f) = <<Full(1), Shared(1, 2, 2), Shared(1, 2, 2)>>
  BY <1>1 DEF Info
<1>5. w % 2 = 0 /\ h % 2 = 0
  BY <1>1, <1>2, <1>4 DEF Divides, Shared
<1>6. PICK t \in Nat : /\ bo.planes = <<[pitch |-> p, offset |-> 0],
                                        [pitch |-> q, offset |-> p * h],
                                        [pitch |-> q, offset |-> t]>>
                       /\ p * h + c * q <= t
                       /\ t + c * q <= bo.size
  BY <1>2, <1>5, ThirdPlane
<1>7. \A i \in {2, 3} : RowOf(i) = w \div 2 /\ RowsOf(i) = c
  <2>1. \A i \in {2, 3} : Info(f)[i] = [bytes |-> 1, hsub |-> 2, vsub |-> 2]
    BY <1>4 DEF Shared
  <2>2. Samples(w, 2) = w \div 2 /\ Samples(h, 2) = c /\ (w \div 2) * 1 = w \div 2
    BY <1>3, <1>5, SamplesAre
  <2>3. QED
    BY <1>1, <2>1, <2>2 DEF RowOf, RowsOf
<1>8. w \div 2 \in Nat /\ q \in Nat /\ c \in Nat \ {0} /\ w \div 2 <= q /\ p * h \in Nat
  BY <1>3, <1>5
<1>9. c * q \in Nat /\ c * q = (c - 1) * q + q
  BY <1>8
<1>10. End(2) <= p * h + c * q /\ End(3) <= t + c * q
  <2>1. /\ RowOf(2) = w \div 2 /\ RowsOf(2) = c
        /\ RowOf(3) = w \div 2 /\ RowsOf(3) = c
    BY <1>7
  <2>2. /\ bo.planes[2].offset = p * h /\ bo.planes[2].pitch = q
        /\ bo.planes[3].offset = t /\ bo.planes[3].pitch = q
    BY <1>6
  <2>3. (c - 1) * q \in Nat
    BY <1>8
  <2>4. QED
    BY <1>8, <1>9, <2>1, <2>2, <2>3 DEF End
<1>11. DOMAIN bo.planes = {1, 2, 3} /\ Len(bo.planes) = 3 /\ Len(Info(f)) = 3
  BY <1>4, <1>6
<1>12. End(1) \in Int /\ End(2) \in Int /\ End(3) \in Int
  BY <1>3, <1>6, <1>7, <1>8, LumaPlane DEF End
<1>13. PlanesApart
  <2>1. /\ bo.planes[2].offset = p * h /\ bo.planes[3].offset = t
        /\ p * h <= t /\ End(1) <= p * h /\ End(2) <= t
    BY <1>3, <1>6, <1>8, <1>9, <1>10, <1>12
  <2>2. \A i \in {1, 2, 3}, j \in {1, 2, 3} : i < j => End(i) <= bo.planes[j].offset
    <3>1. End(1) <= t
      BY <1>8, <1>12, <2>1
    <3>2. QED
      BY <2>1, <3>1
  <2>3. QED
    BY <1>11, <2>2 DEF PlanesApart
<1>14. \A i \in {1, 2, 3} : bo.planes[i].pitch >= RowOf(i) /\ End(i) <= bo.size
  <2>1. bo.size \in Int
    BY <1>3, VirtualHeightNat DEF Made, Format
  <2>2. QED
    BY <1>3, <1>6, <1>7, <1>8, <1>9, <1>10, <1>12, <2>1
<1>15. PlanesInside
  BY <1>1, <1>11, <1>14 DEF PlanesInside
<1>16. QED
  BY <1>13, <1>15

-----------------------------------------------------------------------------
LEMMA LayoutFits == MadeInv => PlanesInside /\ PlanesApart
<1>1. CASE bo = NoBo
  BY <1>1 DEF PlanesInside, PlanesApart
<1>2. ASSUME NEW f \in Format \ {"other"}, NEW w \in Width, NEW h \in Height,
             NEW p \in Nat, Made(f, w, h, p)
      PROVE  PlanesInside /\ PlanesApart
  <2>1. CASE f \in TwoPlanes
    BY <1>2, <2>1, TwoPlanesFit
  <2>2. CASE f \in ThreePlanes
    BY <1>2, <2>2, ThreePlanesFit
  <2>3. CASE f \notin TwoPlanes /\ f \notin ThreePlanes
    BY <1>2, <2>3, OnePlane
  <2>4. QED
    BY <2>1, <2>2, <2>3
<1>3. QED
  BY <1>1, <1>2 DEF MadeInv

(* drmModeAddFB2 accepts every layout bo_create makes of one plane, and    *)
(* those of two or three in which nothing wraps and no sample is shared by *)
(* pixels inside and outside the picture.                                  *)
THEOREM AddFbAccepts == Spec => []PlanesInside
  BY MadeAlways, LayoutFits, PTL

(* No byte of a buffer belongs to two planes; for three planes, where the  *)
(* samples divide the picture.                                             *)
THEOREM PlanesNeverOverlap == Spec => []PlanesApart
  BY MadeAlways, LayoutFits, PTL
=============================================================================
