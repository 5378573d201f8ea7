-------------------------- MODULE ScanoutFbProofs --------------------------
(***************************************************************************)
(* Proofs about module ScanoutFb, for any number of CRTCs, addresses,      *)
(* handles, framebuffer ids and sizes.                                     *)
(*                                                                         *)
(* The inductive invariant adds one fact to the invariants the runs check: *)
(* a record names a buffer exactly when it names a framebuffer.  Without   *)
(* it the guard of createScanoutFb (both set) could skip the release of a  *)
(* live buffer, and NoOrphans would not be inductive.                      *)
(***************************************************************************)
EXTENDS ScanoutFb, TLAPS

RecordPaired == \A c \in Crtc : boHandle[c] = Null <=> scanout_fbId[c] = Null

IInv == TypeOK /\ NoOrphans /\ ScanoutOwned /\ Exclusive /\ RecordPaired

-----------------------------------------------------------------------------
(* The release at the top of createScanoutFb.                              *)

(* The tables keep their types. *)
LEMMA ReleaseType ==
    ASSUME TypeOK, NEW c \in Crtc
    PROVE  /\ FreedHeap(c) \in [Addr -> Handle \cup {Null}]
           /\ FreedHandles(c) \in SUBSET Handle
           /\ FreedFbs(c) \in [FbId -> Size \cup {Null}]
           /\ DarkenedScan(c) \in [Crtc -> FbId \cup {Null}]
  BY DEF TypeOK, FreedHeap, FreedHandles, FreedFbs, DarkenedScan, HoldsBuffer,
         HeapWithout, HandlesWithout

(* Exactly the buffer of c leaves the heap, and exactly its handle the     *)
(* handle table.                                                           *)
LEMMA ReleaseHeap ==
    ASSUME IInv, NEW c \in Crtc, HoldsLiveBuffer(c)
    PROVE  /\ \A a \in Addr : FreedHeap(c)[a] # Null => a # boHandle[c]
           /\ \A a \in Addr : a # boHandle[c] => FreedHeap(c)[a] = heap[a]
           /\ \A a \in Addr : FreedHeap(c)[a] # Null => FreedHeap(c)[a] \in FreedHandles(c)
           /\ \A h \in FreedHandles(c) : \E a \in Addr : FreedHeap(c)[a] = h
<1> USE NullAssumption
<1>1. CASE HoldsBuffer(c)
  <2>1. /\ boHandle[c] \in Addr
        /\ heap[boHandle[c]] \in Handle
        /\ FreedHeap(c) = [heap EXCEPT ![boHandle[c]] = Null]
        /\ FreedHandles(c) = handles \ {heap[boHandle[c]]}
    BY <1>1 DEF IInv, TypeOK, FreedHeap, FreedHandles, HoldsBuffer,
                HoldsLiveBuffer, HeapWithout, HandlesWithout
  <2>2. \A a \in Addr : /\ a # boHandle[c] => FreedHeap(c)[a] = heap[a]
                        /\ a = boHandle[c] => FreedHeap(c)[a] = Null
    BY <2>1 DEF IInv, TypeOK
  <2>3. \A a \in Addr : FreedHeap(c)[a] # Null => FreedHeap(c)[a] \in FreedHandles(c)
    BY <2>1, <2>2 DEF IInv, NoOrphans
  <2>4. ASSUME NEW h \in FreedHandles(c)
        PROVE  \E a \in Addr : FreedHeap(c)[a] = h
    <3>1. PICK a \in Addr : heap[a] = h
      BY <2>1 DEF IInv, NoOrphans
    <3>2. a # boHandle[c]
      BY <2>1, <3>1
    <3>3. QED
      BY <2>2, <3>1, <3>2
  <2>5. QED
    BY <2>2, <2>3, <2>4
<1>2. CASE ~HoldsBuffer(c)
  <2>1. FreedHeap(c) = heap /\ FreedHandles(c) = handles
    BY <1>2 DEF FreedHeap, FreedHandles
  <2>2. boHandle[c] = Null
    BY <1>2 DEF IInv, RecordPaired, HoldsBuffer
  <2>3. QED
    BY <2>1, <2>2 DEF IInv, NoOrphans
<1>3. QED
  BY <1>1, <1>2

(* Exactly the framebuffer of c leaves the framebuffer table. *)
LEMMA ReleaseFbs ==
    ASSUME IInv, NEW c \in Crtc
    PROVE  \A f \in FbId : /\ f # scanout_fbId[c] => FreedFbs(c)[f] = fbs[f]
                           /\ FreedFbs(c)[f] # Null => f # scanout_fbId[c]
<1>1. CASE HoldsBuffer(c)
  BY <1>1 DEF IInv, TypeOK, FreedFbs, HoldsBuffer
<1>2. CASE ~HoldsBuffer(c)
  <2>1. scanout_fbId[c] = Null
    BY <1>2 DEF IInv, RecordPaired, HoldsBuffer
  <2>2. QED
    BY <1>2, <2>1, NullAssumption DEF FreedFbs
<1>3. QED
  BY <1>1, <1>2

(* c itself goes dark, and with it exactly the CRTCs that scan out the     *)
(* framebuffer its record names.                                           *)
LEMMA ReleaseScan ==
    ASSUME IInv, NEW c \in Crtc
    PROVE  /\ DarkenedScan(c)[c] = Null
           /\ \A d \in Crtc : DarkenedScan(c)[d] # Null =>
                 /\ d # c
                 /\ DarkenedScan(c)[d] = scan[d]
                 /\ scan[d] # scanout_fbId[c]
           /\ \A d \in Crtc : scan[d] # Null /\ scan[d] # scanout_fbId[c]
                 => DarkenedScan(c)[d] = scan[d]
<1>1. CASE HoldsBuffer(c)
  BY <1>1 DEF IInv, TypeOK, ScanoutOwned, DarkenedScan, HoldsBuffer
<1>2. CASE ~HoldsBuffer(c)
  <2>1. scanout_fbId[c] = Null
    BY <1>2 DEF IInv, RecordPaired, HoldsBuffer
  <2>2. scan[c] = Null
    BY <2>1 DEF IInv, ScanoutOwned
  <2>3. QED
    BY <1>2, <2>1, <2>2 DEF DarkenedScan
<1>3. QED
  BY <1>1, <1>2

-----------------------------------------------------------------------------
(* A failed call preserves the invariant.                                  *)
LEMMA FailPreserves ==
    ASSUME IInv, NEW c \in Crtc, CreateFails(c)
    PROVE  IInv'
<1> USE NullAssumption
<1>1. HoldsLiveBuffer(c)
  BY DEF CreateFails
<1>2. /\ everFailed' = TRUE
      /\ UNCHANGED <<boHandle, scanout_fbId, status>>
      /\ fbs' = FreedFbs(c)
      /\ scan' = DarkenedScan(c)
  BY DEF CreateFails, records
<1>3. heap' = FreedHeap(c) /\ handles' = FreedHandles(c)
  <2>1. CASE BoCreateFails(c)
    BY <2>1 DEF BoCreateFails
  <2>2. CASE AddFbFails(c)
    <3>1. PICK a \in FreeAddr(c), h \in FreeHandle(c) :
            LET hp == [FreedHeap(c) EXCEPT ![a] = h]
                hs == FreedHandles(c) \cup {h}
            IN  /\ heap' = HeapWithout(hp, a)
                /\ handles' = HandlesWithout(hp, hs, a)
      BY <2>2 DEF AddFbFails
    <3>2. /\ a \in Addr /\ FreedHeap(c)[a] = Null
          /\ h \notin FreedHandles(c)
      BY <3>1 DEF FreeAddr, FreeHandle
    <3>3. FreedHeap(c) \in [Addr -> Handle \cup {Null}]
      BY ReleaseType DEF IInv
    <3>4. heap' = FreedHeap(c)
      BY <3>1, <3>2, <3>3 DEF HeapWithout
    <3>5. handles' = FreedHandles(c)
      BY <3>1, <3>2, <3>3 DEF HandlesWithout
    <3>6. QED
      BY <3>4, <3>5
  <2>3. QED
    BY <2>1, <2>2 DEF CreateFails
<1>4. TypeOK'
  BY <1>2, <1>3, ReleaseType DEF IInv, TypeOK
<1>5. NoOrphans'
  <2>1. \A a \in Addr : heap'[a] # Null => heap[a] # Null /\ heap'[a] = heap[a]
    BY <1>1, <1>3, ReleaseHeap
  <2>2. \A f \in FbId : fbs'[f] # Null => fbs[f] # Null
    BY <1>2, ReleaseFbs
  <2>3. \A h \in handles' : \E a \in Addr : heap'[a] = h
    BY <1>1, <1>3, ReleaseHeap
  <2>4. \A a \in Addr : heap'[a] # Null => heap'[a] \in handles'
    BY <1>1, <1>3, ReleaseHeap
  <2>5. \A a, b \in Addr : heap'[a] = heap'[b] /\ heap'[a] # Null => a = b
    BY <2>1 DEF IInv, NoOrphans
  <2>6. QED
    BY <1>2, <2>1, <2>2, <2>3, <2>4, <2>5 DEF IInv, NoOrphans
<1>6. ScanoutOwned'
  <2>1. ASSUME NEW d \in Crtc, scan'[d] # Null
        PROVE  /\ scan'[d] = scanout_fbId'[d]
               /\ fbs'[scan'[d]] # Null
               /\ \A e \in Crtc : scan'[e] = scan'[d] => e = d
    <3>1. d # c /\ scan'[d] = scan[d] /\ scan[d] # scanout_fbId[c]
      BY <1>2, <2>1, ReleaseScan
    <3>2. scan[d] \in FbId
      BY <2>1, <3>1 DEF IInv, TypeOK
    <3>3. fbs'[scan[d]] = fbs[scan[d]]
      BY <1>2, <3>1, <3>2, ReleaseFbs
    <3>4. \A e \in Crtc : scan'[e] = scan'[d] => scan[e] = scan[d]
      BY <1>2, <2>1, <3>1, ReleaseScan
    <3>5. QED
      BY <1>2, <2>1, <3>1, <3>3, <3>4 DEF IInv, ScanoutOwned
  <2>2. QED
    BY <2>1 DEF ScanoutOwned
<1>7. Exclusive' /\ RecordPaired'
  BY <1>2 DEF IInv, Exclusive, RecordPaired
<1>8. QED
  BY <1>4, <1>5, <1>6, <1>7 DEF IInv

-----------------------------------------------------------------------------
(* A call that makes its buffer preserves the invariant.                   *)
LEMMA SetModePreserves ==
    ASSUME IInv, status = "running", NEW c \in Crtc, NEW s \in Size, SetMode(c, s)
    PROVE  IInv'
<1> USE NullAssumption
<1>1. HoldsLiveBuffer(c) /\ UNCHANGED <<everFailed, status>>
  BY DEF SetMode
<1>2. PICK f \in FreeFbId(c) : CreateScanoutFb(c, s, f) /\ SetCrtc(c, f)
  BY DEF SetMode
<1>3. PICK a \in FreeAddr(c), h \in FreeHandle(c) :
        /\ heap' = [FreedHeap(c) EXCEPT ![a] = h]
        /\ handles' = FreedHandles(c) \cup {h}
        /\ fbs' = [FreedFbs(c) EXCEPT ![f] = s]
        /\ boHandle' = [boHandle EXCEPT ![c] = a]
        /\ scanout_fbId' = [scanout_fbId EXCEPT ![c] = f]
  BY <1>2 DEF CreateScanoutFb, NewBo, Record
<1>4. /\ a \in Addr /\ FreedHeap(c)[a] = Null
      /\ h \in Handle /\ h \notin FreedHandles(c)
      /\ f \in FbId /\ FreedFbs(c)[f] = Null
  BY <1>2, <1>3 DEF FreeAddr, FreeHandle, FreeFbId
<1>5. scan' = [DarkenedScan(c) EXCEPT ![c] = f] \/ scan' = DarkenedScan(c)
  BY <1>2 DEF SetCrtc
<1>6. /\ FreedHeap(c) \in [Addr -> Handle \cup {Null}]
      /\ FreedHandles(c) \in SUBSET Handle
      /\ FreedFbs(c) \in [FbId -> Size \cup {Null}]
      /\ DarkenedScan(c) \in [Crtc -> FbId \cup {Null}]
  BY ReleaseType DEF IInv
<1>7. TypeOK'
  BY <1>1, <1>3, <1>4, <1>5, <1>6 DEF IInv, TypeOK
<1>8. /\ heap'[a] = h
      /\ \A b \in Addr : b # a => heap'[b] = FreedHeap(c)[b]
      /\ fbs'[f] = s
      /\ \A g \in FbId : g # f => fbs'[g] = FreedFbs(c)[g]
      /\ boHandle'[c] = a
      /\ \A d \in Crtc : d # c => boHandle'[d] = boHandle[d]
      /\ scanout_fbId'[c] = f
      /\ \A d \in Crtc : d # c => scanout_fbId'[d] = scanout_fbId[d]
  BY <1>3, <1>4, <1>6 DEF IInv, TypeOK
<1>9. NoOrphans'
  <2>1. \A b \in Addr : b # a /\ heap'[b] # Null =>
           /\ heap'[b] = heap[b]
           /\ heap'[b] \in FreedHandles(c)
           /\ b # boHandle[c]
    BY <1>1, <1>8, ReleaseHeap
  <2>2. ASSUME NEW b \in Addr, heap'[b] # Null
        PROVE  \E d \in Crtc : boHandle'[d] = b
    <3>1. CASE b = a
      BY <3>1, <1>8
    <3>2. CASE b # a
      <4>1. PICK d \in Crtc : boHandle[d] = b
        BY <2>1, <2>2, <3>2 DEF IInv, NoOrphans
      <4>2. d # c
        BY <2>1, <2>2, <3>2, <4>1
      <4>3. QED
        BY <1>8, <4>1, <4>2
    <3>3. QED
      BY <3>1, <3>2
  <2>3. ASSUME NEW k \in handles'
        PROVE  \E b \in Addr : heap'[b] = k
    <3>1. CASE k = h
      BY <3>1, <1>4, <1>8
    <3>2. CASE k \in FreedHandles(c)
      <4>1. PICK b \in Addr : FreedHeap(c)[b] = k
        BY <1>1, <3>2, ReleaseHeap
      <4>2. k \in Handle
        BY <1>6, <3>2
      <4>3. b # a
        BY <1>4, <4>1, <4>2
      <4>4. QED
        BY <1>8, <4>1, <4>3
    <3>3. QED
      BY <1>3, <2>3, <3>1, <3>2
  <2>4. \A b \in Addr : heap'[b] # Null => heap'[b] \in handles'
    BY <1>3, <1>8, <2>1
  <2>5. \A b, e \in Addr : heap'[b] = heap'[e] /\ heap'[b] # Null => b = e
    BY <1>4, <1>8, <2>1 DEF IInv, NoOrphans
  <2>6. ASSUME NEW g \in FbId, fbs'[g] # Null
        PROVE  \E d \in Crtc : scanout_fbId'[d] = g
    <3>1. CASE g = f
      BY <3>1, <1>8
    <3>2. CASE g # f
      <4>1. g # scanout_fbId[c] /\ fbs[g] # Null
        BY <1>8, <2>6, <3>2, ReleaseFbs
      <4>2. PICK d \in Crtc : scanout_fbId[d] = g
        BY <4>1 DEF IInv, NoOrphans
      <4>3. QED
        BY <1>8, <4>1, <4>2
    <3>3. QED
      BY <3>1, <3>2
  <2>7. QED
    BY <2>2, <2>3, <2>4, <2>5, <2>6 DEF NoOrphans
<1>10. \A d \in Crtc : d # c /\ scan'[d] # Null =>
          /\ scan'[d] = scan[d]
          /\ scan[d] # Null
          /\ scan[d] # f
          /\ scan[d] \in FbId
          /\ fbs'[scan[d]] = fbs[scan[d]]
  <2>1. SUFFICES ASSUME NEW d \in Crtc, d # c, scan'[d] # Null
                 PROVE  /\ scan'[d] = scan[d]
                        /\ scan[d] # Null
                        /\ scan[d] # f
                        /\ scan[d] \in FbId
                        /\ fbs'[scan[d]] = fbs[scan[d]]
    OBVIOUS
  <2>2. scan'[d] = DarkenedScan(c)[d]
    BY <1>5, <1>6, <2>1
  <2>3. scan'[d] = scan[d] /\ scan[d] # scanout_fbId[c]
    BY <2>1, <2>2, ReleaseScan
  <2>4. scan[d] \in FbId /\ fbs[scan[d]] # Null
    BY <2>1, <2>3 DEF IInv, TypeOK, ScanoutOwned
  <2>5. FreedFbs(c)[scan[d]] = fbs[scan[d]]
    BY <2>3, <2>4, ReleaseFbs
  <2>6. scan[d] # f
    BY <1>4, <2>4, <2>5
  <2>7. QED
    BY <1>8, <2>1, <2>3, <2>4, <2>5, <2>6
<1>11. scan'[c] \in {f, Null}
  BY <1>5, <1>6, ReleaseScan
<1>12. ScanoutOwned'
  <2>1. ASSUME NEW d \in Crtc, scan'[d] # Null
        PROVE  /\ scan'[d] = scanout_fbId'[d]
               /\ fbs'[scan'[d]] # Null
               /\ \A e \in Crtc : scan'[e] = scan'[d] => e = d
    <3>1. CASE d = c
      <4>1. scan'[d] = f
        BY <2>1, <3>1, <1>11
      <4>2. \A e \in Crtc : e # c => scan'[e] # f
        BY <1>4, <1>10
      <4>3. QED
        BY <1>8, <3>1, <4>1, <4>2
    <3>2. CASE d # c
      <4>1. /\ scan'[d] = scan[d]
            /\ scan[d] # Null
            /\ scan[d] # f
            /\ fbs'[scan[d]] = fbs[scan[d]]
        BY <1>10, <2>1, <3>2
      <4>2. scan[d] = scanout_fbId[d] /\ fbs[scan[d]] # Null
        BY <4>1 DEF IInv, ScanoutOwned
      <4>3. ASSUME NEW e \in Crtc, scan'[e] = scan'[d]
            PROVE  e = d
        <5>1. e # c
          BY <1>11, <2>1, <4>1, <4>3
        <5>2. scan[e] = scan[d]
          BY <1>10, <2>1, <4>1, <4>3, <5>1
        <5>3. QED
          BY <4>1, <5>2 DEF IInv, ScanoutOwned
      <4>4. QED
        BY <1>8, <3>2, <4>1, <4>2, <4>3
    <3>3. QED
      BY <3>1, <3>2
  <2>2. QED
    BY <2>1 DEF ScanoutOwned
<1>13. Exclusive'
  <2>1. SUFFICES ASSUME ~everFailed
                 PROVE  /\ status' = "running"
                        /\ \A d \in Crtc : boHandle'[d] # Null =>
                              /\ heap'[boHandle'[d]] # Null
                              /\ \A e \in Crtc : boHandle'[e] = boHandle'[d] => e = d
                        /\ \A d \in Crtc : scanout_fbId'[d] # Null =>
                              /\ fbs'[scanout_fbId'[d]] # Null
                              /\ \A e \in Crtc : scanout_fbId'[e] = scanout_fbId'[d] => e = d
    BY <1>1 DEF Exclusive
  <2>2. \A d \in Crtc : d # c /\ boHandle[d] # Null =>
           /\ boHandle[d] \in Addr
           /\ boHandle[d] # boHandle[c]
           /\ FreedHeap(c)[boHandle[d]] = heap[boHandle[d]]
           /\ heap[boHandle[d]] # Null
           /\ boHandle[d] # a
    BY <1>1, <1>4, <2>1, ReleaseHeap DEF IInv, TypeOK, Exclusive
  <2>3. \A d \in Crtc : d # c /\ scanout_fbId[d] # Null =>
           /\ scanout_fbId[d] \in FbId
           /\ scanout_fbId[d] # scanout_fbId[c]
           /\ FreedFbs(c)[scanout_fbId[d]] = fbs[scanout_fbId[d]]
           /\ fbs[scanout_fbId[d]] # Null
           /\ scanout_fbId[d] # f
    BY <1>4, <2>1, ReleaseFbs DEF IInv, TypeOK, Exclusive
  <2>4. ASSUME NEW d \in Crtc, boHandle'[d] # Null
        PROVE  /\ heap'[boHandle'[d]] # Null
               /\ \A e \in Crtc : boHandle'[e] = boHandle'[d] => e = d
    <3>1. CASE d = c
      BY <1>4, <1>8, <2>2, <3>1
    <3>2. CASE d # c
      <4>1. heap'[boHandle'[d]] # Null /\ boHandle'[d] # a
        BY <1>8, <2>2, <2>4, <3>2
      <4>2. \A e \in Crtc : boHandle'[e] = boHandle'[d] => e = d
        BY <1>8, <2>1, <2>4, <3>2, <4>1 DEF IInv, Exclusive
      <4>3. QED
        BY <4>1, <4>2
    <3>3. QED
      BY <3>1, <3>2
  <2>5. ASSUME NEW d \in Crtc, scanout_fbId'[d] # Null
        PROVE  /\ fbs'[scanout_fbId'[d]] # Null
               /\ \A e \in Crtc : scanout_fbId'[e] = scanout_fbId'[d] => e = d
    <3>1. CASE d = c
      BY <1>4, <1>8, <2>3, <3>1
    <3>2. CASE d # c
      <4>1. fbs'[scanout_fbId'[d]] # Null /\ scanout_fbId'[d] # f
        BY <1>8, <2>3, <2>5, <3>2
      <4>2. \A e \in Crtc : scanout_fbId'[e] = scanout_fbId'[d] => e = d
        BY <1>8, <2>1, <2>5, <3>2, <4>1 DEF IInv, Exclusive
      <4>3. QED
        BY <4>1, <4>2
    <3>3. QED
      BY <3>1, <3>2
  <2>6. QED
    BY <1>1, <2>4, <2>5
<1>14. RecordPaired'
  BY <1>4, <1>8 DEF IInv, RecordPaired
<1>15. QED
  BY <1>7, <1>9, <1>12, <1>13, <1>14 DEF IInv

-----------------------------------------------------------------------------
(* Every state reached satisfies the inductive invariant. *)
THEOREM Inductive == Spec => []IInv
<1>1. Init => IInv
  BY NullAssumption
     DEF Init, IInv, TypeOK, NoOrphans, ScanoutOwned, Exclusive, RecordPaired
<1>2. IInv /\ [Next]_vars => IInv'
  <2>1. SUFFICES ASSUME IInv, [Next]_vars PROVE IInv'
    OBVIOUS
  <2>2. CASE UNCHANGED vars
    BY <2>1, <2>2 DEF vars, IInv, TypeOK, NoOrphans, ScanoutOwned, Exclusive,
                      RecordPaired
  <2>3. ASSUME status = "running", NEW c \in Crtc, NEW s \in Size, SetMode(c, s)
        PROVE  IInv'
    BY <2>1, <2>3, SetModePreserves
  <2>4. ASSUME NEW c \in Crtc, CreateFails(c)
        PROVE  IInv'
    BY <2>1, <2>4, FailPreserves
  <2>5. ASSUME NEW c \in Crtc, DoubleFree(c)
        PROVE  IInv'
    <3>1. /\ UNCHANGED <<boHandle, scanout_fbId, heap, handles, fbs, scan, everFailed>>
          /\ status' = "undefined"
      BY <2>5 DEF DoubleFree, records
    <3>2. everFailed
      BY <2>1, <2>5 DEF DoubleFree, IInv, Exclusive, HoldsLiveBuffer, HoldsBuffer
    <3>3. QED
      BY <2>1, <3>1, <3>2 DEF IInv, TypeOK, NoOrphans, ScanoutOwned, Exclusive,
                              RecordPaired
  <2>6. QED
    BY <2>1, <2>2, <2>3, <2>4, <2>5 DEF Next
<1>3. QED
  BY <1>1, <1>2, PTL DEF Spec

(* What a record names is an address and an id of the process's, or null.  *)
THEOREM TypeCorrect == Spec => []TypeOK
<1>1. IInv => TypeOK
  BY DEF IInv
<1>2. QED
  BY <1>1, Inductive, PTL

(* Buffer objects, GEM handles and framebuffers never leak, whichever of   *)
(* the allocations of createScanoutFb fail.                                *)
THEOREM NothingLeaks == Spec => []NoOrphans
<1>1. IInv => NoOrphans
  BY DEF IInv
<1>2. QED
  BY <1>1, Inductive, PTL

(* A CRTC only ever scans out its own record's live framebuffer. *)
THEOREM ScansOutItsOwn == Spec => []ScanoutOwned
<1>1. IInv => ScanoutOwned
  BY DEF IInv
<1>2. QED
  BY <1>1, Inductive, PTL

(* Until an allocation fails, releasing a CRTC's buffer frees live memory  *)
(* that no other CRTC names.                                               *)
THEOREM RecordsExclusive == Spec => []Exclusive
<1>1. IInv => Exclusive
  BY DEF IInv
<1>2. QED
  BY <1>1, Inductive, PTL

-----------------------------------------------------------------------------
(* The step simulation.                                                    *)

Picture(c) == IF scan[c] = Null THEN Null ELSE fbs[scan[c]]

(* The CRTCs other than c that a release turns off: none while no          *)
(* allocation has failed.                                                  *)
Lost(c) == {d \in Crtc \ {c} : scan[d] # Null /\ DarkenedScan(c)[d] = Null}

LEMMA LostIsCollateral ==
    ASSUME IInv, NEW c \in Crtc
    PROVE  Lost(c) \in Abs!Collateral(c)
<1>1. CASE everFailed
  BY <1>1 DEF Lost, Abs!Collateral
<1>2. CASE ~everFailed
  <2>1. ASSUME NEW d \in Crtc \ {c}, scan[d] # Null
        PROVE  DarkenedScan(c)[d] = scan[d]
    <3>1. scan[d] = scanout_fbId[d]
      BY <2>1 DEF IInv, ScanoutOwned
    <3>2. scan[d] # scanout_fbId[c]
      BY <1>2, <2>1, <3>1 DEF IInv, Exclusive
    <3>3. QED
      BY <2>1, <3>2, ReleaseScan
  <2>2. Lost(c) = {}
    BY <2>1 DEF Lost
  <2>3. QED
    BY <1>2, <2>2 DEF Abs!Collateral
<1>3. QED
  BY <1>1, <1>2

(* What the other CRTCs show after a release. *)
LEMMA OthersAfterRelease ==
    ASSUME IInv, NEW c \in Crtc, NEW d \in Crtc, d # c
    PROVE  /\ DarkenedScan(c)[d] = Null => d \in Lost(c) \/ Picture(d) = Null
           /\ DarkenedScan(c)[d] # Null =>
                /\ d \notin Lost(c)
                /\ scan[d] # Null
                /\ DarkenedScan(c)[d] = scan[d]
                /\ scan[d] \in FbId
                /\ FreedFbs(c)[scan[d]] = Picture(d)
                /\ Picture(d) # Null
<1>1. DarkenedScan(c)[d] = Null => d \in Lost(c) \/ Picture(d) = Null
  BY DEF Lost, Picture
<1>2. ASSUME DarkenedScan(c)[d] # Null
      PROVE  /\ d \notin Lost(c)
             /\ scan[d] # Null
             /\ DarkenedScan(c)[d] = scan[d]
             /\ scan[d] \in FbId
             /\ FreedFbs(c)[scan[d]] = Picture(d)
             /\ Picture(d) # Null
  <2>1. DarkenedScan(c)[d] = scan[d] /\ scan[d] # scanout_fbId[c]
    BY <1>2, ReleaseScan
  <2>2. scan[d] # Null /\ scan[d] \in FbId
    BY <1>2, <2>1 DEF IInv, TypeOK
  <2>3. FreedFbs(c)[scan[d]] = fbs[scan[d]]
    BY <2>1, <2>2, ReleaseFbs
  <2>4. fbs[scan[d]] # Null
    BY <2>2 DEF IInv, ScanoutOwned
  <2>5. QED
    BY <1>2, <2>1, <2>2, <2>3, <2>4 DEF Lost, Picture
<1>3. QED
  BY <1>1, <1>2

(* Every call has one of the outcomes of module Scanout: the detailed      *)
(* buffer handling implements the abstract picture it is used through.     *)
THEOREM RefinesScanout == Spec => ImplementsScanout
<1> USE NullAssumption
<1>1. Init => Abs!ScanoutInit
  BY DEF Init, Abs!ScanoutInit
<1>2. IInv /\ [Next]_vars => [Abs!ScanoutNext]_(Abs!scanoutVars)
  <2>1. SUFFICES ASSUME IInv, [Next]_vars
                 PROVE  Abs!ScanoutNext \/ UNCHANGED Abs!scanoutVars
    OBVIOUS
  <2>2. CASE UNCHANGED vars
    BY <2>2 DEF vars, Abs!scanoutVars
  <2>3. ASSUME status = "running", NEW c \in Crtc, NEW s \in Size, SetMode(c, s)
        PROVE  Abs!ScanoutNext
    <3>1. UNCHANGED <<everFailed, status>>
      BY <2>3 DEF SetMode
    <3>2. PICK f \in FreeFbId(c) : /\ CreateScanoutFb(c, s, f)
                                   /\ SetCrtc(c, f)
      BY <2>3 DEF SetMode
    <3>3. f \in FbId /\ FreedFbs(c)[f] = Null
      BY <3>2 DEF FreeFbId
    <3>4. fbs' = [FreedFbs(c) EXCEPT ![f] = s]
      BY <3>2 DEF CreateScanoutFb, NewBo, Record
    <3>5. /\ FreedFbs(c) \in [FbId -> Size \cup {Null}]
          /\ DarkenedScan(c) \in [Crtc -> FbId \cup {Null}]
      BY <2>1, ReleaseType DEF IInv
    <3>6. \A d \in Crtc : d # c => scan'[d] = DarkenedScan(c)[d]
      BY <3>2, <3>5 DEF SetCrtc
    <3>7. \A d \in Crtc : d # c =>
            Picture(d)' = IF d \in Lost(c) THEN Null ELSE Picture(d)
      <4>1. SUFFICES ASSUME NEW d \in Crtc, d # c
                     PROVE  Picture(d)' = IF d \in Lost(c) THEN Null ELSE Picture(d)
        OBVIOUS
      <4>2. CASE DarkenedScan(c)[d] = Null
        <5>1. Picture(d)' = Null
          BY <3>6, <4>1, <4>2 DEF Picture
        <5>2. QED
          BY <2>1, <4>1, <4>2, <5>1, OthersAfterRelease
      <4>3. CASE DarkenedScan(c)[d] # Null
        <5>1. /\ d \notin Lost(c)
              /\ scan[d] # Null
              /\ DarkenedScan(c)[d] = scan[d]
              /\ scan[d] \in FbId
              /\ FreedFbs(c)[scan[d]] = Picture(d)
              /\ Picture(d) # Null
          BY <2>1, <4>1, <4>3, OthersAfterRelease
        <5>2. scan'[d] = scan[d] /\ scan[d] # f
          BY <3>3, <3>6, <4>1, <5>1
        <5>3. fbs'[scan[d]] = Picture(d)
          BY <3>3, <3>4, <3>5, <5>1, <5>2
        <5>4. QED
          BY <5>1, <5>2, <5>3 DEF Picture
      <4>4. QED
        BY <4>2, <4>3
    <3>8. Picture(c)' = s \/ Picture(c)' = Null
      BY <2>1, <3>2, <3>3, <3>4, <3>5, ReleaseScan DEF SetCrtc, Picture
    <3>9. /\ [e \in Crtc |-> Picture(e)'] =
               [d \in Crtc |-> IF d = c THEN Picture(c)'
                               ELSE IF d \in Lost(c) THEN Null ELSE Picture(d)]
      BY <3>7
    <3>10. Abs!Shown(c, s, {}) \/ Abs!Refused(c)
      <4>1. Lost(c) \in Abs!Collateral(c)
        BY <2>1, LostIsCollateral
      <4>2. Abs!Repaint(c, s, {}) \/ Abs!Repaint(c, Null, {})
        BY <3>8, <3>9, <4>1 DEF Abs!Repaint, Picture
      <4>3. QED
        BY <2>3, <3>1, <4>2 DEF Abs!Shown, Abs!Refused
    <3>11. QED
      BY <3>10 DEF Abs!ScanoutNext
  <2>4. ASSUME status = "running", NEW c \in Crtc, CreateFails(c)
        PROVE  Abs!ScanoutNext
    <3>1. /\ fbs' = FreedFbs(c)
          /\ scan' = DarkenedScan(c)
          /\ everFailed' = TRUE
          /\ status' = status
      BY <2>4 DEF CreateFails
    <3>2. \A d \in Crtc : d # c =>
            Picture(d)' = IF d \in Lost(c) THEN Null ELSE Picture(d)
      BY <2>1, <3>1, OthersAfterRelease DEF Picture
    <3>3. Picture(c)' = Null
      BY <2>1, <3>1, ReleaseScan DEF Picture
    <3>4. Lost(c) \in Abs!Collateral(c)
      BY <2>1, LostIsCollateral
    <3>5. Abs!Repaint(c, Null, {})
      BY <3>2, <3>3, <3>4 DEF Abs!Repaint, Picture
    <3>6. Abs!NoBuffer(c)
      BY <2>4, <3>1, <3>5 DEF Abs!NoBuffer
    <3>7. QED
      BY <3>6 DEF Abs!ScanoutNext
  <2>5. ASSUME status = "running", NEW c \in Crtc, DoubleFree(c)
        PROVE  Abs!ScanoutNext
    <3>1. everFailed
      BY <2>1, <2>5 DEF DoubleFree, IInv, Exclusive, HoldsLiveBuffer, HoldsBuffer
    <3>2. Abs!HeapCorrupted
      BY <2>5, <3>1 DEF DoubleFree, Abs!HeapCorrupted
    <3>3. QED
      BY <3>2 DEF Abs!ScanoutNext
  <2>6. QED
    BY <2>1, <2>2, <2>3, <2>4, <2>5 DEF Next
<1>3. QED
  BY <1>1, <1>2, Inductive, PTL DEF Spec, ImplementsScanout, Abs!ScanoutSpec
=============================================================================
