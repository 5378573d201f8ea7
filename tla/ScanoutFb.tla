----------------------------- MODULE ScanoutFb -----------------------------
(***************************************************************************)
(* DrmCrtc::createScanoutFb, bo_create and bo_destroy, and the             *)
(* drmModeSetCrtc call that follows them in DriDevice::setActiveMode.      *)
(*                                                                         *)
(* Each CRTC record holds the pointer of its buffer object (boHandle) and  *)
(* the id of its framebuffer (scanout_fbId).  Three tables stand for what  *)
(* those names refer to: the process heap (the live "struct bo" and the    *)
(* GEM handle each stores), the GEM handles and the framebuffers of the    *)
(* kernel.  Names are reused: an address freed is an address malloc may    *)
(* return again, and the same for handles and framebuffer ids.             *)
(*                                                                         *)
(* The library is single threaded and the objects belong to its own file   *)
(* descriptor, so nothing interleaves inside one call: a call is an action.*)
(***************************************************************************)
CONSTANTS
    Crtc,     \* DriDevice::crtcList
    Addr,     \* addresses calloc may return for a struct bo
    Handle,   \* GEM handles
    FbId,     \* framebuffer ids
    Size,     \* width x height
    Null      \* nullptr, id 0, a table entry not in use

ASSUME NullAssumption == Null \notin Addr \cup Handle \cup FbId \cup Size

VARIABLES
    boHandle,       \* boHandle[c]: the pointer crtc c holds
    scanout_fbId,   \* scanout_fbId[c]: the framebuffer id crtc c holds
    heap,           \* heap[a]: GEM handle of the live struct bo at a, or Null
    handles,        \* the open GEM handles
    fbs,            \* fbs[f]: the size of framebuffer f, or Null
    scan,           \* scan[c]: our framebuffer that c scans out, or Null
    everFailed,     \* history: some allocation failed
    status          \* "running", or "undefined" once freed memory was used

records == <<boHandle, scanout_fbId>>
vars == <<boHandle, scanout_fbId, heap, handles, fbs, scan, everFailed, status>>

TypeOK ==
    /\ boHandle \in [Crtc -> Addr \cup {Null}]
    /\ scanout_fbId \in [Crtc -> FbId \cup {Null}]
    /\ heap \in [Addr -> Handle \cup {Null}]
    /\ handles \in SUBSET Handle
    /\ fbs \in [FbId -> Size \cup {Null}]
    /\ scan \in [Crtc -> FbId \cup {Null}]
    /\ everFailed \in BOOLEAN
    /\ status \in {"running", "undefined"}

(* Before the first mode set no CRTC shows a framebuffer of this process. *)
Init ==
    /\ boHandle = [c \in Crtc |-> Null]
    /\ scanout_fbId = [c \in Crtc |-> Null]
    /\ heap = [a \in Addr |-> Null]
    /\ handles = {}
    /\ fbs = [f \in FbId |-> Null]
    /\ scan = [c \in Crtc |-> Null]
    /\ everFailed = FALSE
    /\ status = "running"

-----------------------------------------------------------------------------
(* Releasing the previous buffer: drmModeRmFB, then bo_destroy.            *)

HoldsBuffer(c) == boHandle[c] # Null /\ scanout_fbId[c] # Null

(* bo_destroy reads *boHandle and frees it: c still owns a live struct bo. *)
HoldsLiveBuffer(c) == HoldsBuffer(c) => heap[boHandle[c]] # Null

(* The heap and the handle table after bo_destroy of the object at a. *)
HeapWithout(hp, a) == [hp EXCEPT ![a] = Null]
HandlesWithout(hp, hs, a) == hs \ {hp[a]}

(* The four tables after the release at the top of createScanoutFb.  The   *)
(* kernel turns off every CRTC that scans out a framebuffer it removes.    *)
FreedHeap(c) ==
    IF HoldsBuffer(c) THEN HeapWithout(heap, boHandle[c]) ELSE heap
FreedHandles(c) ==
    IF HoldsBuffer(c) THEN HandlesWithout(heap, handles, boHandle[c]) ELSE handles
FreedFbs(c) ==
    IF HoldsBuffer(c) THEN [fbs EXCEPT ![scanout_fbId[c]] = Null] ELSE fbs
(* A variant a run must reject: every CRTC turned off by the removal. *)
DarkenedAll(c) == IF HoldsBuffer(c) THEN [d \in Crtc |-> Null] ELSE scan

DarkenedScan(c) ==
    IF HoldsBuffer(c)
    THEN [d \in Crtc |-> IF scan[d] = scanout_fbId[c] THEN Null ELSE scan[d]]
    ELSE scan

FreeAddr(c)   == {a \in Addr : FreedHeap(c)[a] = Null}
FreeHandle(c) == Handle \ FreedHandles(c)
FreeFbId(c)   == {f \in FbId : FreedFbs(c)[f] = Null}

-----------------------------------------------------------------------------
(* The release and the two ways to fail after it.  The CRTC record is left *)
(* as it was: it still names the buffer and the framebuffer just released. *)

BoCreateFails(c) ==
    /\ heap' = FreedHeap(c)
    /\ handles' = FreedHandles(c)

(* A variant a run must reject: the new buffer not destroyed. *)
AddFbFailsLeaking(c) ==
    \E a \in FreeAddr(c), h \in FreeHandle(c) :
        /\ heap' = [FreedHeap(c) EXCEPT ![a] = h]
        /\ handles' = FreedHandles(c) \cup {h}

AddFbFails(c) ==
    \E a \in FreeAddr(c), h \in FreeHandle(c) :
        LET hp == [FreedHeap(c) EXCEPT ![a] = h]
            hs == FreedHandles(c) \cup {h}
        IN  /\ heap' = HeapWithout(hp, a)
            /\ handles' = HandlesWithout(hp, hs, a)

CreateFails(c) ==
    /\ HoldsLiveBuffer(c)
    /\ BoCreateFails(c) \/ AddFbFails(c)
    /\ fbs' = FreedFbs(c)
    /\ scan' = DarkenedScan(c)
    /\ everFailed' = TRUE
    /\ UNCHANGED <<records, status>>

(* A variant a run must reject: the buffer object destroyed as soon as the *)
(* framebuffer holds it.                                                   *)
NewBoDestroyed(c, a, h) ==
    /\ heap' = FreedHeap(c)
    /\ handles' = FreedHandles(c)

NewBo(c, a, h) ==
    /\ heap' = [FreedHeap(c) EXCEPT ![a] = h]
    /\ handles' = FreedHandles(c) \cup {h}

(* A variant a run must reject: the framebuffer id not recorded. *)
RecordBoOnly(c, a, f) == boHandle' = [boHandle EXCEPT ![c] = a] /\ UNCHANGED scanout_fbId

Record(c, a, f) ==
    /\ boHandle' = [boHandle EXCEPT ![c] = a]
    /\ scanout_fbId' = [scanout_fbId EXCEPT ![c] = f]

(* The new buffer and framebuffer, f of size s, recorded in c. *)
CreateScanoutFb(c, s, f) ==
    /\ fbs' = [FreedFbs(c) EXCEPT ![f] = s]
    /\ \E a \in FreeAddr(c), h \in FreeHandle(c) : NewBo(c, a, h) /\ Record(c, a, f)

(* drmModeSetCrtc with the new framebuffer; its failure is only logged. *)
SetCrtc(c, f) ==
    \/ scan' = [DarkenedScan(c) EXCEPT ![c] = f]
    \/ scan' = DarkenedScan(c)

SetMode(c, s) ==
    /\ HoldsLiveBuffer(c)
    /\ \E f \in FreeFbId(c) : CreateScanoutFb(c, s, f) /\ SetCrtc(c, f)
    /\ UNCHANGED <<everFailed, status>>

(* The record is stale and nothing lives at its address: bo_destroy reads  *)
(* and frees memory already freed.  Anything may follow; nothing here does.*)
DoubleFree(c) ==
    /\ ~HoldsLiveBuffer(c)
    /\ status' = "undefined"
    /\ UNCHANGED <<records, heap, handles, fbs, scan, everFailed>>

Next ==
    /\ status = "running"
    /\ \E c \in Crtc : \/ \E s \in Size : SetMode(c, s)
                       \/ CreateFails(c)
                       \/ DoubleFree(c)

Spec == Init /\ [][Next]_vars

-----------------------------------------------------------------------------
(* Nothing leaks, whatever fails: every live buffer object is one some     *)
(* CRTC record names, every open GEM handle is stored in exactly one live  *)
(* buffer object, and every framebuffer is one some record names.          *)
NoOrphans ==
    /\ \A a \in Addr : heap[a] # Null => \E c \in Crtc : boHandle[c] = a
    /\ \A h \in handles : \E a \in Addr : heap[a] = h
    /\ \A a \in Addr : heap[a] # Null => heap[a] \in handles
    /\ \A a, b \in Addr : heap[a] = heap[b] /\ heap[a] # Null => a = b
    /\ \A f \in FbId : fbs[f] # Null => \E c \in Crtc : scanout_fbId[c] = f

(* What a CRTC scans out is its own record's framebuffer, still alive, and *)
(* no other CRTC scans it out, even after failures: a stale record may     *)
(* darken a neighbour but never show the neighbour's picture.              *)
ScanoutOwned ==
    \A c \in Crtc : scan[c] # Null =>
        /\ scan[c] = scanout_fbId[c]
        /\ fbs[scan[c]] # Null
        /\ \A d \in Crtc : scan[d] = scan[c] => d = c

(* As long as no allocation has failed, each record owns what it names: it *)
(* is live and named by no other record, so releasing it is defined and    *)
(* disturbs no other CRTC.  (createScanoutFb clears neither boHandle nor   *)
(* scanout_fbId before it allocates, so one failure is enough to end this.)*)
Exclusive ==
    ~everFailed =>
        /\ status = "running"
        /\ \A c \in Crtc : boHandle[c] # Null =>
              /\ heap[boHandle[c]] # Null
              /\ \A d \in Crtc : boHandle[d] = boHandle[c] => d = c
        /\ \A c \in Crtc : scanout_fbId[c] # Null =>
              /\ fbs[scanout_fbId[c]] # Null
              /\ \A d \in Crtc : scanout_fbId[d] = scanout_fbId[c] => d = c

(* The abstract specification this module implements. *)
Abs == INSTANCE Scanout WITH
         picture <- [c \in Crtc |-> IF scan[c] = Null THEN Null ELSE fbs[scan[c]]],
         sound   <- ~everFailed,
         alive   <- status = "running",
         Dark    <- Null

(* Every call of createScanoutFb and drmModeSetCrtc has one of the four    *)
(* outcomes of module Scanout: one CRTC repainted, refused or darkened,    *)
(* its neighbours touched only after an allocation has failed.             *)
ImplementsScanout == Abs!ScanoutSpec
=============================================================================
