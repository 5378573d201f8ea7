------------------------------ MODULE Loading ------------------------------
(***************************************************************************)
(* DRIElements::loadResources: which DRM cards a new object lists, how far *)
(* it gets with each, and which one it takes for its own.                  *)
(*                                                                         *)
(* Nothing of the process runs in between, so the outcome of the loop is a *)
(* relation: lv[n] says how far card n was loaded,                         *)
(*   "absent"     not in mDeviceList: the loop ended before it             *)
(*   "unopened"   listed, open failed: drmModuleFd is -1                   *)
(*   "bare"       opened, no resources or a connector missing              *)
(*   "planeless"  CRTCs, connectors, encoders, but no planes               *)
(*   "complete"   all of it                                                *)
(***************************************************************************)
EXTENDS Integers, Sequences

CONSTANTS
    Card,         \* device nodes with "card" in their name
    Enumerations, \* device nodes of the drm subsystem, as udev may list them
    Kms,          \* cards that can set modes; a render-only card cannot
    Dumb,         \* cards with dumb buffers
    NoCard        \* mPrimaryDev of an object without cards

(* The kernel answers DRM_CAP_DUMB_BUFFER on mode setting cards only. *)
ASSUME LoadingAssumption ==
    /\ Enumerations \subseteq Seq(Card \cup {"render"}) /\ "render" \notin Card
    /\ \A nodes \in Enumerations : \A i, j \in DOMAIN nodes :
          nodes[i] = nodes[j] /\ nodes[i] \in Card => i = j
    /\ Dumb \subseteq Kms /\ Kms \subseteq Card
    /\ NoCard \notin Card

Level == {"absent", "unopened", "bare", "planeless", "complete"}

(* Every level but the last ends the loop. *)
Ends(l) == l \in {"unopened", "bare", "planeless"}

(* How far one card gets.  Opening may fail, and so may any read. *)
Reaches(n, l) == l \in {"planeless", "complete"} => n \in Kms

(* The loop over getDeviceList stops at place stop, or goes to the end; a  *)
(* node that is not a card is skipped.                                     *)
Loop(nodes, stop, lv) ==
    /\ stop \in DOMAIN nodes => nodes[stop] \in Card
    /\ \A n \in Card :
         \/ lv[n] = "absent" /\ \A i \in DOMAIN nodes : nodes[i] = n => i > stop
         \/ \E i \in DOMAIN nodes :
              /\ nodes[i] = n /\ i <= stop /\ Reaches(n, lv[n])
              /\ IF i = stop THEN Ends(lv[n]) ELSE lv[n] = "complete"

LoadResources ==
    {lv \in [Card -> Level] :
        \E nodes \in Enumerations : \E stop \in 1..Len(nodes) + 1 : Loop(nodes, stop, lv)}

(* mDeviceList *)
Listed(lv) == {n \in Card : lv[n] # "absent"}
Opened(lv) == {n \in Card : lv[n] \notin {"absent", "unopened"}}

(* hasDumbBuff returns; otherwise it throws a FatalException. *)
HasDumbBuff(lv, n) == n \in Opened(lv) /\ n \in Dumb

(* A variant a run must reject: the device not set up at start. *)
ChosenUnchecked(lv) ==
    IF Listed(lv) = {} THEN {[primary |-> NoCard, checked |-> {}]}
    ELSE {[primary |-> n, checked |-> {}] : n \in Listed(lv)}

(* What the constructor may choose: begin() of an unordered map is any     *)
(* listed card, and updateDevice then asks it for dumb buffers.            *)
Chosen(lv) ==
    IF Listed(lv) = {} THEN {[primary |-> NoCard, checked |-> {}]}
    ELSE {[primary |-> n, checked |-> {n}] : n \in {m \in Listed(lv) : HasDumbBuff(lv, m)}}

(* Or it throws: out of the loop, when the kernel gives a connector as     *)
(* null, or at the card begin() gave.                                      *)
LoadThrows(lv) ==
    (\E n \in Kms : lv[n] = "bare") \/ (\E n \in Listed(lv) : ~HasDumbBuff(lv, n))
=============================================================================
