------------------------- MODULE DriElementsProofs -------------------------
(***************************************************************************)
(* Proofs about module DriElements, for any card: any number of connectors *)
(* and CRTCs, any encoder masks, mode lists and sizes, any bound on the    *)
(* event queue.                                                            *)
(***************************************************************************)
EXTENDS DriElements, TLAPS, WellFoundedInduction

-----------------------------------------------------------------------------
(* The operators the actions are built from.                               *)

LEMMA LeastExists ==
    ASSUME NEW mask, mask \subseteq Nat, mask # {}
    PROVE  \E c \in mask : \A d \in mask : c <= d
<1>1. \E c \in mask : \A d \in mask : ~(<<d, c>> \in OpToRel(<, Nat))
  BY NatLessThanWellFounded, WFMin, Zenon
<1>2. \E c \in mask : \A d \in mask : ~(d < c)
  BY <1>1 DEF OpToRel
<1>3. QED
  BY <1>2

(* A set of CRTCs that is not empty has a first one. *)
LEMMA FirstExists ==
    ASSUME NEW mask \in SUBSET Crtc, mask # {}
    PROVE  \E c \in mask : IsFirst(c, mask)
<1>1. mask \subseteq Nat
  BY CrtcAssumption
<1>2. QED
  BY <1>1, LeastExists DEF IsFirst

(* findCrtc returns a CRTC of the card, or none, whatever encoders the     *)
(* kernel gives.                                                           *)
LEMMA LastType ==
    ASSUME NEW k \in Connector, NEW given \in SUBSET DOMAIN Encoders[k]
    PROVE  LastCrtc(k, given) \in Crtc \cup {NoCrtc}
<1> DEFINE enc == Encoders[k]
           Last(i) == enc[i] # {} /\ \A j \in given : enc[j] # {} => j <= i
<1>1. CASE \E i \in given : Last(i)
  <2>1. PICK i \in given : Last(i)
    BY <1>1
  <2>2. enc[i] \in SUBSET Crtc
    BY CardAssumption
  <2>3. \E c \in Crtc : IsFirst(c, enc[i])
    BY <2>1, <2>2, FirstExists
  <2>4. LastCrtc(k, given) = CHOOSE c \in Crtc : \E j \in given : Last(j) /\ IsFirst(c, enc[j])
    BY <1>1 DEF LastCrtc
  <2>5. QED
    BY <2>1, <2>3, <2>4
<1>2. CASE ~\E i \in given : Last(i)
  BY <1>2 DEF LastCrtc
<1>3. QED
  BY <1>1, <1>2

LEMMA FallbackType ==
    ASSUME NEW k \in Connector
    PROVE  FallbackCrtc(k) \in Crtc \cup {NoCrtc}
  BY LastType DEF FallbackCrtc

(* findCrtc's fallback is a matter of the encoder masks alone. *)
LEMMA FallbackFixed ==
    ASSUME NEW k
    PROVE  FallbackCrtc(k)' = FallbackCrtc(k) /\ Misread(k)' = Misread(k)
  BY DEF FallbackCrtc, Misread, LastCrtc, IsFirst

LEMMA FindType ==
    ASSUME TypeOK, NEW k \in Connector
    PROVE  FindCrtc(k) \in Crtc \cup {NoCrtc}
  BY FallbackType DEF TypeOK, FindCrtc

LEMMA ReadType ==
    ASSUME TypeOK, NEW k \in Connector, NEW c \in {FindCrtc(k)} \cup Misread(k)
    PROVE  c \in Crtc \cup {NoCrtc}
<1>1. CASE c = FindCrtc(k)
  BY <1>1, FindType
<1>2. CASE c \in Misread(k)
  <2>1. PICK given \in SUBSET DOMAIN Encoders[k] : c = LastCrtc(k, given)
    BY <1>2 DEF Misread
  <2>2. QED
    BY <2>1, LastType
<1>3. QED
  BY <1>1, <1>2

LEMMA ConfModeIsInitial == ConfMode = InitialMode
  BY DEF ConfMode

(* The clamp returns a size, and one that is too large in one dimension at *)
(* most.                                                                   *)
LEMMA CappedFits ==
    ASSUME NEW best \in Size
    PROVE  /\ Capped(best) \in Size
           /\ Capped(best).w <= InitialMode.w \/ Capped(best).h <= InitialMode.h
  BY ConfModeIsInitial, SizeAssumption DEF Capped

(* Every mode of a display is a size. *)
LEMMA ModesAreSizes ==
    ASSUME NEW m \in Displays, m # <<>>
    PROVE  /\ m \in Seq(Size) /\ Len(m) \in Nat \ {0}
           /\ m[1] \in Size /\ m[Len(m)] \in Size
           /\ \A i \in DOMAIN m : m[i] \in Size
<1>1. m \in Seq(Size)
  BY CardAssumption DEF Displays
<1>2. Len(m) \in Nat \ {0} /\ DOMAIN m = 1..Len(m)
  BY <1>1
<1>3. QED
  BY <1>1, <1>2

-----------------------------------------------------------------------------
(* Type correctness.                                                       *)

LEMMA ReadConnectorType ==
    ASSUME TypeOK, NEW k \in Connector, ReadConnector(k)
    PROVE  cmodes' \in [Connector -> Displays]
  BY DEF TypeOK, ReadConnector

LEMMA RepaintType ==
    ASSUME ScanoutTypeOK, NEW c \in Crtc, NEW p \in Size \cup {Dark}, NEW off,
           Repaint(c, p, off)
    PROVE  picture' \in [Crtc -> Size \cup {Dark}]
  BY DEF ScanoutTypeOK, Repaint

(* The lists of connectors in the CRTC records hold connectors. *)
LEMMA ConnectorsType ==
    ASSUME TypeOK, NEW c \in Crtc
    PROVE  connectors[c] \in SUBSET Connector
  BY DEF TypeOK

(* A mode that setActiveMode accepts is a mode of a plugged display. *)
LEMMA SupportedIsSize ==
    ASSUME TypeOK, NEW c \in Crtc, connectors[c] # {}, NEW s, ~Unsupported(c, s)
    PROVE  s \in Size
<1>1. PICK k \in connectors[c] : TRUE
  OBVIOUS
<1>2. k \in Connector
  BY ConnectorsType
<1>3. PICK i \in DOMAIN kmodes[k] : s = kmodes[k][i]
  BY <1>1 DEF Unsupported, IsModeSupported
<1>4. kmodes[k] \in Displays
  BY <1>2 DEF TypeOK
<1>5. kmodes[k] # <<>>
  BY <1>3
<1>6. QED
  BY <1>3, <1>4, <1>5, ModesAreSizes

LEMMA SetActiveModeType ==
    ASSUME TypeOK, NEW c \in Crtc, NEW s, NEW ok \in BOOLEAN, SetActiveMode(c, s, ok)
    PROVE  /\ ScanoutTypeOK'
           /\ cmodes' \in [Connector -> Displays]
           /\ kroute' \in [Connector -> Crtc \cup {NoCrtc, NoEncoder}]
<1>1. CASE connectors[c] = {}
  BY <1>1 DEF SetActiveMode, TypeOK, ScanoutTypeOK, scanoutVars
<1>2. CASE connectors[c] # {}
  <2>1. cmodes' \in [Connector -> Displays]
    BY <1>2, ReadConnectorType, ConnectorsType DEF SetActiveMode
  <2>2. CASE Unsupported(c, s)
    BY <1>2, <2>1, <2>2 DEF SetActiveMode, TypeOK, ScanoutTypeOK, scanoutVars
  <2>3. CASE ~Unsupported(c, s)
    <3>1. s \in Size
      BY <1>2, <2>3, SupportedIsSize
    <3>2. ASSUME NEW on, Reroute(c, on)
          PROVE  kroute' \in [Connector -> Crtc \cup {NoCrtc, NoEncoder}]
      BY <3>2 DEF Reroute, TypeOK
    <3>3. kroute' \in [Connector -> Crtc \cup {NoCrtc, NoEncoder}]
      BY <1>2, <2>3, <3>2 DEF SetActiveMode, TypeOK
    <3>4. ASSUME NEW off, Shown(c, s, off) PROVE ScanoutTypeOK'
      BY <3>1, <3>4, RepaintType DEF Shown, TypeOK, ScanoutTypeOK
    <3>5. ASSUME Refused(c) PROVE ScanoutTypeOK'
      BY <3>5, RepaintType DEF Refused, TypeOK, ScanoutTypeOK
    <3>6. ASSUME NoBuffer(c) PROVE ScanoutTypeOK'
      BY <3>6, RepaintType DEF NoBuffer, TypeOK, ScanoutTypeOK
    <3>7. ASSUME HeapCorrupted PROVE ScanoutTypeOK'
      BY <3>7 DEF HeapCorrupted, TypeOK, ScanoutTypeOK
    <3>8. QED
      BY <1>2, <2>1, <2>3, <3>3, <3>4, <3>5, <3>6, <3>7 DEF SetActiveMode
  <2>4. QED
    BY <2>2, <2>3
<1>3. QED
  BY <1>1, <1>2

(* setupDevice works on a connector of the list, and the count never gets  *)
(* ahead of the loop.                                                      *)
AtConnector == /\ pc = "range" => at \in Connector /\ crtc_id[at] \in Crtc
               /\ IF pc = "count" THEN count < at ELSE count = 0

(* The sender and the receiver of the events keep the queue within bounds. *)
LEMMA NotifyType ==
    ASSUME TypeOK, NEW n \in Node, Notify(n)
    PROVE  queue' \in Seq(Node) /\ Len(queue') <= MaxQueue /\ missed' \in BOOLEAN
<1>1. queue' \in Seq(Node) /\ Len(queue') <= MaxQueue
  <2>1. queue \in Seq(Node) /\ Len(queue) \in Nat /\ Len(queue) <= MaxQueue
    BY DEF TypeOK
  <2>2. CASE Len(queue) < MaxQueue
    <3>1. queue' = Append(queue, n)
      BY <2>2 DEF Notify
    <3>2. queue' \in Seq(Node) /\ Len(queue') = Len(queue) + 1
      BY <2>1, <3>1
    <3>3. QED
      BY <2>1, <2>2, <3>2, CardAssumption
  <2>3. CASE ~(Len(queue) < MaxQueue)
    BY <2>1, <2>3 DEF Notify
  <2>4. QED
    BY <2>2, <2>3
<1>2. missed' \in BOOLEAN
  <2>1. CASE Len(queue) < MaxQueue
    <3>1. missed' = (missed /\ n # "card")
      BY <2>1 DEF Notify
    <3>2. QED
      BY <3>1
  <2>2. CASE ~(Len(queue) < MaxQueue)
    <3>1. missed' = (missed \/ (n = "card" /\ ~CardPending(queue)))
      BY <2>2 DEF Notify
    <3>2. QED
      BY <3>1
  <2>3. QED
    BY <2>1, <2>2
<1>3. QED
  BY <1>1, <1>2

LEMMA TypeInit == Init => TypeOK /\ AtConnector
<1>1. SUFFICES ASSUME Init PROVE TypeOK /\ AtConnector
  OBVIOUS
<1>2. ScanoutTypeOK
  BY <1>1 DEF Init, ScanoutInit, ScanoutTypeOK
<1>4. /\ queue \in Seq(Node) /\ Len(queue) <= MaxQueue
      /\ at \in 1..NumConnectors + 1
      /\ count \in 0..NumConnectors
  BY <1>1, CardAssumption DEF Init
<1>5. /\ kroute \in [Connector -> Crtc \cup {NoCrtc, NoEncoder}]
      /\ crtc_id \in [Connector -> Crtc \cup {NoCrtc}]
      /\ connectors \in [Crtc -> {{}} \cup {{k} : k \in Connector}]
      /\ maxSize \in [Crtc -> Size \cup {Zero}]
      /\ minSize \in [Crtc -> Size \cup {Zero}]
  BY <1>1, CardAssumption DEF Init
<1>6. QED
  BY <1>1, <1>2, <1>4, <1>5, SizeAssumption DEF Init, TypeOK, AtConnector

LEMMA TypeNext == TypeOK /\ AtConnector /\ [Next]_vars => TypeOK' /\ AtConnector'
<1> USE DEF AtConnector
<1>1. SUFFICES ASSUME TypeOK, AtConnector, [Next]_vars PROVE TypeOK' /\ AtConnector'
  OBVIOUS
<1>2. CASE UNCHANGED vars
  BY <1>1, <1>2 DEF vars, TypeOK, ScanoutTypeOK, scanoutVars, kernelVars, routeVars,
                    rangeVars, callVars, ghostVars
<1>3. CASE SetupRead
  <2>1. at \in Connector /\ at \in 1..NumConnectors + 1 /\ pc = "setup"
    BY <1>1, <1>3 DEF SetupRead, TypeOK
  <2>2. cmodes' \in [Connector -> Displays]
    BY <1>1, <1>3, <2>1, ReadConnectorType DEF SetupRead
  <2>3. PICK c \in {FindCrtc(at)} \cup Misread(at) :
          /\ IF Usable(at, c)
             THEN crtc_id' = [crtc_id EXCEPT ![at] = c] /\ pc' = "range" /\ UNCHANGED at
             ELSE at' = at + 1 /\ UNCHANGED <<crtc_id, pc>>
          /\ missed' = (missed \/ (Plugged(at) /\ c # FindCrtc(at) /\ ~CardPending(queue)))
    BY <1>3 DEF SetupRead
  <2>4. missed' \in BOOLEAN
    BY <1>1, <2>3 DEF TypeOK
  <2>5. CASE Usable(at, c)
    <3>1. c \in Crtc
      BY <1>1, <2>1, <2>5, ReadType DEF Usable
    <3>2. QED
      BY <1>1, <1>3, <2>1, <2>2, <2>3, <2>4, <2>5, <3>1
         DEF SetupRead, TypeOK, ScanoutTypeOK, scanoutVars, kernelVars, rangeVars, callVars
  <2>6. CASE ~Usable(at, c)
    <3>1. at' \in 1..NumConnectors + 1
      BY <2>1, <2>3, <2>6, CardAssumption DEF Connector
    <3>2. QED
      BY <1>1, <1>3, <2>1, <2>2, <2>3, <2>4, <2>6, <3>1
         DEF SetupRead, TypeOK, ScanoutTypeOK, scanoutVars, kernelVars, rangeVars, callVars
  <2>7. QED
    BY <2>5, <2>6
<1>4. CASE SetupRange
  <2>1. at \in Connector /\ crtc_id[at] \in Crtc
    BY <1>1, <1>4 DEF SetupRange
  <2>2. cmodes' \in [Connector -> Displays]
    BY <1>1, <1>4, <2>1, ReadConnectorType DEF SetupRange
  <2>3. CASE Plugged(at)
    <3>1. /\ connectors' = [connectors EXCEPT ![crtc_id[at]] = {at}]
          /\ maxSize' = [maxSize EXCEPT ![crtc_id[at]] = Capped(kmodes[at][1])]
          /\ minSize' = [minSize EXCEPT ![crtc_id[at]] = kmodes[at][Len(kmodes[at])]]
          /\ at' = at + 1 /\ pc' = "setup" /\ alive' = alive
      BY <1>4, <2>3 DEF SetupRange, Linked, GetModeRange
    <3>2. /\ kmodes[at][1] \in Size
          /\ kmodes[at][Len(kmodes[at])] \in Size
      BY <1>1, <2>1, <2>3, ModesAreSizes DEF Plugged, TypeOK
    <3>3. Capped(kmodes[at][1]) \in Size
      BY <3>2, CappedFits
    <3>4. at' \in 1..NumConnectors + 1
      BY <2>1, <3>1, CardAssumption DEF Connector
    <3>5. QED
      BY <1>1, <1>4, <2>1, <2>2, <3>1, <3>2, <3>3, <3>4
         DEF SetupRange, TypeOK, ScanoutTypeOK, kernelVars, callVars, ghostVars
  <2>4. CASE ~Plugged(at)
    BY <1>1, <1>4, <2>2, <2>4
       DEF SetupRange, TypeOK, ScanoutTypeOK, kernelVars, rangeVars, callVars, ghostVars
  <2>5. QED
    BY <2>3, <2>4
<1>5. CASE SetupDone
  <2>1. at' \in 1..NumConnectors + 1
    BY <1>5, CardAssumption DEF SetupDone
  <2>2. QED
    BY <1>1, <1>5, <2>1
       DEF SetupDone, TypeOK, ScanoutTypeOK, scanoutVars, kernelVars, routeVars,
           rangeVars, callVars, ghostVars
<1>6. CASE BootActivate
  <2>1. PICK c \in todo : /\ IsFirst(c, todo)
                          /\ \E ok \in BOOLEAN : SetActiveMode(c, maxSize[c], ok)
                          /\ todo' = todo \ {c}
    BY <1>6 DEF BootActivate
  <2>2. c \in Crtc
    BY <1>1, <2>1 DEF TypeOK
  <2>3. /\ ScanoutTypeOK'
        /\ cmodes' \in [Connector -> Displays]
        /\ kroute' \in [Connector -> Crtc \cup {NoCrtc, NoEncoder}]
    BY <1>1, <2>1, <2>2, SetActiveModeType
  <2>4. QED
    BY <1>1, <1>6, <2>1, <2>3
       DEF BootActivate, TypeOK, routeVars, rangeVars, callVars, ghostVars
<1>7. CASE BootDone
  BY <1>1, <1>7
     DEF BootDone, TypeOK, ScanoutTypeOK, scanoutVars, kernelVars, routeVars,
         rangeVars, callVars, ghostVars
<1>8. CASE FindDisplay
  <2>1. at \in Connector /\ at + 1 \in 1..NumConnectors + 1
    BY <1>8, CardAssumption DEF FindDisplay, Connector
  <2>2. cmodes' \in [Connector -> Displays]
    BY <1>1, <1>8, <2>1, ReadConnectorType DEF FindDisplay
  <2>3. CASE Plugged(at) /\ OnPath(at)
    BY <1>1, <1>8, <2>1, <2>2, <2>3
       DEF FindDisplay, TypeOK, ScanoutTypeOK, scanoutVars, kernelVars, routeVars,
           rangeVars, ghostVars
  <2>4. CASE ~(Plugged(at) /\ OnPath(at))
    BY <1>1, <1>8, <2>1, <2>2, <2>4
       DEF FindDisplay, TypeOK, ScanoutTypeOK, scanoutVars, kernelVars, routeVars,
           rangeVars, ghostVars
  <2>5. QED
    BY <2>3, <2>4
<1>9. CASE NoDisplay
  BY <1>1, <1>9
     DEF NoDisplay, TypeOK, ScanoutTypeOK, scanoutVars, kernelVars, routeVars,
         rangeVars, ghostVars
<1>10. ASSUME NEW ok \in BOOLEAN, ApplyMode(ok)
       PROVE  TypeOK' /\ AtConnector'
  <2>1. 1 \in 1..NumConnectors + 1
    BY CardAssumption
  <2>2. CASE target = NoCrtc
    BY <1>1, <1>10, <2>1, <2>2
       DEF ApplyMode, TypeOK, ScanoutTypeOK, scanoutVars, routeVars, ghostVars
  <2>3. CASE target # NoCrtc
    <3>1. target \in Crtc /\ req.win \in Size
      BY <1>1, <2>3, SizeAssumption DEF TypeOK, Request, NoRequest
    <3>2. SetActiveMode(target, req.win, ok)
      BY <1>10, <2>3 DEF ApplyMode
    <3>3. /\ ScanoutTypeOK'
          /\ cmodes' \in [Connector -> Displays]
          /\ kroute' \in [Connector -> Crtc \cup {NoCrtc, NoEncoder}]
      BY <1>1, <3>1, <3>2, SetActiveModeType
    <3>4. /\ maxSize' \in [Crtc -> Size \cup {Zero}]
          /\ mConfiguredMode' \in Size
      BY <1>1, <1>10, <2>3, <3>1 DEF ApplyMode, TypeOK
    <3>5. QED
      BY <1>1, <1>10, <2>1, <3>2, <3>3, <3>4
         DEF ApplyMode, TypeOK, routeVars, ghostVars
  <2>4. QED
    BY <2>2, <2>3
<1>11. ASSUME NEW r \in Request, ChangeMode(r)
       PROVE  TypeOK' /\ AtConnector'
  BY <1>1, <1>11
     DEF ChangeMode, TypeOK, ScanoutTypeOK, scanoutVars, kernelVars, routeVars,
         rangeVars, ghostVars
<1>12. CASE PollDRIDevices
  <2>1. queue' \in Seq(Node) /\ Len(queue') <= MaxQueue
    BY <1>1, <1>12, CardAssumption DEF PollDRIDevices, TypeOK
  <2>2. missed' \in BOOLEAN /\ alive' \in BOOLEAN /\ pc' \in {"idle", "setup"}
    BY <1>1, <1>12 DEF PollDRIDevices, TypeOK, ScanoutTypeOK
  <2>3. QED
    BY <1>1, <1>12, <2>1, <2>2
       DEF PollDRIDevices, TypeOK, ScanoutTypeOK, routeVars, rangeVars, callVars
<1>13. ASSUME NEW k \in Connector, NEW m \in ModeLists, Plug(k, m)
       PROVE  TypeOK' /\ AtConnector'
  <2>1. queue' \in Seq(Node) /\ Len(queue') <= MaxQueue /\ missed' \in BOOLEAN
    BY <1>1, <1>13, NotifyType DEF Plug, Node
  <2>2. QED
    BY <1>1, <1>13, <2>1
       DEF Plug, TypeOK, ScanoutTypeOK, scanoutVars, routeVars, rangeVars, callVars,
           Displays
<1>14. ASSUME NEW k \in Connector, Unplug(k)
       PROVE  TypeOK' /\ AtConnector'
  <2>1. queue' \in Seq(Node) /\ Len(queue') <= MaxQueue /\ missed' \in BOOLEAN
    BY <1>1, <1>14, NotifyType DEF Unplug, Node
  <2>2. met' \subseteq {"unplug", "nameless", "index"}
    BY <1>1, <1>14 DEF Unplug, TypeOK
  <2>3. QED
    BY <1>1, <1>14, <2>1, <2>2
       DEF Unplug, TypeOK, ScanoutTypeOK, scanoutVars, routeVars, rangeVars, callVars,
           Displays
<1>15. CASE OtherEvent
  <2>1. /\ queue' \in Seq(Node) /\ Len(queue') <= MaxQueue /\ missed' \in BOOLEAN
        /\ met' \subseteq {"unplug", "nameless", "index"}
    <3>1. PICK n \in OtherNodes :
            Notify(n) /\ met' = IF n = "nameless" THEN met \cup {n} ELSE met
      BY <1>15 DEF OtherEvent
    <3>2. n \in Node
      BY CardAssumption
    <3>3. QED
      BY <1>1, <3>1, <3>2, NotifyType DEF TypeOK
  <2>2. QED
    BY <1>1, <1>15, <2>1
       DEF OtherEvent, TypeOK, ScanoutTypeOK, scanoutVars, routeVars, rangeVars, callVars
<1>16. CASE GetSupportedNumConnector
  BY <1>1, <1>16
     DEF GetSupportedNumConnector, TypeOK, ScanoutTypeOK, scanoutVars, kernelVars,
         routeVars, rangeVars, callVars, ghostVars
<1>17. CASE CountConnector
  <2>1. at \in Connector /\ at + 1 \in 1..NumConnectors + 1 /\ pc' = pc /\ at' = at + 1
    BY <1>17, CardAssumption DEF CountConnector, Connector
  <2>2. cmodes' \in [Connector -> Displays]
    BY <1>1, <1>17, <2>1, ReadConnectorType DEF CountConnector
  <2>3. count' \in 0..NumConnectors /\ count' < at + 1
    BY <1>1, <1>17, <2>1, CardAssumption DEF CountConnector, Connector, TypeOK
  <2>4. QED
    BY <1>1, <1>17, <2>1, <2>2, <2>3
       DEF CountConnector, TypeOK, ScanoutTypeOK, scanoutVars, kernelVars, routeVars,
           rangeVars, ghostVars
<1>18. CASE CountDone
  <2>1. 1 \in 1..NumConnectors + 1 /\ 0 \in 0..NumConnectors
    BY CardAssumption
  <2>2. QED
    BY <1>1, <1>18, <2>1
       DEF CountDone, TypeOK, ScanoutTypeOK, scanoutVars, kernelVars, routeVars,
           rangeVars, ghostVars
<1>19. ASSUME NEW i \in 0..NumConnectors, GetSupportedModes(i)
       PROVE  TypeOK' /\ AtConnector'
  BY <1>1, <1>19
     DEF GetSupportedModes, TypeOK, ScanoutTypeOK, kernelVars, routeVars, rangeVars,
         callVars
<1>20. QED
  BY <1>1, <1>2, <1>3, <1>4, <1>5, <1>6, <1>7, <1>8, <1>9, <1>10, <1>11, <1>12,
     <1>13, <1>14, <1>15, <1>16, <1>17, <1>18, <1>19
     DEF Next, Handler, Kernel

(* Every variable has its type in every state reached; in particular a     *)
(* CRTC record never holds two connectors, whatever the encoder masks.     *)
THEOREM TypeCorrect == Spec => []TypeOK
<1>1. Spec => [](TypeOK /\ AtConnector)
  BY TypeInit, TypeNext, PTL DEF Spec
<1>2. QED
  BY <1>1, PTL

LEMMA TypeAlways == Spec => [](TypeOK /\ AtConnector)
  BY TypeInit, TypeNext, PTL DEF Spec

-----------------------------------------------------------------------------
(* What setActiveMode does to the process and to the pictures.             *)

LEMMA SetActiveModeAlive ==
    ASSUME NEW c, NEW s, NEW ok, SetActiveMode(c, s, ok)
    PROVE  (alive' = alive /\ sound' = sound) \/ ~sound'
<1>1. CASE connectors[c] = {}
  BY <1>1 DEF SetActiveMode, scanoutVars
<1>2. CASE connectors[c] # {} /\ Unsupported(c, s)
  BY <1>2 DEF SetActiveMode, scanoutVars
<1>3. CASE connectors[c] # {} /\ ~Unsupported(c, s)
  <2>1. (\E off : Shown(c, s, off)) \/ Refused(c) \/ NoBuffer(c) \/ HeapCorrupted
    BY <1>3 DEF SetActiveMode
  <2>2. QED
    BY <2>1 DEF Shown, Refused, NoBuffer, HeapCorrupted
<1>4. QED
  BY <1>1, <1>2, <1>3

LEMMA SetActiveModePicture ==
    ASSUME NEW c \in Crtc, NEW s, NEW ok, SetActiveMode(c, s, ok)
    PROVE  \A d \in Crtc : picture'[d] = picture[d] \/ picture'[d] = Dark
                           \/ (d = c /\ picture'[d] = s)
<1>1. ASSUME NEW q, NEW off, Repaint(c, q, off)
      PROVE  \A d \in Crtc : picture'[d] = picture[d] \/ picture'[d] = Dark
                             \/ (d = c /\ picture'[d] = q)
  BY <1>1 DEF Repaint
<1>2. CASE connectors[c] = {}
  BY <1>2 DEF SetActiveMode, scanoutVars
<1>3. CASE connectors[c] # {} /\ Unsupported(c, s)
  BY <1>3 DEF SetActiveMode, scanoutVars
<1>4. CASE connectors[c] # {} /\ ~Unsupported(c, s)
  <2>1. (\E off : Shown(c, s, off)) \/ Refused(c) \/ NoBuffer(c) \/ HeapCorrupted
    BY <1>4 DEF SetActiveMode
  <2>2. CASE \E off : Shown(c, s, off)
    BY <1>1, <2>2 DEF Shown
  <2>3. CASE Refused(c) \/ NoBuffer(c)
    BY <1>1, <2>3 DEF Refused, NoBuffer
  <2>4. CASE HeapCorrupted
    BY <2>4 DEF HeapCorrupted
  <2>5. QED
    BY <2>1, <2>2, <2>3, <2>4
<1>5. QED
  BY <1>2, <1>3, <1>4

-----------------------------------------------------------------------------
(* Hotplug and crashes.  The strengthening: between the two reads of a     *)
(* connector the display is still there or was unplugged in between, and   *)
(* an event without a node in the queue has been met.                      *)
CrashInv == /\ CrashCause
            /\ pc = "range" /\ alive => Plugged(at) \/ "unplug" \in met
            /\ \A i \in DOMAIN queue : queue[i] = "nameless" => "nameless" \in met

(* What waits in the queue after an event was sent, and after one was      *)
(* taken out.                                                              *)
LEMMA NotifyKeeps ==
    ASSUME TypeOK, NEW n \in Node, Notify(n)
    PROVE  \A i \in DOMAIN queue' :
             queue'[i] = n \/ \E j \in DOMAIN queue : queue'[i] = queue[j]
<1>1. queue \in Seq(Node)
  BY DEF TypeOK
<1>2. CASE Len(queue) < MaxQueue
  BY <1>1, <1>2 DEF Notify
<1>3. CASE ~(Len(queue) < MaxQueue)
  BY <1>1, <1>3 DEF Notify
<1>4. QED
  BY <1>2, <1>3

LEMMA TailKeeps ==
    ASSUME TypeOK, queue # <<>>
    PROVE  /\ \E j \in DOMAIN queue : Head(queue) = queue[j]
           /\ \A i \in DOMAIN Tail(queue) :
                \E j \in DOMAIN queue : Tail(queue)[i] = queue[j]
<1>1. queue \in Seq(Node) /\ Len(queue) \in Nat /\ Len(queue) # 0
  BY DEF TypeOK
<1>2. 1 \in DOMAIN queue /\ Head(queue) = queue[1]
  BY <1>1
<1>3. ASSUME NEW i \in DOMAIN Tail(queue)
      PROVE  i + 1 \in DOMAIN queue /\ Tail(queue)[i] = queue[i + 1]
  BY <1>1, <1>3
<1>4. QED
  BY <1>2, <1>3

LEMMA CrashNext == TypeOK /\ AtConnector /\ CrashInv /\ [Next]_vars => CrashInv'
<1>1. SUFFICES ASSUME TypeOK, AtConnector, CrashInv, [Next]_vars PROVE CrashInv'
  OBVIOUS
(* Steps that leave the queue, the history and the connectors alone. *)
<1>2. ASSUME queue' = queue, met' = met, kmodes' = kmodes,
             (alive' = alive /\ sound' = sound) \/ (alive /\ ~sound'),
             pc' # "range" \/ (pc' = pc /\ at' = at)
      PROVE  CrashInv'
  BY <1>1, <1>2 DEF CrashInv, CrashCause, Plugged
<1>3. CASE UNCHANGED vars
  BY <1>2, <1>3 DEF vars, scanoutVars, kernelVars, ghostVars
<1>4. CASE SetupRead
  <2>1. /\ queue' = queue /\ met' = met /\ kmodes' = kmodes
        /\ alive' = alive /\ sound' = sound /\ pc = "setup"
        /\ (pc' = "range" /\ at' = at /\ Plugged(at)) \/ pc' = pc
    BY <1>4 DEF SetupRead, Usable, scanoutVars, kernelVars
  <2>2. QED
    BY <1>1, <2>1 DEF CrashInv, CrashCause, Plugged
<1>5. CASE SetupRange /\ alive
  BY <1>1, <1>5 DEF SetupRange, CrashInv, CrashCause, Plugged, kernelVars, ghostVars
<1>6. CASE SetupDone \/ BootDone \/ CountDone \/ NoDisplay \/ GetSupportedNumConnector
           \/ \E r \in Request : ChangeMode(r)
  BY <1>2, <1>6 DEF SetupDone, BootDone, CountDone, NoDisplay, GetSupportedNumConnector,
                    ChangeMode, scanoutVars, kernelVars, ghostVars
<1>7. CASE BootActivate /\ alive
  <2>1. PICK c \in todo, ok \in BOOLEAN : SetActiveMode(c, maxSize[c], ok)
    BY <1>7 DEF BootActivate
  <2>2. (alive' = alive /\ sound' = sound) \/ ~sound'
    BY <2>1, SetActiveModeAlive
  <2>3. QED
    BY <1>2, <1>7, <2>2 DEF BootActivate, ghostVars
<1>8. CASE CountConnector \/ FindDisplay
  BY <1>2, <1>8 DEF CountConnector, FindDisplay, scanoutVars, kernelVars, ghostVars
<1>9. ASSUME NEW ok \in BOOLEAN, ApplyMode(ok), alive
      PROVE  CrashInv'
  <2>1. (alive' = alive /\ sound' = sound) \/ ~sound'
    <3>1. CASE target = NoCrtc
      BY <1>9, <3>1 DEF ApplyMode, scanoutVars
    <3>2. CASE target # NoCrtc
      <4>1. SetActiveMode(target, req.win, ok)
        BY <1>9, <3>2 DEF ApplyMode
      <4>2. QED
        BY <4>1, SetActiveModeAlive
    <3>3. QED
      BY <3>1, <3>2
  <2>2. QED
    BY <1>2, <1>9, <2>1 DEF ApplyMode, ghostVars
<1>10. ASSUME NEW i \in 0..NumConnectors, GetSupportedModes(i)
       PROVE  CrashInv'
  <2>1. /\ queue' = queue /\ kmodes' = kmodes /\ sound' = sound /\ pc' = pc /\ at' = at
        /\ (alive' = alive /\ met' = met) \/ (alive' = FALSE /\ met' = met \cup {"index"})
    BY <1>10 DEF GetSupportedModes, kernelVars
  <2>2. QED
    BY <1>1, <2>1 DEF CrashInv, CrashCause, Plugged
<1>11. CASE PollDRIDevices
  <2>1. /\ queue # <<>> /\ queue' = Tail(queue) /\ kmodes' = kmodes /\ met' = met
        /\ sound' = sound /\ pc' # "range"
        /\ alive' = alive \/ Head(queue) = "nameless"
    BY <1>11 DEF PollDRIDevices
  <2>2. Head(queue) = "nameless" => "nameless" \in met
    BY <1>1, <2>1, TailKeeps DEF CrashInv
  <2>3. \A i \in DOMAIN queue' : queue'[i] = "nameless" => "nameless" \in met
    BY <1>1, <2>1, TailKeeps DEF CrashInv
  <2>4. CrashCause'
    BY <1>1, <2>1, <2>2 DEF CrashInv, CrashCause
  <2>5. QED
    BY <2>1, <2>3, <2>4 DEF CrashInv
<1>12. ASSUME NEW k \in Connector, NEW m \in ModeLists, Plug(k, m)
       PROVE  CrashInv'
  <2>1. m # <<>>
    BY CardAssumption
  <2>2. \A j \in Connector : Plugged(j) => Plugged(j)'
    BY <1>1, <1>12, <2>1 DEF Plug, Plugged, TypeOK
  <2>3. \A i \in DOMAIN queue' : queue'[i] = "nameless" => "nameless" \in met
    BY <1>1, <1>12, NotifyKeeps DEF Plug, Node, CrashInv
  <2>4. QED
    BY <1>1, <1>12, <2>2, <2>3 DEF Plug, scanoutVars, AtConnector, CrashInv, CrashCause
<1>13. ASSUME NEW k \in Connector, Unplug(k)
       PROVE  CrashInv'
  <2>1. \A j \in Connector : j # k /\ Plugged(j) => Plugged(j)'
    BY <1>1, <1>13 DEF Unplug, Plugged, TypeOK
  <2>2. /\ met' = IF pc = "range" /\ at = k THEN met \cup {"unplug"} ELSE met
        /\ alive' = alive /\ sound' = sound /\ pc' = pc /\ at' = at
    BY <1>13 DEF Unplug, scanoutVars
  <2>3. \A i \in DOMAIN queue' : queue'[i] = "nameless" => "nameless" \in met
    BY <1>1, <1>13, NotifyKeeps DEF Unplug, Node, CrashInv
  <2>4. QED
    BY <1>1, <2>1, <2>2, <2>3 DEF AtConnector, CrashInv, CrashCause
<1>14. CASE OtherEvent
  <2>1. PICK n \in OtherNodes :
          Notify(n) /\ met' = IF n = "nameless" THEN met \cup {n} ELSE met
    BY <1>14 DEF OtherEvent
  <2>2. n \in Node
    BY CardAssumption
  <2>3. \A i \in DOMAIN queue' : queue'[i] = "nameless" => "nameless" \in met'
    BY <1>1, <2>1, <2>2, NotifyKeeps DEF CrashInv
  <2>4. /\ kmodes' = kmodes /\ alive' = alive /\ sound' = sound /\ pc' = pc /\ at' = at
        /\ met \subseteq met'
    BY <1>14, <2>1 DEF OtherEvent, scanoutVars
  <2>5. QED
    BY <1>1, <2>3, <2>4 DEF CrashInv, CrashCause, Plugged
<1>15. QED
  BY <1>1, <1>3, <1>4, <1>5, <1>6, <1>7, <1>8, <1>9, <1>10, <1>11, <1>12, <1>13, <1>14
     DEF Next, Handler, Kernel

(* The four causes of CrashCause are all there are: whatever else is       *)
(* plugged, unplugged, sent, lost, refused or called, in whatever order,   *)
(* the process stays up.                                                   *)
THEOREM CrashesHaveCauses == Spec => []CrashCause
<1>1. Init => CrashInv
  BY DEF Init, ScanoutInit, CrashInv, CrashCause
<1>2. Spec => []CrashInv
  BY <1>1, CrashNext, TypeAlways, PTL DEF Spec
<1>3. CrashInv => CrashCause
  BY DEF CrashInv
<1>4. QED
  BY <1>2, <1>3, PTL

-----------------------------------------------------------------------------
(* The configured maximum.                                                 *)

LEMMA CapNext == TypeOK /\ AtConnector /\ CapOneDimension /\ [Next]_vars => CapOneDimension'
<1> USE DEF CapOneDimension
<1>1. SUFFICES ASSUME TypeOK, AtConnector, CapOneDimension, [Next]_vars
               PROVE  CapOneDimension'
  OBVIOUS
<1>2. ASSUME picture' = picture, maxSize' = maxSize
      PROVE  CapOneDimension'
  BY <1>1, <1>2
<1>3. CASE SetupRange
  <2>1. at \in Connector /\ crtc_id[at] \in Crtc /\ picture' = picture
    BY <1>1, <1>3 DEF SetupRange, AtConnector
  <2>2. CASE Plugged(at)
    <3>1. maxSize' = [maxSize EXCEPT ![crtc_id[at]] = Capped(kmodes[at][1])]
      BY <1>3, <2>2 DEF SetupRange, GetModeRange
    <3>2. kmodes[at][1] \in Size
      BY <1>1, <2>1, <2>2, ModesAreSizes DEF Plugged, TypeOK
    <3>3. \/ Capped(kmodes[at][1]).w <= InitialMode.w
          \/ Capped(kmodes[at][1]).h <= InitialMode.h
      BY <3>2, CappedFits
    <3>4. QED
      BY <1>1, <2>1, <3>1, <3>3 DEF TypeOK
  <2>3. CASE ~Plugged(at)
    BY <1>2, <1>3, <2>1, <2>3 DEF SetupRange, rangeVars
  <2>4. QED
    BY <2>2, <2>3
<1>4. CASE BootActivate
  <2>1. PICK c \in todo, ok \in BOOLEAN : SetActiveMode(c, maxSize[c], ok)
    BY <1>4 DEF BootActivate
  <2>2. c \in Crtc
    BY <1>1, <2>1 DEF TypeOK
  <2>3. \A d \in Crtc : picture'[d] = picture[d] \/ picture'[d] = Dark
                        \/ (d = c /\ picture'[d] = maxSize[c])
    BY <2>1, <2>2, SetActiveModePicture
  <2>4. maxSize' = maxSize
    BY <1>4 DEF BootActivate, rangeVars
  <2>5. QED
    BY <1>1, <2>3, <2>4
<1>5. ASSUME NEW ok \in BOOLEAN, ApplyMode(ok)
      PROVE  CapOneDimension'
  <2>1. CASE target = NoCrtc
    BY <1>2, <1>5, <2>1 DEF ApplyMode, scanoutVars
  <2>2. CASE target # NoCrtc
    <3>1. target \in Crtc /\ req.win.w <= InitialMode.w
      BY <1>1, <2>2, SizeAssumption DEF TypeOK, Request, NoRequest, IsValidMode, Within
    <3>2. SetActiveMode(target, req.win, ok)
      BY <1>5, <2>2 DEF ApplyMode
    <3>3. \A d \in Crtc : picture'[d] = picture[d] \/ picture'[d] = Dark
                          \/ (d = target /\ picture'[d] = req.win)
      BY <3>1, <3>2, SetActiveModePicture
    <3>4. \A d \in Crtc : maxSize'[d] = maxSize[d] \/ maxSize'[d] = req.win
      BY <1>1, <1>5, <2>2, <3>1 DEF ApplyMode, TypeOK
    <3>5. QED
      BY <1>1, <3>1, <3>3, <3>4
  <2>3. QED
    BY <2>1, <2>2
<1>6. CASE UNCHANGED vars \/ SetupRead \/ SetupDone \/ BootDone \/ FindDisplay \/ NoDisplay
  BY <1>2, <1>6 DEF vars, SetupRead, SetupDone, BootDone, FindDisplay, NoDisplay,
                    scanoutVars, rangeVars
<1>11. CASE GetSupportedNumConnector \/ CountConnector \/ CountDone
  BY <1>2, <1>11 DEF GetSupportedNumConnector, CountConnector, CountDone, scanoutVars,
                     rangeVars
<1>7. ASSUME NEW r \in Request, ChangeMode(r)
      PROVE  CapOneDimension'
  BY <1>2, <1>7 DEF ChangeMode, scanoutVars, rangeVars
<1>8. CASE PollDRIDevices \/ OtherEvent
  BY <1>2, <1>8 DEF PollDRIDevices, OtherEvent, scanoutVars, rangeVars
<1>9. ASSUME NEW k \in Connector, Unplug(k) \/ \E m \in ModeLists : Plug(k, m)
      PROVE  CapOneDimension'
  BY <1>2, <1>9 DEF Unplug, Plug, scanoutVars, rangeVars
<1>12. ASSUME NEW i \in 0..NumConnectors, GetSupportedModes(i)
       PROVE  CapOneDimension'
  BY <1>2, <1>12 DEF GetSupportedModes, rangeVars
<1>10. QED
  BY <1>1, <1>3, <1>4, <1>5, <1>6, <1>7, <1>8, <1>9, <1>11, <1>12 DEF Next, Handler, Kernel

(* No CRTC's range and no picture exceeds the configured maximum in both   *)
(* dimensions, whatever the displays report.                               *)
THEOREM NeverExceedsBoth == Spec => []CapOneDimension
<1>1. Init => CapOneDimension
  <2>1. Zero.w <= InitialMode.w
    BY SizeAssumption DEF Zero
  <2>2. QED
    BY <2>1 DEF Init, ScanoutInit, CapOneDimension
<1>2. QED
  BY <1>1, CapNext, TypeAlways, PTL DEF Spec

-----------------------------------------------------------------------------
(* Routing, on a card whose boot routes are the ones findCrtc would choose *)
(* itself.  vc4 is one: each HDMI encoder has a single possible CRTC.  The *)
(* strengthening says that every map names the same CRTC for a connector.  *)

KernelRoutes == \A k \in Connector : kroute[k] \in {NoEncoder, NoCrtc, FallbackCrtc(k)}
ReadsFallback == \A k \in Connector :
    /\ Misread(k) \subseteq {NoCrtc, FallbackCrtc(k)}
    /\ k \in Flaky => kroute[k] # NoCrtc
GivenCrtcs   == \A k \in Connector : crtc_id[k] \in {NoCrtc, FallbackCrtc(k)}
TargetGiven  == pc = "apply" /\ target # NoCrtc =>
                   req.path + 1 \in Connector /\ target = crtc_id[req.path + 1]

RouteInv == RouteInverse /\ KernelRoutes /\ ReadsFallback /\ GivenCrtcs /\ TargetGiven

LEMMA NotACrtc == NoCrtc \notin Crtc /\ NoEncoder \notin Crtc /\ NoEncoder # NoCrtc
  BY CrtcAssumption DEF NoCrtc, NoEncoder

LEMMA FindGivesFallback ==
    ASSUME KernelRoutes, ReadsFallback, NEW k \in Connector,
           NEW c \in {FindCrtc(k)} \cup Misread(k), c # NoCrtc
    PROVE  c = FallbackCrtc(k)
  BY DEF KernelRoutes, ReadsFallback, FindCrtc

(* The connectors recorded in a CRTC are those that would be given it. *)
LEMMA RecordedIsFallback ==
    ASSUME RouteInv, NEW c \in Crtc, NEW k \in Connector, k \in connectors[c]
    PROVE  crtc_id[k] = c /\ FallbackCrtc(k) = c
  BY NotACrtc DEF RouteInv, RouteInverse, GivenCrtcs

LEMMA SetActiveModeRoute ==
    ASSUME TypeOK, RouteInv, NEW c \in Crtc, NEW s, NEW ok, SetActiveMode(c, s, ok)
    PROVE  KernelRoutes' /\ ReadsFallback'
<1>1. ASSUME NEW on, Reroute(c, on), \A k \in Connector : k \in on => FallbackCrtc(k) = c
      PROVE  KernelRoutes' /\ ReadsFallback'
  <2>1. ASSUME NEW k \in Connector
        PROVE  /\ kroute'[k] \in {NoEncoder, NoCrtc, FallbackCrtc(k)}
               /\ k \in Flaky => kroute'[k] # NoCrtc
    <3>1. (kroute'[k] = c /\ k \in on) \/ kroute'[k] = NoEncoder \/ kroute'[k] = kroute[k]
      BY <1>1 DEF Reroute
    <3>2. QED
      BY <1>1, <3>1, NotACrtc DEF RouteInv, KernelRoutes, ReadsFallback
  <2>2. QED
    BY <2>1, FallbackFixed DEF RouteInv, KernelRoutes, ReadsFallback
<1>2. CASE UNCHANGED kroute
  BY <1>2, FallbackFixed DEF RouteInv, KernelRoutes, ReadsFallback
<1>3. Reroute(c, connectors[c]) \/ Reroute(c, {}) \/ UNCHANGED kroute
  BY DEF SetActiveMode, ConnIds
<1>4. \A k \in Connector : k \in connectors[c] => FallbackCrtc(k) = c
  BY RecordedIsFallback
<1>5. QED
  BY <1>1, <1>2, <1>3, <1>4

LEMMA RouteNext == TypeOK /\ AtConnector /\ RouteInv /\ [Next]_vars => RouteInv'
<1>1. SUFFICES ASSUME TypeOK, AtConnector, RouteInv, [Next]_vars PROVE RouteInv'
  OBVIOUS
<1>2. ASSUME routeVars' = routeVars, kroute' = kroute
      PROVE  /\ \A c \in Crtc, k \in Connector : k \in connectors'[c] => crtc_id'[k] = c
             /\ KernelRoutes' /\ ReadsFallback' /\ GivenCrtcs'
  BY <1>1, <1>2, FallbackFixed
     DEF RouteInv, RouteInverse, KernelRoutes, ReadsFallback, GivenCrtcs, routeVars
<1>3. ASSUME routeVars' = routeVars, kroute' = kroute,
             (pc' # "range" /\ pc # "range") \/ (pc' = pc /\ at' = at),
             pc' # "apply" \/ (pc' = pc /\ target' = target /\ req' = req)
      PROVE  RouteInv'
  BY <1>1, <1>2, <1>3 DEF RouteInv, RouteInverse, TargetGiven, routeVars
<1>4. CASE UNCHANGED vars
  BY <1>3, <1>4 DEF vars, kernelVars, callVars
<1>5. CASE SetupRead
  <2>1. /\ at \in Connector /\ pc = "setup" /\ connectors' = connectors
        /\ kroute' = kroute
    BY <1>5 DEF SetupRead, kernelVars
  <2>5. PICK c \in {FindCrtc(at)} \cup Misread(at) :
          IF Usable(at, c)
          THEN crtc_id' = [crtc_id EXCEPT ![at] = c] /\ pc' = "range" /\ at' = at
          ELSE crtc_id' = crtc_id /\ pc' = pc
    BY <1>5 DEF SetupRead
  <2>2. CASE Usable(at, c)
    <3>1. crtc_id' = [crtc_id EXCEPT ![at] = c] /\ pc' = "range" /\ at' = at
      BY <2>2, <2>5
    <3>2. c = FallbackCrtc(at) /\ c # NoCrtc
      BY <1>1, <2>1, <2>2, FindGivesFallback DEF Usable, RouteInv
    <3>3. \A k \in Connector : k # at => crtc_id'[k] = crtc_id[k]
      BY <1>1, <2>1, <3>1 DEF TypeOK
    <3>4. crtc_id'[at] = FallbackCrtc(at)
      BY <1>1, <2>1, <3>1, <3>2 DEF TypeOK
    <3>5. ASSUME NEW d \in Crtc, NEW k \in Connector, k \in connectors[d]
          PROVE  crtc_id'[k] = d
      BY <1>1, <3>3, <3>4, <3>5, RecordedIsFallback
    <3>6. KernelRoutes' /\ ReadsFallback' /\ GivenCrtcs'
      BY <1>1, <2>1, <3>3, <3>4, FallbackFixed
         DEF RouteInv, KernelRoutes, ReadsFallback, GivenCrtcs
    <3>7. ASSUME NEW k \in Connector, crtc_id'[k] # NoCrtc, k # at
          PROVE  connectors'[crtc_id'[k]] # {}
      BY <1>1, <2>1, <3>3, <3>7 DEF RouteInv, RouteInverse
    <3>8. RouteInverse'
      BY <2>1, <3>1, <3>5, <3>7 DEF RouteInverse
    <3>9. QED
      BY <3>1, <3>6, <3>8 DEF RouteInv, TargetGiven
  <2>3. CASE ~Usable(at, c)
    BY <1>3, <1>5, <2>1, <2>3, <2>5 DEF SetupRead, routeVars
  <2>4. QED
    BY <2>2, <2>3
<1>6. CASE SetupRange
  <2>1. /\ at \in Connector /\ crtc_id[at] \in Crtc
        /\ crtc_id' = crtc_id /\ kroute' = kroute /\ pc = "range"
    BY <1>1, <1>6 DEF SetupRange, AtConnector, kernelVars
  <2>2. CASE Plugged(at)
    <3>1. connectors' = [connectors EXCEPT ![crtc_id[at]] = {at}] /\ pc' = "setup"
      BY <1>6, <2>2 DEF SetupRange, Linked
    <3>2. \A c \in Crtc : connectors'[c] = IF c = crtc_id[at] THEN {at} ELSE connectors[c]
      BY <1>1, <2>1, <3>1 DEF TypeOK
    <3>3. \A k \in Connector : crtc_id[k] # NoCrtc => connectors'[crtc_id[k]] # {}
      BY <1>1, <2>1, <3>2 DEF RouteInv, RouteInverse, TypeOK
    <3>4. \A c \in Crtc, k \in Connector : k \in connectors'[c] => crtc_id[k] = c
      BY <1>1, <3>2 DEF RouteInv, RouteInverse
    <3>5. RouteInverse'
      BY <2>1, <3>1, <3>3, <3>4 DEF RouteInverse
    <3>6. KernelRoutes' /\ ReadsFallback' /\ GivenCrtcs'
      BY <1>1, <2>1, FallbackFixed DEF RouteInv, KernelRoutes, ReadsFallback, GivenCrtcs
    <3>7. QED
      BY <3>1, <3>5, <3>6 DEF RouteInv, TargetGiven
  <2>3. CASE ~Plugged(at)
    BY <1>3, <1>6, <2>1, <2>3 DEF SetupRange, routeVars
  <2>4. QED
    BY <2>2, <2>3
<1>7. CASE SetupDone
  BY <1>3, <1>7 DEF SetupDone, kernelVars
<1>8. CASE BootActivate
  <2>1. PICK c \in todo, ok \in BOOLEAN : SetActiveMode(c, maxSize[c], ok)
    BY <1>8 DEF BootActivate
  <2>2. c \in Crtc
    BY <1>1, <2>1 DEF TypeOK
  <2>3. KernelRoutes' /\ ReadsFallback'
    BY <1>1, <2>1, <2>2, SetActiveModeRoute
  <2>4. QED
    BY <1>1, <1>8, <2>3, FallbackFixed
       DEF BootActivate, RouteInv, RouteInverse, GivenCrtcs, TargetGiven, routeVars
<1>9. CASE BootDone
  BY <1>3, <1>9 DEF BootDone, kernelVars
<1>10. CASE FindDisplay
  <2>1. at \in Connector /\ routeVars' = routeVars /\ kroute' = kroute /\ req' = req
    BY <1>10 DEF FindDisplay, kernelVars
  <2>2. CASE Plugged(at) /\ OnPath(at)
    <3>1. /\ at = req.path + 1 /\ target' = crtc_id[at]
          /\ pc' = "apply" /\ pc = "find"
      BY <1>10, <2>2 DEF FindDisplay, OnPath
    <3>2. RouteInverse'
      BY <1>1, <2>1, <3>1 DEF RouteInv, RouteInverse, routeVars
    <3>3. QED
      BY <1>2, <2>1, <3>1, <3>2 DEF RouteInv, TargetGiven, routeVars
  <2>3. CASE ~(Plugged(at) /\ OnPath(at))
    BY <1>3, <1>10, <2>1, <2>3 DEF FindDisplay
  <2>4. QED
    BY <2>2, <2>3
<1>11. CASE NoDisplay
  <2>1. /\ routeVars' = routeVars /\ kroute' = kroute
        /\ pc = "find" /\ pc' = "apply" /\ target' = NoCrtc
    BY <1>11 DEF NoDisplay, kernelVars
  <2>2. RouteInverse'
    BY <1>1, <2>1 DEF RouteInv, RouteInverse, routeVars
  <2>3. QED
    BY <1>2, <2>1, <2>2 DEF RouteInv, TargetGiven
<1>12. ASSUME NEW ok \in BOOLEAN, ApplyMode(ok)
       PROVE  RouteInv'
  <2>1. KernelRoutes' /\ ReadsFallback'
    <3>1. CASE target = NoCrtc
      BY <1>1, <1>12, <3>1, FallbackFixed DEF ApplyMode, RouteInv, KernelRoutes, ReadsFallback
    <3>2. CASE target # NoCrtc
      <4>1. SetActiveMode(target, req.win, ok)
        BY <1>12, <3>2 DEF ApplyMode
      <4>2. target \in Crtc
        BY <1>1, <3>2 DEF TypeOK
      <4>3. QED
        BY <1>1, <4>1, <4>2, SetActiveModeRoute
    <3>3. QED
      BY <3>1, <3>2
  <2>2. pc = "apply" /\ pc' = "idle" /\ routeVars' = routeVars
    BY <1>12 DEF ApplyMode
  <2>3. QED
    BY <1>1, <2>1, <2>2, FallbackFixed
       DEF RouteInv, RouteInverse, GivenCrtcs, TargetGiven, routeVars
<1>13. ASSUME NEW r \in Request, ChangeMode(r)
       PROVE  RouteInv'
  BY <1>3, <1>13 DEF ChangeMode, kernelVars
<1>14. CASE PollDRIDevices
  BY <1>3, <1>14 DEF PollDRIDevices, callVars
<1>15. CASE OtherEvent
  BY <1>3, <1>15 DEF OtherEvent, callVars
<1>16. ASSUME NEW k \in Connector, Unplug(k) \/ \E m \in ModeLists : Plug(k, m)
       PROVE  RouteInv'
  BY <1>3, <1>16 DEF Unplug, Plug, callVars
<1>17. CASE GetSupportedNumConnector \/ CountConnector \/ CountDone
  BY <1>3, <1>17 DEF GetSupportedNumConnector, CountConnector, CountDone, kernelVars
<1>18. ASSUME NEW i \in 0..NumConnectors, GetSupportedModes(i)
       PROVE  RouteInv'
  BY <1>3, <1>18 DEF GetSupportedModes, kernelVars, callVars
<1>19. QED
  BY <1>1, <1>4, <1>5, <1>6, <1>7, <1>8, <1>9, <1>10, <1>11, <1>12, <1>13, <1>14,
     <1>15, <1>16, <1>17, <1>18
     DEF Next, Handler, Kernel

LEMMA RouteAlways ==
    ASSUME Pinned
    PROVE  Spec => []RouteInv
<1>1. Init => RouteInv
  BY NotACrtc DEF Pinned, Init, RouteInv, RouteInverse, KernelRoutes, ReadsFallback,
                  GivenCrtcs, TargetGiven
<1>2. QED
  BY <1>1, RouteNext, TypeAlways, PTL DEF Spec

(* The two maps of the routing stay inverse to each other through plug,    *)
(* unplug, mode changes, refused modes and failed allocations.             *)
THEOREM RoutesAgree == ASSUME Pinned PROVE Spec => []RouteInverse
<1>1. RouteInv => RouteInverse
  BY DEF RouteInv
<1>2. QED
  BY <1>1, RouteAlways, PTL

(* Where no two connectors share a CRTC, a mode change programs the        *)
(* display of the path it was given, and that display alone.               *)
THEOREM ProgramsItsDisplay == ASSUME Pinned, Disjoint PROVE Spec => []DisplayAddressed
<1>1. TypeOK /\ RouteInv => DisplayAddressed
  <2>1. SUFFICES ASSUME TypeOK, RouteInv, pc = "apply", target # NoCrtc
                 PROVE  connectors[target] = {req.path + 1}
    BY DEF DisplayAddressed
  <2> DEFINE p == req.path + 1
  <2>2. p \in Connector /\ target = crtc_id[p] /\ target \in Crtc
    BY <2>1 DEF RouteInv, TargetGiven, TypeOK
  <2>3. connectors[target] # {}
    BY <2>1, <2>2 DEF RouteInv, RouteInverse
  <2>4. FallbackCrtc(p) = target
    BY <2>1, <2>2, NotACrtc DEF RouteInv, GivenCrtcs
  <2>5. ASSUME NEW k \in connectors[target]
        PROVE  k = p
    <3>1. k \in Connector
      BY <2>1, <2>2, ConnectorsType
    <3>2. FallbackCrtc(k) = target
      BY <2>1, <2>2, <3>1, RecordedIsFallback
    <3>3. QED
      BY <2>1, <2>2, <2>4, <3>1, <3>2 DEF Disjoint
  <2>6. QED
    BY <2>3, <2>5
<1>2. QED
  BY <1>1, RouteAlways, TypeAlways, PTL

-----------------------------------------------------------------------------
(* Mode sets, on a card whose encoders can drive several CRTCs.  A         *)
(* connector that boots away from the CRTC findCrtc would choose stays     *)
(* there until the kernel drops that route; set-up then moves it, for      *)
(* good, and the record of the CRTC it left goes stale.  r is the route at *)
(* boot.                                                                   *)

Away(r, k) == r[k] \in Crtc \ {FallbackCrtc(k)}
Moved(k)   == crtc_id[k] \in Crtc /\ crtc_id[k] = FallbackCrtc(k)

(* The CRTC connector k has, or will be given. *)
Home(r, k) == IF Away(r, k) /\ ~Moved(k) THEN r[k] ELSE FallbackCrtc(k)

HomeRoutes(r) == \A k \in Connector :
    /\ kroute[k] \in {NoEncoder, NoCrtc, Home(r, k)}
    /\ crtc_id[k] \in {NoCrtc, Home(r, k)}

(* A record is stale only at a CRTC its connector booted on and has left.  *)
Records(r) == \A c \in Crtc, k \in Connector : k \in connectors[c] =>
    c = Home(r, k) \/ (Away(r, k) /\ Moved(k) /\ c = r[k])

(* Nothing has moved before the constructor is done. *)
AtBoot(r) ==
    /\ booting => pc \in {"setup", "range", "activate"}
    /\ pc = "activate" => booting
    /\ booting /\ pc # "activate" => kroute = r
    /\ booting => \A k \in Connector : Away(r, k) => ~Moved(k)

StealInv(r) == HomeRoutes(r) /\ Records(r) /\ AtBoot(r) /\ TargetGiven

LEMMA HomeSame ==
    ASSUME NEW r, NEW k, crtc_id'[k] = crtc_id[k]
    PROVE  /\ (Away(r, k)' <=> Away(r, k)) /\ (Moved(k)' <=> Moved(k))
           /\ Home(r, k)' = Home(r, k)
  BY FallbackFixed DEF Away, Moved, Home

(* The connectors in the record of a CRTC about to be programmed are at    *)
(* home there.  This is where Unshared is needed: the CRTC a moved         *)
(* connector has left is no other connector's.                             *)
LEMMA ProgrammedHome ==
    ASSUME Unshared, TypeOK, NEW r \in BootRoute, StealInv(r), NEW c \in Crtc,
           Programming(c), NEW k \in connectors[c]
    PROVE  k \in Connector /\ c = Home(r, k)
<1>1. k \in Connector
  BY ConnectorsType
<1>2. SUFFICES ASSUME Away(r, k), Moved(k), c = r[k] PROVE FALSE
  BY <1>1 DEF StealInv, Records
<1>3. pc = "apply" /\ c = target /\ target # NoCrtc
  BY <1>1, <1>2, NotACrtc DEF StealInv, AtBoot, Programming
<1> DEFINE p == req.path + 1
<1>4. p \in Connector /\ c = crtc_id[p]
  BY <1>3 DEF StealInv, TargetGiven
<1>5. c = Home(r, p)
  BY <1>3, <1>4 DEF StealInv, HomeRoutes
<1>6. p # k
  BY <1>2, <1>4 DEF Away, Moved
<1>7. r[p] # r[k] /\ FallbackCrtc(p) # r[k]
  BY <1>1, <1>2, <1>4, <1>6 DEF Unshared, Away
<1>8. QED
  BY <1>2, <1>5, <1>7 DEF Home

LEMMA TargetNext == TypeOK /\ TargetGiven /\ [Next]_vars => TargetGiven'
<1>1. SUFFICES ASSUME TypeOK, TargetGiven, [Next]_vars, pc' = "apply", target' # NoCrtc
               PROVE  req'.path + 1 \in Connector /\ target' = crtc_id'[req'.path + 1]
  BY DEF TargetGiven
<1>2. CASE pc' = pc /\ target' = target /\ req' = req /\ crtc_id' = crtc_id
  BY <1>1, <1>2 DEF TargetGiven
<1>3. CASE UNCHANGED vars
  BY <1>2, <1>3 DEF vars, callVars, routeVars
<1>4. CASE SetupRead \/ SetupRange \/ SetupDone \/ BootActivate \/ BootDone
  BY <1>1, <1>4 DEF SetupRead, SetupRange, SetupDone, BootActivate, BootDone
<1>5. CASE CountConnector \/ CountDone \/ GetSupportedNumConnector
  BY <1>1, <1>5 DEF CountConnector, CountDone, GetSupportedNumConnector
<1>6. CASE FindDisplay
  BY <1>1, <1>6 DEF FindDisplay, OnPath, routeVars
<1>7. CASE NoDisplay \/ \E ok \in BOOLEAN : ApplyMode(ok)
  BY <1>1, <1>7 DEF NoDisplay, ApplyMode
<1>8. CASE PollDRIDevices \/ \E r \in Request : ChangeMode(r)
  BY <1>1, <1>8 DEF PollDRIDevices, ChangeMode
<1>9. CASE Kernel
  BY <1>2, <1>9 DEF Kernel, Plug, Unplug, OtherEvent, callVars, routeVars
<1>10. CASE \E i \in 0..NumConnectors : GetSupportedModes(i)
  BY <1>2, <1>10 DEF GetSupportedModes, callVars, routeVars
<1>11. QED
  BY <1>1, <1>3, <1>4, <1>5, <1>6, <1>7, <1>8, <1>9, <1>10 DEF Next, Handler

(* A mode set leaves every connector routed to its home, or to nothing.    *)
LEMMA SetActiveModeHome ==
    ASSUME Unshared, TypeOK, NEW r \in BootRoute, StealInv(r), NEW c \in Crtc,
           Programming(c), NEW s, NEW ok, SetActiveMode(c, s, ok), crtc_id' = crtc_id
    PROVE  HomeRoutes(r)'
<1>1. \A k \in Connector : Home(r, k)' = Home(r, k)
  BY HomeSame
<1>2. ASSUME NEW on, Reroute(c, on), on \in {{}, connectors[c]}, NEW k \in Connector
      PROVE  kroute'[k] \in {NoEncoder, NoCrtc, Home(r, k)}
  <2>1. (kroute'[k] = c /\ k \in on) \/ kroute'[k] = NoEncoder \/ kroute'[k] = kroute[k]
    BY <1>2 DEF Reroute
  <2>2. k \in on => c = Home(r, k)
    BY <1>2, ProgrammedHome
  <2>3. QED
    BY <2>1, <2>2 DEF StealInv, HomeRoutes
<1>3. Reroute(c, connectors[c]) \/ Reroute(c, {}) \/ kroute' = kroute
  BY DEF SetActiveMode, ConnIds
<1>4. \A k \in Connector : kroute'[k] \in {NoEncoder, NoCrtc, Home(r, k)}
  BY <1>2, <1>3 DEF StealInv, HomeRoutes
<1>5. QED
  BY <1>1, <1>4 DEF StealInv, HomeRoutes

LEMMA StealNext ==
    ASSUME Unshared, TypeOK, AtConnector, NEW r \in BootRoute, StealInv(r), [Next]_vars
    PROVE  StealInv(r)'
<1>1. TargetGiven'
  BY TargetNext DEF StealInv
(* Steps that leave the routes and the phase of the constructor. *)
<1>2. ASSUME routeVars' = routeVars, kroute' = kroute, booting' = booting,
             pc' = pc \/ (~booting /\ pc' # "activate")
      PROVE  StealInv(r)'
  <2>1. \A k \in Connector : /\ Home(r, k)' = Home(r, k) /\ (Away(r, k)' <=> Away(r, k))
                             /\ (Moved(k)' <=> Moved(k))
    BY <1>2, HomeSame DEF routeVars
  <2>2. HomeRoutes(r)' /\ Records(r)'
    BY <1>2, <2>1 DEF StealInv, HomeRoutes, Records, routeVars
  <2>3. AtBoot(r)'
    BY <1>2, <2>1 DEF StealInv, AtBoot
  <2>4. QED
    BY <1>1, <2>2, <2>3 DEF StealInv
<1>3. CASE UNCHANGED vars
  BY <1>2, <1>3 DEF vars, kernelVars
(* Unshared: every encoder is given, findCrtc reads what there is. *)
<1>15. \A k : Misread(k) = {}
  BY DEF Unshared, Misread
<1>4. ASSUME NEW j \in Connector, j = at, SetupRead, Usable(j, FindCrtc(j))
      PROVE  StealInv(r)'
  <2>1. /\ pc = "setup" /\ pc' = "range" /\ booting' = booting
        /\ kroute' = kroute /\ connectors' = connectors
        /\ crtc_id' = [crtc_id EXCEPT ![j] = FindCrtc(j)]
    BY <1>4, <1>15 DEF SetupRead, kernelVars
  <2>2. /\ crtc_id'[j] = FindCrtc(j)
        /\ \A k \in Connector \ {j} : crtc_id'[k] = crtc_id[k]
    BY <2>1 DEF TypeOK
  <2>3. \A k \in Connector \ {j} :
           /\ Home(r, k)' = Home(r, k) /\ (Away(r, k)' <=> Away(r, k))
           /\ (Moved(k)' <=> Moved(k))
    BY <2>2, HomeSame
  <2>4. FindCrtc(j) \in Crtc
    BY <1>4, <2>1, FindType DEF Usable
  <2>5. \/ crtc_id'[j] = kroute[j] /\ kroute[j] = Home(r, j)
        \/ crtc_id'[j] = FallbackCrtc(j) /\ kroute[j] = NoEncoder
    BY <2>1, <2>2, <2>4, NotACrtc DEF FindCrtc, StealInv, HomeRoutes
  <2>6. Away(r, j)' <=> Away(r, j)
    BY FallbackFixed, <2>1 DEF Away
  <2>7. Moved(j)' <=> crtc_id'[j] = FallbackCrtc(j)
    BY <2>1, <2>2, <2>4, FallbackFixed DEF Moved
  <2>8. Home(r, j)' = crtc_id'[j] /\ (Home(r, j)' = Home(r, j) \/ Moved(j)')
    BY <2>1, <2>5, <2>6, <2>7, FallbackFixed DEF Home, Moved
  <2>9. HomeRoutes(r)'
    BY <2>1, <2>2, <2>3, <2>5, <2>8 DEF StealInv, HomeRoutes
  <2>10. Records(r)'
    BY <2>1, <2>3, <2>6, <2>8, FallbackFixed DEF StealInv, Records, Home
  <2>11. booting /\ Away(r, j) => ~Moved(j)'
    BY <2>1, <2>5, <2>7, <2>4, NotACrtc DEF StealInv, AtBoot, Away, Home
  <2>12. AtBoot(r)'
    BY <2>1, <2>3, <2>6, <2>11 DEF StealInv, AtBoot
  <2>13. QED
    BY <1>1, <2>9, <2>10, <2>12 DEF StealInv
<1>5. CASE SetupRead /\ ~Usable(at, FindCrtc(at))
  BY <1>2, <1>5, <1>15 DEF SetupRead, kernelVars, routeVars
<1>6. CASE SetupRange /\ Plugged(at)
  <2>1. /\ at \in Connector /\ crtc_id[at] \in Crtc /\ pc = "range" /\ pc' = "setup"
        /\ crtc_id' = crtc_id /\ kroute' = kroute /\ booting' = booting
        /\ connectors' = [connectors EXCEPT ![crtc_id[at]] = {at}]
    BY <1>6 DEF SetupRange, Linked, AtConnector, kernelVars
  <2>2. \A k \in Connector : /\ Home(r, k)' = Home(r, k) /\ (Away(r, k)' <=> Away(r, k))
                             /\ (Moved(k)' <=> Moved(k))
    BY <2>1, HomeSame
  <2>3. HomeRoutes(r)'
    BY <2>1, <2>2 DEF StealInv, HomeRoutes
  <2>4. \A c \in Crtc : connectors'[c] = IF c = crtc_id[at] THEN {at} ELSE connectors[c]
    BY <2>1 DEF TypeOK
  <2>5. crtc_id[at] = Home(r, at)
    BY <2>1, NotACrtc DEF StealInv, HomeRoutes
  <2>6. Records(r)'
    BY <2>1, <2>2, <2>4, <2>5 DEF StealInv, Records
  <2>7. AtBoot(r)'
    BY <2>1, <2>2 DEF StealInv, AtBoot
  <2>8. QED
    BY <1>1, <2>3, <2>6, <2>7 DEF StealInv
<1>7. CASE SetupRange /\ ~Plugged(at)
  BY <1>2, <1>7 DEF SetupRange, kernelVars, routeVars
<1>8. CASE SetupDone \/ BootDone
  <2>1. /\ routeVars' = routeVars /\ kroute' = kroute
        /\ \/ pc = "setup" /\ pc' = (IF booting THEN "activate" ELSE "idle")
              /\ booting' = booting
           \/ pc' = "idle" /\ booting' = FALSE
    BY <1>8 DEF SetupDone, BootDone, kernelVars
  <2>2. \A k \in Connector : /\ Home(r, k)' = Home(r, k) /\ (Away(r, k)' <=> Away(r, k))
                             /\ (Moved(k)' <=> Moved(k))
    BY <2>1, HomeSame DEF routeVars
  <2>3. HomeRoutes(r)' /\ Records(r)'
    BY <2>1, <2>2 DEF StealInv, HomeRoutes, Records, routeVars
  <2>4. booting' \in BOOLEAN
    BY <2>1 DEF TypeOK
  <2>5. AtBoot(r)'
    BY <2>1, <2>2, <2>4 DEF StealInv, AtBoot
  <2>6. QED
    BY <1>1, <2>3, <2>5 DEF StealInv
<1>9. ASSUME routeVars' = routeVars, booting' = booting, HomeRoutes(r)',
             (pc' = pc /\ pc = "activate") \/ (pc' = "idle" /\ ~booting)
      PROVE  StealInv(r)'
  <2>1. \A k \in Connector : /\ Home(r, k)' = Home(r, k) /\ (Away(r, k)' <=> Away(r, k))
                             /\ (Moved(k)' <=> Moved(k))
    BY <1>9, HomeSame DEF routeVars
  <2>2. Records(r)' /\ AtBoot(r)'
    BY <1>9, <2>1 DEF StealInv, Records, AtBoot, routeVars
  <2>3. QED
    BY <1>1, <1>9, <2>2 DEF StealInv
<1>10. CASE BootActivate
  <2>1. PICK c \in todo : /\ IsFirst(c, todo)
                          /\ \E ok \in BOOLEAN : SetActiveMode(c, maxSize[c], ok)
    BY <1>10 DEF BootActivate
  <2>2. c \in Crtc /\ Programming(c)
    BY <1>10, <2>1 DEF TypeOK, Programming, BootActivate
  <2>3. routeVars' = routeVars /\ pc' = pc /\ pc = "activate" /\ booting' = booting
    BY <1>10 DEF BootActivate
  <2>4. HomeRoutes(r)'
    BY <2>1, <2>2, <2>3, SetActiveModeHome DEF routeVars
  <2>5. QED
    BY <1>9, <2>3, <2>4
<1>11. ASSUME NEW ok \in BOOLEAN, ApplyMode(ok)
       PROVE  StealInv(r)'
  <2>1. routeVars' = routeVars /\ pc' = "idle" /\ pc = "apply" /\ booting' = booting
    BY <1>11 DEF ApplyMode
  <2>2. ~booting
    BY <2>1 DEF StealInv, AtBoot
  <2>3. CASE target = NoCrtc
    BY <1>2, <1>11, <2>1, <2>2, <2>3 DEF ApplyMode
  <2>4. CASE target # NoCrtc
    <3>1. target \in Crtc /\ Programming(target)
      BY <2>1, <2>4 DEF TypeOK, Programming
    <3>2. SetActiveMode(target, req.win, ok)
      BY <1>11, <2>4 DEF ApplyMode
    <3>3. HomeRoutes(r)'
      BY <2>1, <3>1, <3>2, SetActiveModeHome DEF routeVars
    <3>4. QED
      BY <1>9, <2>1, <2>2, <3>3
  <2>5. QED
    BY <2>3, <2>4
<1>12. CASE CountConnector \/ CountDone \/ GetSupportedNumConnector
            \/ FindDisplay \/ NoDisplay \/ PollDRIDevices \/ (\E q \in Request : ChangeMode(q))
            \/ \E i \in 0..NumConnectors : GetSupportedModes(i)
  <2>1. /\ routeVars' = routeVars /\ kroute' = kroute /\ booting' = booting
        /\ pc \in {"idle", "count", "find"} /\ pc' # "activate"
    BY <1>12 DEF CountConnector, CountDone, GetSupportedNumConnector, FindDisplay,
                 NoDisplay, PollDRIDevices, ChangeMode, GetSupportedModes, kernelVars
  <2>2. ~booting
    BY <2>1 DEF StealInv, AtBoot
  <2>3. QED
    BY <1>2, <2>1, <2>2
<1>13. CASE Kernel
  BY <1>2, <1>13 DEF Kernel, Plug, Unplug, OtherEvent
<1>14. QED
  BY <1>3, <1>4, <1>5, <1>6, <1>7, <1>8, <1>10, <1>11, <1>12, <1>13
     DEF Next, Handler, SetupRead

StealInvSome == \E r \in BootRoute : StealInv(r)

LEMMA NoStealUnshared == ASSUME Unshared PROVE Spec => []NoSteal
<1>1. Init => StealInvSome
  <2>1. SUFFICES ASSUME Init PROVE StealInv(kroute)
    BY DEF Init, StealInvSome
  <2>2. \A k \in Connector : ~Moved(k)
    BY <2>1, NotACrtc DEF Init, Moved
  <2>3. \A k \in Connector : kroute[k] \in Crtc \cup {NoCrtc, NoEncoder}
    BY <2>1, CardAssumption DEF Init
  <2>4. HomeRoutes(kroute)
    BY <2>1, <2>2, <2>3 DEF Init, HomeRoutes, Home, Away
  <2>5. QED
    BY <2>1, <2>2, <2>4 DEF Init, StealInv, Records, AtBoot, TargetGiven
<1>2. TypeOK /\ AtConnector /\ StealInvSome /\ [Next]_vars => StealInvSome'
  BY StealNext DEF StealInvSome
<1>3. TypeOK /\ StealInvSome => NoSteal
  <2>1. SUFFICES ASSUME TypeOK, NEW r \in BootRoute, StealInv(r), NEW c \in Crtc,
                        Programming(c), NEW k \in connectors[c]
                 PROVE  kroute[k] \notin Crtc \ {c}
    BY DEF StealInvSome, NoSteal
  <2>2. k \in Connector /\ c = Home(r, k)
    BY <2>1, ProgrammedHome
  <2>3. QED
    BY <2>1, <2>2, NotACrtc DEF StealInv, HomeRoutes
<1>4. QED
  BY <1>1, <1>2, <1>3, TypeAlways, PTL DEF Spec

LEMMA NoStealPinned == ASSUME Pinned PROVE Spec => []NoSteal
<1>1. TypeOK /\ RouteInv => NoSteal
  <2>1. SUFFICES ASSUME TypeOK, RouteInv, NEW c \in Crtc, NEW k \in connectors[c]
                 PROVE  kroute[k] \notin Crtc \ {c}
    BY DEF NoSteal
  <2>2. k \in Connector
    BY <2>1, ConnectorsType
  <2>3. QED
    BY <2>1, <2>2, RecordedIsFallback, NotACrtc DEF RouteInv, KernelRoutes
<1>2. QED
  BY <1>1, RouteAlways, TypeAlways, PTL

(* No mode set takes a display from another CRTC, through every order of   *)
(* plug, unplug, refused mode and failed allocation: on shared encoders    *)
(* too, as long as no connector boots where a second one may come.         *)
THEOREM NeverSteals == ASSUME Pinned \/ Unshared PROVE Spec => []NoSteal
  BY NoStealPinned, NoStealUnshared

(* Then the kernel turns no other CRTC off for a mode set, and until an    *)
(* allocation fails no picture changes but the one of the CRTC programmed. *)
LEMMA RobsNone ==
    ASSUME TypeOK, NoSteal, NEW c \in Crtc, Programming(c)
    PROVE  Robbed(c, ConnIds(c)) = {}
  BY DEF NoSteal, Robbed, ConnIds

LEMMA SetActiveModeOthers ==
    ASSUME TypeOK, NoSteal, NEW c \in Crtc, Programming(c), sound,
           NEW s, NEW ok, SetActiveMode(c, s, ok), NEW d \in Crtc, d # c
    PROVE  picture'[d] = picture[d]
<1>1. ASSUME NEW q, Repaint(c, q, {})
      PROVE  picture'[d] = picture[d]
  BY <1>1 DEF Repaint, Collateral
<1>2. CASE connectors[c] = {} \/ Unsupported(c, s)
  BY <1>2 DEF SetActiveMode, scanoutVars
<1>3. CASE connectors[c] # {} /\ ~Unsupported(c, s)
  <2>1. Shown(c, s, {}) \/ Refused(c) \/ NoBuffer(c) \/ HeapCorrupted
    BY <1>3, RobsNone DEF SetActiveMode
  <2>2. QED
    BY <1>1, <2>1 DEF Shown, Refused, NoBuffer, HeapCorrupted
<1>4. QED
  BY <1>2, <1>3

LEMMA OthersStep ==
    TypeOK /\ NoSteal /\ [Next]_vars =>
        [sound => \A c \in Crtc : picture'[c] # picture[c] => Programming(c)]_vars
<1>1. SUFFICES ASSUME TypeOK, NoSteal, Next, sound, NEW d \in Crtc, picture'[d] # picture[d]
               PROVE  Programming(d)
  BY DEF vars
<1>2. CASE BootActivate
  <2>1. PICK c \in todo : IsFirst(c, todo) /\ \E ok \in BOOLEAN : SetActiveMode(c, maxSize[c], ok)
    BY <1>2 DEF BootActivate
  <2>2. c \in Crtc /\ Programming(c)
    BY <1>1, <1>2, <2>1 DEF TypeOK, Programming, BootActivate
  <2>3. QED
    BY <1>1, <2>1, <2>2, SetActiveModeOthers
<1>3. ASSUME NEW ok \in BOOLEAN, ApplyMode(ok)
      PROVE  Programming(d)
  <2>1. target # NoCrtc /\ SetActiveMode(target, req.win, ok)
    BY <1>1, <1>3 DEF ApplyMode, scanoutVars
  <2>2. target \in Crtc /\ Programming(target)
    BY <1>1, <1>3, <2>1 DEF ApplyMode, TypeOK, Programming
  <2>3. QED
    BY <1>1, <2>1, <2>2, SetActiveModeOthers
<1>4. CASE SetupRead \/ SetupRange \/ SetupDone \/ BootDone \/ CountConnector \/ CountDone
           \/ FindDisplay \/ NoDisplay \/ GetSupportedNumConnector
           \/ (\E r \in Request : ChangeMode(r)) \/ \E i \in 0..NumConnectors : GetSupportedModes(i)
  BY <1>1, <1>4 DEF SetupRead, SetupRange, SetupDone, BootDone, CountConnector, CountDone,
                    FindDisplay, NoDisplay, GetSupportedNumConnector, ChangeMode,
                    GetSupportedModes, scanoutVars
<1>5. CASE PollDRIDevices \/ Kernel
  BY <1>1, <1>5 DEF PollDRIDevices, Kernel, Plug, Unplug, OtherEvent, scanoutVars
<1>6. QED
  BY <1>1, <1>2, <1>3, <1>4, <1>5 DEF Next, Handler

(* On such cards a mode set repaints the CRTC it is asked for and no other,*)
(* until an allocation fails: no neighbour goes dark for it.               *)
THEOREM OthersStay == ASSUME Pinned \/ Unshared PROVE Spec => OthersKept
  BY NeverSteals, OthersStep, TypeAlways, PTL DEF Spec, OthersKept

-----------------------------------------------------------------------------
(* The cache.  With no event of the card pending and none lost, a          *)
(* connector has not changed since it was read, or set-up has still to     *)
(* read it.                                                                *)

Unread(k) == (pc = "setup" /\ k >= at) \/ (pc = "range" /\ k > at)
Fresh == ~CardPending(queue) /\ ~missed =>
             \A k \in Connector : cmodes[k] = kmodes[k] \/ Unread(k)

(* A step after which the connectors cached as they were still are. *)
LEMMA FreshKept ==
    ASSUME TypeOK, Fresh, kmodes' = kmodes, queue' = queue, missed => missed',
           \A k \in Connector : cmodes'[k] \in {cmodes[k], kmodes[k]},
           \A k \in Connector : Unread(k) => Unread(k)' \/ cmodes'[k] = kmodes[k]
    PROVE  Fresh'
<1>1. CardPending(queue)' <=> CardPending(queue)
  BY DEF CardPending
<1>2. ASSUME ~CardPending(queue), ~missed, NEW k \in Connector
      PROVE  cmodes'[k] = kmodes'[k] \/ Unread(k)'
  BY <1>2 DEF Fresh
<1>3. QED
  BY <1>1, <1>2 DEF Fresh

(* Reading connectors in a handler that is not set-up. *)
LEMMA ReadsOnly ==
    ASSUME TypeOK, cmodes' = cmodes \/ \E j \in Connector : ReadConnector(j)
    PROVE  \A k \in Connector : cmodes'[k] \in {cmodes[k], kmodes[k]}
  BY DEF TypeOK, ReadConnector

LEMMA SetActiveModeReads ==
    ASSUME TypeOK, NEW c \in Crtc, NEW s, NEW ok, SetActiveMode(c, s, ok)
    PROVE  \A k \in Connector : cmodes'[k] \in {cmodes[k], kmodes[k]}
<1>1. CASE connectors[c] = {}
  BY <1>1 DEF SetActiveMode
<1>2. CASE connectors[c] # {}
  <2>1. PICK j \in connectors[c] : ReadConnector(j)
    BY <1>2 DEF SetActiveMode
  <2>2. j \in Connector
    BY <2>1, ConnectorsType
  <2>3. QED
    BY <2>1, <2>2, ReadsOnly
<1>3. QED
  BY <1>1, <1>2

(* A plug or unplug leaves an event of the card pending, or one lost. *)
LEMMA NotifyCard ==
    ASSUME TypeOK, Notify("card")
    PROVE  CardPending(queue') \/ missed'
<1>1. queue \in Seq(Node) /\ Len(queue) \in Nat
  BY DEF TypeOK
<1>2. CASE Len(queue) < MaxQueue
  <2>1. queue' = Append(queue, "card")
    BY <1>2 DEF Notify
  <2>2. Len(queue) + 1 \in DOMAIN queue' /\ queue'[Len(queue) + 1] = "card"
    BY <1>1, <2>1 DEF Node
  <2>3. QED
    BY <2>2 DEF CardPending
<1>3. CASE ~(Len(queue) < MaxQueue)
  BY <1>3 DEF Notify
<1>4. QED
  BY <1>2, <1>3

LEMMA NotifyOther ==
    ASSUME TypeOK, NEW n \in Node \ {"card"}, Notify(n), ~CardPending(queue'), ~missed'
    PROVE  ~CardPending(queue) /\ ~missed
<1>1. queue \in Seq(Node) /\ Len(queue) \in Nat
  BY DEF TypeOK
<1>2. CASE Len(queue) < MaxQueue
  <2>1. queue' = Append(queue, n) /\ missed' = (missed /\ n # "card")
    BY <1>2 DEF Notify
  <2>2. \A i \in DOMAIN queue : i \in DOMAIN queue' /\ queue'[i] = queue[i]
    BY <1>1, <2>1 DEF Node
  <2>3. ~CardPending(queue)
    BY <2>2 DEF CardPending
  <2>4. ~missed
    BY <2>1
  <2>5. QED
    BY <2>3, <2>4
<1>3. CASE ~(Len(queue) < MaxQueue)
  <2>1. queue' = queue /\ missed' = (missed \/ (n = "card" /\ ~CardPending(queue)))
    BY <1>3 DEF Notify
  <2>2. QED
    BY <2>1 DEF CardPending
<1>4. QED
  BY <1>2, <1>3

(* An event taken from the queue was of the card, or leaves the card's. *)
LEMMA TailPending ==
    ASSUME TypeOK, queue # <<>>, ~CardPending(Tail(queue)), Head(queue) # "card"
    PROVE  ~CardPending(queue)
<1>1. queue \in Seq(Node) /\ Len(queue) \in Nat /\ Len(queue) # 0
  BY DEF TypeOK
<1>2. ASSUME NEW i \in DOMAIN queue, queue[i] = "card"
      PROVE  FALSE
  <2>1. i \in 1..Len(queue) /\ i # 1
    BY <1>1, <1>2
  <2>2. /\ i - 1 \in 1..Len(queue) - 1
        /\ Len(Tail(queue)) = Len(queue) - 1 /\ Tail(queue) \in Seq(Node)
    BY <1>1, <2>1
  <2>3. i - 1 \in DOMAIN Tail(queue) /\ Tail(queue)[i - 1] = queue[i]
    BY <1>1, <2>1, <2>2
  <2>4. QED
    BY <1>2, <2>3 DEF CardPending
<1>3. QED
  BY <1>2 DEF CardPending

(* Between handlers the loop index is back at the start. *)
AtStart == pc \in {"idle", "activate"} => at = 1

FreshInv == AtStart /\ Fresh

LEMMA AtStartNext == AtStart /\ [Next]_vars => AtStart'
<1>1. SUFFICES ASSUME AtStart, [Next]_vars PROVE AtStart'
  OBVIOUS
<1>2. ASSUME pc' = pc, at' = at
      PROVE  AtStart'
  BY <1>1, <1>2 DEF AtStart
<1>3. CASE UNCHANGED vars
  BY <1>2, <1>3 DEF vars
<1>4. CASE SetupRead \/ SetupRange \/ SetupDone \/ CountConnector \/ CountDone
  BY <1>1, <1>4 DEF AtStart, SetupRead, SetupRange, SetupDone, CountConnector, CountDone
<1>5. CASE BootActivate \/ BootDone
  BY <1>1, <1>5 DEF AtStart, BootActivate, BootDone
<1>6. CASE FindDisplay \/ NoDisplay \/ \E ok \in BOOLEAN : ApplyMode(ok)
  BY <1>1, <1>6 DEF AtStart, FindDisplay, NoDisplay, ApplyMode
<1>7. CASE PollDRIDevices \/ GetSupportedNumConnector \/ \E r \in Request : ChangeMode(r)
  BY <1>1, <1>7 DEF AtStart, PollDRIDevices, GetSupportedNumConnector, ChangeMode
<1>8. CASE Kernel \/ \E i \in 0..NumConnectors : GetSupportedModes(i)
  BY <1>2, <1>8 DEF Kernel, Plug, Unplug, OtherEvent, GetSupportedModes
<1>9. QED
  BY <1>1, <1>3, <1>4, <1>5, <1>6, <1>7, <1>8 DEF Next, Handler

LEMMA FreshNext == TypeOK /\ FreshInv /\ [Next]_vars => FreshInv'
<1>1. SUFFICES ASSUME TypeOK, AtStart, Fresh, [Next]_vars PROVE Fresh'
  BY AtStartNext DEF FreshInv
<1>2. ASSUME kmodes' = kmodes, queue' = queue, missed' = missed,
             \A k \in Connector : cmodes'[k] \in {cmodes[k], kmodes[k]},
             pc \notin {"setup", "range"}
      PROVE  Fresh'
  BY <1>1, <1>2, FreshKept DEF Unread
<1>3. CASE UNCHANGED vars
  BY <1>1, <1>3 DEF vars, kernelVars, ghostVars, Fresh, Unread, CardPending
<1>4. CASE SetupRead
  <2>1. /\ at \in Connector /\ pc = "setup" /\ ReadConnector(at)
        /\ kmodes' = kmodes /\ queue' = queue /\ (missed => missed')
        /\ (pc' = "range" /\ at' = at) \/ (pc' = "setup" /\ at' = at + 1)
    BY <1>1, <1>4 DEF SetupRead, kernelVars
  <2>2. /\ cmodes'[at] = kmodes[at]
        /\ \A k \in Connector : cmodes'[k] \in {cmodes[k], kmodes[k]}
    BY <1>1, <2>1, ReadsOnly DEF ReadConnector, TypeOK
  <2>3. ASSUME NEW k \in Connector, Unread(k)
        PROVE  Unread(k)' \/ cmodes'[k] = kmodes[k]
    BY <2>1, <2>2, <2>3, CardAssumption DEF Unread, Connector
  <2>4. QED
    BY <1>1, <2>1, <2>2, <2>3, FreshKept
<1>5. CASE SetupRange
  <2>1. /\ at \in 1..NumConnectors + 1 /\ pc = "range" /\ ReadConnector(at)
        /\ kmodes' = kmodes /\ queue' = queue /\ missed' = missed
        /\ (pc' = pc /\ at' = at) \/ (pc' = "setup" /\ at' = at + 1)
    BY <1>1, <1>5 DEF SetupRange, kernelVars, ghostVars, TypeOK
  <2>2. \A k \in Connector : cmodes'[k] \in {cmodes[k], kmodes[k]}
    BY <1>1, <2>1 DEF ReadConnector, TypeOK
  <2>3. ASSUME NEW k \in Connector, Unread(k)
        PROVE  Unread(k)'
    BY <2>1, <2>3, CardAssumption DEF Unread, Connector
  <2>4. QED
    BY <1>1, <2>1, <2>2, <2>3, FreshKept
<1>6. CASE SetupDone
  <2>1. /\ kmodes' = kmodes /\ queue' = queue /\ missed' = missed /\ cmodes' = cmodes
        /\ pc = "setup" /\ at = NumConnectors + 1
    BY <1>6 DEF SetupDone, kernelVars, ghostVars
  <2>2. \A k \in Connector : ~Unread(k)
    BY <2>1, CardAssumption DEF Unread, Connector
  <2>3. QED
    BY <1>1, <2>1, <2>2, FreshKept
<1>7. CASE BootActivate
  <2>1. PICK c \in todo : \E ok \in BOOLEAN : SetActiveMode(c, maxSize[c], ok)
    BY <1>7 DEF BootActivate
  <2>2. c \in Crtc
    BY <1>1, <2>1 DEF TypeOK
  <2>3. \A k \in Connector : cmodes'[k] \in {cmodes[k], kmodes[k]}
    BY <1>1, <2>1, <2>2, SetActiveModeReads
  <2>4. QED
    BY <1>2, <1>7, <2>3 DEF BootActivate, ghostVars
<1>8. CASE BootDone \/ CountDone \/ NoDisplay \/ GetSupportedNumConnector
           \/ \E r \in Request : ChangeMode(r)
  BY <1>2, <1>8 DEF BootDone, CountDone, NoDisplay, GetSupportedNumConnector, ChangeMode,
                    kernelVars, ghostVars
<1>9. CASE CountConnector \/ FindDisplay
  <2>1. \E j \in Connector : ReadConnector(j)
    BY <1>9 DEF CountConnector, FindDisplay
  <2>2. QED
    BY <1>1, <1>2, <1>9, <2>1, ReadsOnly DEF CountConnector, FindDisplay, kernelVars, ghostVars
<1>10. ASSUME NEW ok \in BOOLEAN, ApplyMode(ok)
       PROVE  Fresh'
  <2>1. CASE target = NoCrtc
    BY <1>2, <1>10, <2>1 DEF ApplyMode, ghostVars
  <2>2. CASE target # NoCrtc
    <3>1. target \in Crtc /\ SetActiveMode(target, req.win, ok)
      BY <1>1, <1>10, <2>2 DEF ApplyMode, TypeOK
    <3>2. \A k \in Connector : cmodes'[k] \in {cmodes[k], kmodes[k]}
      BY <1>1, <3>1, SetActiveModeReads
    <3>3. QED
      BY <1>2, <1>10, <3>2 DEF ApplyMode, ghostVars
  <2>3. QED
    BY <2>1, <2>2
<1>11. CASE PollDRIDevices
  <2>1. /\ queue # <<>> /\ queue' = Tail(queue) /\ pc = "idle"
        /\ kmodes' = kmodes /\ cmodes' = cmodes /\ at' = at
    BY <1>11 DEF PollDRIDevices
  <2>2. CASE pc' = "setup"
    <3>1. at' = 1
      BY <1>1, <2>1 DEF AtStart
    <3>2. \A k \in Connector : Unread(k)'
      BY <2>2, <3>1, CardAssumption DEF Unread, Connector
    <3>3. QED
      BY <3>2 DEF Fresh
  <2>3. CASE pc' # "setup"
    <3>1. /\ pc' = pc
          /\ \/ Head(queue) # "card" /\ missed' = missed
             \/ missed' = (missed \/ (Head(queue) = "card" /\ ~CardPending(Tail(queue))))
      BY <1>11, <2>3 DEF PollDRIDevices
    <3>2. ASSUME ~CardPending(queue'), ~missed'
          PROVE  ~CardPending(queue) /\ ~missed
      <4>1. ~CardPending(Tail(queue))
        BY <2>1, <3>2
      <4>2. Head(queue) # "card"
        BY <3>1, <3>2, <4>1
      <4>3. ~CardPending(queue)
        BY <1>1, <2>1, <4>1, <4>2, TailPending
      <4>4. ~missed
        BY <3>1, <3>2
      <4>5. QED
        BY <4>3, <4>4
    <3>3. ASSUME ~CardPending(queue)', ~missed', NEW k \in Connector
          PROVE  cmodes'[k] = kmodes'[k]
      <4>1. ~CardPending(queue')
        BY <3>3 DEF CardPending
      <4>2. QED
        BY <1>1, <2>1, <3>2, <3>3, <4>1 DEF Fresh, Unread
    <3>4. QED
      BY <3>3 DEF Fresh
  <2>4. QED
    BY <2>2, <2>3
<1>12. ASSUME NEW k \in Connector, (\E m \in ModeLists : Plug(k, m)) \/ Unplug(k)
       PROVE  Fresh'
  <2>1. Notify("card")
    BY <1>12 DEF Plug, Unplug
  <2>2. CardPending(queue') \/ missed'
    BY <1>1, <2>1, NotifyCard
  <2>3. QED
    BY <2>2 DEF Fresh, CardPending
<1>13. CASE OtherEvent
  <2>1. /\ kmodes' = kmodes /\ cmodes' = cmodes /\ pc' = pc /\ at' = at
        /\ \E n \in Node \ {"card"} : Notify(n)
    BY <1>13, CardAssumption DEF OtherEvent
  <2>2. ASSUME ~CardPending(queue)', ~missed', NEW k \in Connector
        PROVE  cmodes'[k] = kmodes'[k] \/ Unread(k)'
    <3>1. ~CardPending(queue')
      BY <2>2 DEF CardPending
    <3>2. ~CardPending(queue) /\ ~missed
      BY <1>1, <2>1, <2>2, <3>1, NotifyOther
    <3>3. QED
      BY <1>1, <2>1, <3>2 DEF Fresh, Unread
  <2>3. QED
    BY <2>2 DEF Fresh
<1>14. ASSUME NEW i \in 0..NumConnectors, GetSupportedModes(i)
       PROVE  Fresh'
  <2>1. kmodes' = kmodes /\ queue' = queue /\ missed' = missed /\ cmodes' = cmodes /\ pc = "idle"
    BY <1>14 DEF GetSupportedModes, kernelVars
  <2>2. \A k \in Connector : ~Unread(k)
    BY <2>1 DEF Unread
  <2>3. QED
    BY <1>1, <2>1, <2>2, FreshKept
<1>15. QED
  BY <1>1, <1>3, <1>4, <1>5, <1>6, <1>7, <1>8, <1>9, <1>10, <1>11, <1>12, <1>13, <1>14
     DEF Next, Handler, Kernel
=============================================================================
