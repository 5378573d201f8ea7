--------------------------- MODULE ValVideoProofs ---------------------------
(***************************************************************************)
(* Proofs about module ValVideo, for any card and any number of logical    *)
(* and physical planes.  Every step of val_video_impl is a step of         *)
(* DriElements or leaves it alone, so what is proved there holds here.     *)
(***************************************************************************)
EXTENDS ValVideo, DriElementsProofs

(* A call that has passed isValidMode keeps the arguments that passed. *)
AskedValid == call \in {"resolution", "change"} => asked \in Request

(* The CRTC of a sink is one of the card, or none. *)
SinkCrtcs == \A w \in Wid : sink[w].crtc \in Crtc \cup {NoCrtc}

VInv == TypeOK /\ AtConnector /\ CapOneDimension /\ AskedValid /\ SinkCrtcs

-----------------------------------------------------------------------------
LEMMA NoRequestAsk == NoRequest \in Ask
  BY SizeAssumption, CardAssumption DEF NoRequest, Ask

LEMMA ValidAsk ==
    ASSUME NEW r \in Ask, IsValidMode(r.win)
    PROVE  r \in Request
  BY DEF Ask, Request

(* findCrtc of a plane gives a CRTC of the card, or none. *)
LEMMA PlaneCrtcType ==
    ASSUME NEW p
    PROVE  PlaneCrtc(p) \in Crtc \cup {NoCrtc}
<1>1. Possible(p) \in SUBSET Crtc
  BY PlaneAssumption DEF Possible, PlaneId
<1>2. CASE Possible(p) = {}
  BY <1>2 DEF PlaneCrtc
<1>3. CASE Possible(p) # {}
  <2>1. \E c \in Possible(p) : IsFirst(c, Possible(p))
    BY <1>1, <1>3, FirstExists
  <2>2. PlaneCrtc(p) \in Possible(p)
    BY <1>3, <2>1 DEF PlaneCrtc
  <2>3. QED
    BY <1>1, <2>2
<1>4. QED
  BY <1>2, <1>3

LEMMA SinkOfCrtc ==
    ASSUME NEW p
    PROVE  SinkOf(p).crtc \in Crtc \cup {NoCrtc}
  BY PlaneCrtcType DEF SinkOf, NoSink

-----------------------------------------------------------------------------
(* Every step is one of DriElements, or none. *)
LEMMA StepIsInner == AskedValid /\ [VNext]_vvars => [Next]_vars
<1>1. SUFFICES ASSUME AskedValid, [VNext]_vvars PROVE [Next]_vars
  OBVIOUS
<1>2. CASE UNCHANGED vvars
  BY <1>2 DEF vvars
<1>3. CASE alive /\ VHandler
  <2>1. CASE Inner
    BY <1>3, <2>1 DEF Inner, Next, Handler
  <2>2. CASE BindSinks
    BY <2>2 DEF BindSinks
  <2>3. CASE DeviceUpdated
    BY <1>3, <2>3 DEF DeviceUpdated, Next, Handler
  <2>4. CASE Counted
    BY <1>3, <2>4 DEF Counted, Next, Handler
  <2>5. CASE CallChangeMode
    BY <1>1, <1>3, <2>5 DEF CallChangeMode, AskedValid, Next
  <2>6. CASE ModeChanged
    BY <1>3, <2>6 DEF ModeChanged, Next, Handler
  <2>7. QED
    BY <1>3, <2>1, <2>2, <2>3, <2>4, <2>5, <2>6 DEF VHandler
<1>4. CASE alive /\ Kernel
  BY <1>4 DEF Next
<1>5. CASE alive /\ Tick
  BY <1>5 DEF Tick, Next
<1>6. ASSUME alive, NEW r \in Ask, SetDisplayResolution(r)
      PROVE  [Next]_vars
  BY <1>6 DEF SetDisplayResolution, Next
<1>7. CASE alive /\ GetNumConnector
  BY <1>7 DEF GetNumConnector, Next
<1>8. ASSUME NEW w \in Wid, Connect(w) \/ Disconnect(w)
      PROVE  [Next]_vars
  BY <1>8 DEF Connect, Disconnect
<1>9. CASE alive /\ \E i \in 0..NumConnectors : AskResolutions(i)
  BY <1>9 DEF AskResolutions, Next
<1>10. QED
  BY <1>1, <1>2, <1>3, <1>4, <1>5, <1>6, <1>7, <1>8, <1>9 DEF VNext

LEMMA CallNext == AskedValid /\ SinkCrtcs /\ [VNext]_vvars => AskedValid' /\ SinkCrtcs'
<1> USE DEF AskedValid, SinkCrtcs
<1>1. SUFFICES ASSUME AskedValid, SinkCrtcs, [VNext]_vvars
               PROVE  AskedValid' /\ SinkCrtcs'
  OBVIOUS
<1>2. ASSUME UNCHANGED <<call, asked, sink>>
      PROVE  AskedValid' /\ SinkCrtcs'
  BY <1>1, <1>2
<1>3. CASE UNCHANGED vvars \/ UNCHANGED valVars
  BY <1>2, <1>3 DEF vvars, valVars, sinkVars, replyVars
<1>4. CASE BindSinks
  <2>1. \A w \in Wid : sink'[w] = SinkOf(PhysicalPlane(w))
    BY <1>4 DEF BindSinks
  <2>2. SinkCrtcs'
    BY <2>1, SinkOfCrtc
  <2>3. QED
    BY <1>1, <1>4, <2>2 DEF BindSinks, replyVars
<1>5. CASE DeviceUpdated
  BY <1>2, <1>5 DEF DeviceUpdated, sinkVars, replyVars
<1>6. CASE Counted
  BY <1>1, <1>6 DEF Counted, Return, sinkVars
<1>7. CASE CallChangeMode \/ Tick \/ \E i \in 0..NumConnectors : AskResolutions(i)
  BY <1>3, <1>7 DEF CallChangeMode, Tick, AskResolutions
<1>8. CASE ModeChanged
  BY <1>1, <1>8 DEF ModeChanged, Return, sinkVars
<1>9. ASSUME NEW r \in Ask, SetDisplayResolution(r)
      PROVE  AskedValid' /\ SinkCrtcs'
  BY <1>1, <1>9, ValidAsk DEF SetDisplayResolution, Return, sinkVars
<1>10. CASE GetNumConnector
  BY <1>1, <1>10 DEF GetNumConnector, sinkVars
<1>11. ASSUME NEW w \in Wid, Connect(w) \/ Disconnect(w)
       PROVE  AskedValid' /\ SinkCrtcs'
  BY <1>2, <1>11 DEF Connect, Disconnect, replyVars
<1>12. QED
  BY <1>1, <1>3, <1>4, <1>5, <1>6, <1>7, <1>8, <1>9, <1>10, <1>11 DEF VNext, VHandler

LEMMA VInvInit == VInit => VInv
<1>1. SUFFICES ASSUME VInit PROVE VInv
  OBVIOUS
<1>2. TypeOK /\ AtConnector
  BY <1>1, TypeInit DEF VInit
<1>3. CapOneDimension
  <2>1. Zero.w <= InitialMode.w
    BY SizeAssumption DEF Zero
  <2>2. QED
    BY <1>1, <2>1 DEF VInit, Init, ScanoutInit, CapOneDimension
<1>4. AskedValid /\ SinkCrtcs
  BY <1>1 DEF VInit, AskedValid, SinkCrtcs, NoSink
<1>5. QED
  BY <1>2, <1>3, <1>4 DEF VInv

LEMMA VInvNext == VInv /\ [VNext]_vvars => VInv'
  BY StepIsInner, CallNext, TypeNext, CapNext DEF VInv

LEMMA VInvAlways == VSpec => []VInv
  BY VInvInit, VInvNext, PTL DEF VSpec

-----------------------------------------------------------------------------
(* The public calls drive DRIElements only in ways module DriElements      *)
(* allows: with a mode that isValidMode accepts, and never while a handler *)
(* of the same thread is under way.                                        *)
THEOREM CallsAreInner == VSpec => Init /\ [][Next]_vars
<1>1. VInit => Init
  BY DEF VInit
<1>2. VInv /\ [VNext]_vvars => [Next]_vars
  BY StepIsInner DEF VInv
<1>3. QED
  BY <1>1, <1>2, VInvAlways, PTL DEF VSpec

(* The public calls add no cause to those of CrashCause: of all of them,   *)
(* getSupportedResolutions beyond the list is the only one that can bring  *)
(* the process down by its arguments.                                      *)
THEOREM CallsAddNoCause == VSpec => []CrashCause
<1>1. VInit => CrashInv
  BY DEF VInit, Init, ScanoutInit, CrashInv, CrashCause
<1>2. VInv /\ CrashInv /\ [VNext]_vvars => CrashInv'
  BY StepIsInner, CrashNext DEF VInv
<1>3. CrashInv => CrashCause
  BY DEF CrashInv
<1>4. QED
  BY <1>1, <1>2, <1>3, VInvAlways, PTL DEF VSpec

(* The guard of updatePlanes never refuses a range, because no range       *)
(* exceeds the maximum in both dimensions (CapOneDimension).               *)
THEOREM RangeAlwaysTaken == VSpec => RangeTaken
<1>1. ASSUME VInv, DeviceUpdated, bound, NEW w \in Wid, sink[w].crtc # NoCrtc
      PROVE  planeMax'[w] = maxSize[sink[w].crtc]
  <2>1. sink[w].crtc \in Crtc
    BY <1>1 DEF VInv, SinkCrtcs
  <2>2. UpdatePlanes(sink)
    BY <1>1 DEF DeviceUpdated
  <2>3. maxSize[sink[w].crtc] \in Size \cup {Zero}
    BY <1>1, <2>1 DEF VInv, TypeOK
  <2>4. Fits(maxSize[sink[w].crtc])
    BY <1>1, <2>1, <2>3, SizeAssumption DEF VInv, CapOneDimension, Fits, Zero
  <2>5. QED
    BY <1>1, <2>1, <2>2, <2>4 DEF UpdatePlanes, HasRange
<1>2. VInv => [DeviceUpdated /\ bound =>
                 \A w \in Wid : sink[w].crtc # NoCrtc =>
                    planeMax'[w] = maxSize[sink[w].crtc]]_vvars
  BY <1>1
<1>3. QED
  BY <1>2, VInvAlways, PTL DEF VSpec, RangeTaken

-----------------------------------------------------------------------------
(* Type correctness of the sinks and calls.                                *)

(* findConnector gives a connector that was given the CRTC, or none. *)
LEMMA FindConnectorType ==
    ASSUME NEW c
    PROVE  /\ FindConnector(c) \in Connector \cup {NoConn}
           /\ \A k \in Connector : c # NoCrtc /\ crtc_id[k] = c =>
                /\ FindConnector(c) \in Connector
                /\ crtc_id[FindConnector(c)] = c
<1> DEFINE given == {k \in Connector : crtc_id[k] = c}
<1>1. CASE c = NoCrtc \/ given = {}
  BY <1>1 DEF FindConnector
<1>2. CASE c # NoCrtc /\ given # {}
  <2>1. given \subseteq Nat
    BY CardAssumption DEF Connector
  <2>2. \E k \in given : \A j \in given : k <= j
    BY <1>2, <2>1, LeastExists
  <2>3. FindConnector(c) = CHOOSE j \in given : \A i \in given : j <= i
    BY <1>2 DEF FindConnector
  <2>5. FindConnector(c) \in given
    BY <2>2, <2>3
  <2>6. QED
    BY <1>2, <2>5
<1>3. QED
  BY <1>1, <1>2

LEMMA PhysicalPlaneType ==
    ASSUME NEW w
    PROVE  PhysicalPlane(w) \in PlaneId \cup {NoPlane}
  BY DEF PhysicalPlane, AtPlace, GetPlanes

LEMMA SinkOfType ==
    ASSUME NEW p \in PlaneId \cup {NoPlane}
    PROVE  SinkOf(p) \in [plane : PlaneId \cup {NoPlane}, crtc : Crtc \cup {NoCrtc},
                          conn : Connector \cup {NoConn}]
  BY PlaneCrtcType, FindConnectorType DEF SinkOf, NoSink

LEMMA UpdatePlanesType ==
    ASSUME VTypeOK, TypeOK, NEW sinks, UpdatePlanes(sinks)
    PROVE  planeMax' \in [Wid -> Size \cup {Zero}]
  BY DEF VTypeOK, TypeOK, UpdatePlanes, HasRange

LEMMA VTypeNext == TypeOK /\ VTypeOK /\ [VNext]_vvars => VTypeOK'
<1>1. SUFFICES ASSUME TypeOK, VTypeOK, [VNext]_vvars PROVE VTypeOK'
  OBVIOUS
<1> USE DEF VTypeOK
<1>2. CASE UNCHANGED vvars \/ UNCHANGED valVars
  BY <1>1, <1>2 DEF vvars, valVars, sinkVars, replyVars
<1>3. CASE BindSinks
  <2>1. sink' = [w \in Wid |-> SinkOf(PhysicalPlane(w))] /\ UpdatePlanes(sink')
    BY <1>3 DEF BindSinks
  <2>2. sink' \in [Wid -> [plane : PlaneId \cup {NoPlane}, crtc : Crtc \cup {NoCrtc},
                           conn : Connector \cup {NoConn}]]
    BY <2>1, PhysicalPlaneType, SinkOfType
  <2>3. planeMax' \in [Wid -> Size \cup {Zero}]
    BY <1>1, <2>1, UpdatePlanesType
  <2>4. QED
    BY <1>1, <1>3, <2>2, <2>3 DEF BindSinks, replyVars
<1>4. CASE DeviceUpdated
  <2>1. planeMax' \in [Wid -> Size \cup {Zero}]
    BY <1>1, <1>4, UpdatePlanesType DEF DeviceUpdated
  <2>2. QED
    BY <1>1, <1>4, <2>1 DEF DeviceUpdated, sinkVars, replyVars
<1>5. CASE Counted
  BY <1>1, <1>5, NoRequestAsk DEF Counted, Return, NoAsk, sinkVars
<1>6. CASE CallChangeMode \/ Tick \/ \E i \in 0..NumConnectors : AskResolutions(i)
  BY <1>2, <1>6 DEF CallChangeMode, Tick, AskResolutions
<1>7. CASE ModeChanged
  BY <1>1, <1>7, NoRequestAsk DEF ModeChanged, Return, NoAsk, sinkVars
<1>8. ASSUME NEW r \in Ask, SetDisplayResolution(r)
      PROVE  VTypeOK'
  BY <1>1, <1>8, NoRequestAsk DEF SetDisplayResolution, Return, NoAsk, sinkVars
<1>9. CASE GetNumConnector
  BY <1>1, <1>9 DEF GetNumConnector, sinkVars
<1>10. ASSUME NEW w \in Wid, Connect(w) \/ Disconnect(w)
       PROVE  VTypeOK'
  BY <1>1, <1>10 DEF Connect, Disconnect, replyVars
<1>11. QED
  BY <1>1, <1>2, <1>3, <1>4, <1>5, <1>6, <1>7, <1>8, <1>9, <1>10 DEF VNext, VHandler

(* Every variable of the public calls keeps its type; in particular a sink *)
(* names a plane, a CRTC and a connector of the card, or none.             *)
THEOREM VTypeCorrect == VSpec => []VTypeOK
<1>1. VInit => VTypeOK
  <2>1. SUFFICES ASSUME VInit PROVE VTypeOK
    OBVIOUS
  <2>2. sink \in [Wid -> [plane : PlaneId \cup {NoPlane}, crtc : Crtc \cup {NoCrtc},
                          conn : Connector \cup {NoConn}]]
    BY <2>1 DEF VInit, NoSink
  <2>3. planeMax \in [Wid -> Size \cup {Zero}] /\ connected \in [Wid -> BOOLEAN]
    BY <2>1, SizeAssumption DEF VInit
  <2>4. QED
    BY <2>1, <2>2, <2>3, NoRequestAsk DEF VInit, VTypeOK, NoAsk
<1>2. VInv => TypeOK
  BY DEF VInv
<1>3. QED
  BY <1>1, <1>2, VTypeNext, VInvAlways, PTL DEF VSpec

-----------------------------------------------------------------------------
(* The sinks, on any card.                                                 *)

(* What a step of DriElements leaves: a CRTC with a connector keeps one,   *)
(* and a connector that was given a CRTC has one.                          *)
Keeps == /\ \A c \in Crtc : connectors[c] # {} => connectors'[c] # {}
         /\ \A k \in Connector : crtc_id[k] # NoCrtc => crtc_id'[k] # NoCrtc

LEMMA InnerKeeps == TypeOK /\ AtConnector /\ [Next]_vars => Keeps
<1>1. SUFFICES ASSUME TypeOK, AtConnector, [Next]_vars PROVE Keeps
  OBVIOUS
<1>2. CASE routeVars' = routeVars
  BY <1>2 DEF routeVars, Keeps
<1>3. CASE SetupRead
  <2>1. connectors' = connectors /\ at \in Connector
    BY <1>3 DEF SetupRead
  <2>2. CASE crtc_id' = crtc_id
    BY <2>1, <2>2 DEF Keeps
  <2>3. CASE crtc_id' # crtc_id
    <3>1. PICK c : c # NoCrtc /\ crtc_id' = [crtc_id EXCEPT ![at] = c]
      BY <1>3, <2>3 DEF SetupRead, Usable
    <3>2. QED
      BY <1>1, <2>1, <3>1 DEF Keeps, TypeOK
  <2>4. QED
    BY <2>2, <2>3
<1>4. CASE SetupRange
  <2>1. crtc_id' = crtc_id
    BY <1>4 DEF SetupRange
  <2>2. \/ connectors' = connectors
        \/ connectors' = [connectors EXCEPT ![crtc_id[at]] = {at}]
    BY <1>4 DEF SetupRange, Linked
  <2>3. QED
    BY <1>1, <2>1, <2>2 DEF Keeps, TypeOK
<1>5. CASE SetupDone \/ BootActivate \/ BootDone \/ CountConnector \/ CountDone
  BY <1>2, <1>5 DEF SetupDone, BootActivate, BootDone, CountConnector, CountDone
<1>6. CASE FindDisplay \/ NoDisplay \/ \E ok \in BOOLEAN : ApplyMode(ok)
  BY <1>2, <1>6 DEF FindDisplay, NoDisplay, ApplyMode
<1>7. CASE PollDRIDevices \/ GetSupportedNumConnector \/ (\E r \in Request : ChangeMode(r))
           \/ \E i \in 0..NumConnectors : GetSupportedModes(i)
  BY <1>2, <1>7 DEF PollDRIDevices, GetSupportedNumConnector, ChangeMode, GetSupportedModes
<1>8. CASE Kernel
  BY <1>2, <1>8 DEF Kernel, Plug, Unplug, OtherEvent
<1>9. CASE UNCHANGED vars
  BY <1>2, <1>9 DEF vars
<1>10. QED
  BY <1>1, <1>3, <1>4, <1>5, <1>6, <1>7, <1>8, <1>9 DEF Next, Handler

(* Before the sinks are bound no call has been made, the card is set up    *)
(* once, and a connector recorded in a CRTC is given that CRTC.            *)
BootPhase == ~bound => pc \in {"setup", "range", "activate", "idle"} /\ call = "none"

FirstSetup == ~bound => \A c \in Crtc, k \in Connector : k \in connectors[c] =>
    crtc_id[k] = c /\ (pc \in {"setup", "range"} => k < at)

(* The steps there are before the sinks are bound. *)
LEMMA BootSteps ==
    ASSUME BootPhase, [VNext]_vvars, ~bound'
    PROVE  /\ ~bound /\ call' = call
           /\ \/ SetupRead \/ SetupRange \/ SetupDone \/ BootActivate \/ BootDone \/ Kernel
              \/ UNCHANGED vars
<1>1. ~BindSinks /\ (Ready => bound)
  BY DEF BindSinks, Ready
<1>2. CASE UNCHANGED vvars
  BY <1>2 DEF vvars, valVars, sinkVars, replyVars
<1>3. CASE (Inner \/ Kernel) /\ UNCHANGED valVars
  BY <1>3 DEF BootPhase, Inner, CountConnector, FindDisplay, NoDisplay, valVars, sinkVars,
              replyVars
<1>4. CASE DeviceUpdated
  BY <1>4 DEF DeviceUpdated, sinkVars, replyVars
<1>5. CASE CallChangeMode \/ ModeChanged \/ Counted
  BY <1>5 DEF BootPhase, CallChangeMode, ModeChanged, Counted, CountDone, valVars, sinkVars
<1>6. CASE Tick \/ GetNumConnector \/ (\E r \in Ask : SetDisplayResolution(r))
           \/ \E i \in 0..NumConnectors : AskResolutions(i)
  BY <1>1, <1>6 DEF Tick, GetNumConnector, SetDisplayResolution, AskResolutions, valVars,
                    sinkVars
<1>7. CASE \E w \in Wid : Connect(w) \/ Disconnect(w)
  BY <1>1, <1>7 DEF Connect, Disconnect
<1>8. QED
  BY <1>1, <1>2, <1>3, <1>4, <1>5, <1>6, <1>7 DEF VNext, VHandler

LEMMA BootPhaseNext == BootPhase /\ [VNext]_vvars => BootPhase'
<1>1. SUFFICES ASSUME BootPhase, [VNext]_vvars, ~bound' PROVE BootPhase'
  BY DEF BootPhase
<1>2. pc' \in {"setup", "range", "activate", "idle"}
  BY <1>1, BootSteps DEF BootPhase, SetupRead, SetupRange, SetupDone, BootActivate, BootDone,
                         Kernel, Plug, Unplug, OtherEvent, vars
<1>3. QED
  BY <1>1, <1>2, BootSteps DEF BootPhase

LEMMA FirstSetupNext ==
    TypeOK /\ AtConnector /\ BootPhase /\ FirstSetup /\ [VNext]_vvars => FirstSetup'
<1>1. SUFFICES ASSUME TypeOK, AtConnector, BootPhase, FirstSetup, [VNext]_vvars, ~bound',
                      NEW c \in Crtc, NEW k \in Connector, k \in connectors'[c]
               PROVE  crtc_id'[k] = c /\ (pc' \in {"setup", "range"} => k < at')
  BY DEF FirstSetup
<1>2. ASSUME k \in connectors[c]
      PROVE  crtc_id[k] = c /\ (pc \in {"setup", "range"} => k < at)
  BY <1>1, <1>2, BootSteps DEF FirstSetup
<1>3. k \in Nat /\ at \in Nat
  BY <1>1, CardAssumption DEF Connector, TypeOK
<1>4. ASSUME routeVars' = routeVars,
             pc' \notin {"setup", "range"} \/ (pc' = pc /\ at' = at)
      PROVE  crtc_id'[k] = c /\ (pc' \in {"setup", "range"} => k < at')
  BY <1>1, <1>2, <1>4 DEF routeVars
<1>5. CASE SetupRead
  <2>1. /\ at \in Connector /\ pc = "setup" /\ connectors' = connectors
        /\ at' = at \/ at' = at + 1
        /\ \A j \in Connector \ {at} : crtc_id'[j] = crtc_id[j]
    BY <1>1, <1>5 DEF SetupRead, TypeOK
  <2>2. QED
    BY <1>1, <1>2, <1>3, <2>1
<1>6. CASE SetupRange
  <2>1. /\ at \in Connector /\ pc = "range" /\ crtc_id' = crtc_id
        /\ \/ connectors' = connectors /\ at' = at
           \/ connectors' = [connectors EXCEPT ![crtc_id[at]] = {at}] /\ at' = at + 1
    BY <1>1, <1>6 DEF SetupRange, Linked, AtConnector
  <2>2. CASE k \in connectors[c]
    BY <1>2, <1>3, <2>1, <2>2
  <2>3. CASE k \notin connectors[c]
    <3>1. k = at /\ c = crtc_id[at] /\ at' = at + 1
      BY <1>1, <2>1, <2>3 DEF TypeOK
    <3>2. QED
      BY <1>3, <2>1, <3>1
  <2>4. QED
    BY <2>2, <2>3
<1>7. CASE SetupDone \/ BootActivate \/ BootDone
  BY <1>4, <1>7 DEF SetupDone, BootActivate, BootDone
<1>8. CASE Kernel \/ UNCHANGED vars
  BY <1>4, <1>8 DEF Kernel, Plug, Unplug, OtherEvent, vars
<1>9. QED
  BY <1>1, <1>5, <1>6, <1>7, <1>8, BootSteps

(* A connector is given, recorded under and routed to two CRTCs at most:   *)
(* the one it booted on, r, and the one its encoders fall back to.         *)
TwoCrtcs(r) == \A k \in Connector \ Flaky :
    /\ kroute[k] \in {NoEncoder, NoCrtc, r[k], FallbackCrtc(k)}
    /\ crtc_id[k] \in {NoCrtc, r[k], FallbackCrtc(k)}
    /\ \A c \in Crtc : k \in connectors[c] => c \in {r[k], FallbackCrtc(k)}

LEMMA SetActiveModeTwo ==
    ASSUME TypeOK, NEW r, TwoCrtcs(r), NEW c \in Crtc, NEW s, NEW ok,
           SetActiveMode(c, s, ok), routeVars' = routeVars
    PROVE  TwoCrtcs(r)'
<1>1. ASSUME NEW k \in Connector \ Flaky
      PROVE  kroute'[k] \in {NoEncoder, NoCrtc, r[k], FallbackCrtc(k)}
  <2>1. \/ k \in connectors[c] /\ kroute'[k] = c
        \/ kroute'[k] \in {NoEncoder, kroute[k]}
    BY DEF SetActiveMode, ConnIds, Reroute
  <2>2. QED
    BY <2>1 DEF TwoCrtcs
<1>2. QED
  BY <1>1, FallbackFixed DEF TwoCrtcs, routeVars

LEMMA TwoCrtcsNext ==
    ASSUME TypeOK, AtConnector, NEW r, TwoCrtcs(r), [Next]_vars
    PROVE  TwoCrtcs(r)'
<1>1. CASE routeVars' = routeVars /\ kroute' = kroute
  BY <1>1, FallbackFixed DEF TwoCrtcs, routeVars
<1>2. CASE SetupRead
  <2>1. /\ at \in Connector /\ connectors' = connectors /\ kroute' = kroute
        /\ \A k \in Connector \ {at} : crtc_id'[k] = crtc_id[k]
        /\ \/ crtc_id'[at] = crtc_id[at]
           \/ crtc_id'[at] # NoCrtc /\ crtc_id'[at] \in {FindCrtc(at)} \cup Misread(at)
    BY <1>2 DEF SetupRead, Usable, TypeOK, kernelVars
  <2>2. at \notin Flaky => crtc_id'[at] \in {NoCrtc, r[at], FallbackCrtc(at)}
    BY <2>1 DEF TwoCrtcs, Misread, FindCrtc
  <2>3. QED
    BY <2>1, <2>2, FallbackFixed DEF TwoCrtcs
<1>3. CASE SetupRange
  <2>1. /\ at \in Connector /\ crtc_id[at] \in Crtc /\ crtc_id' = crtc_id /\ kroute' = kroute
        /\ \/ connectors' = connectors
           \/ connectors' = [connectors EXCEPT ![crtc_id[at]] = {at}]
    BY <1>3 DEF SetupRange, Linked, AtConnector, kernelVars
  <2>2. \A c \in Crtc, k \in Connector : k \in connectors'[c] =>
           k \in connectors[c] \/ (k = at /\ c = crtc_id[at])
    BY <2>1 DEF TypeOK
  <2>3. QED
    BY <2>1, <2>2, FallbackFixed, NotACrtc DEF TwoCrtcs
<1>4. CASE BootActivate
  <2>1. PICK c \in todo, ok \in BOOLEAN : SetActiveMode(c, maxSize[c], ok)
    BY <1>4 DEF BootActivate
  <2>2. c \in Crtc /\ routeVars' = routeVars
    BY <1>4, <2>1 DEF TypeOK, BootActivate
  <2>3. QED
    BY <2>1, <2>2, SetActiveModeTwo
<1>5. ASSUME NEW ok \in BOOLEAN, ApplyMode(ok)
      PROVE  TwoCrtcs(r)'
  <2>1. CASE target = NoCrtc
    BY <1>1, <1>5, <2>1 DEF ApplyMode
  <2>2. CASE target # NoCrtc
    <3>1. target \in Crtc /\ SetActiveMode(target, req.win, ok) /\ routeVars' = routeVars
      BY <1>5, <2>2 DEF TypeOK, ApplyMode
    <3>2. QED
      BY <3>1, SetActiveModeTwo
  <2>3. QED
    BY <2>1, <2>2
<1>6. CASE SetupDone \/ BootDone \/ CountConnector \/ CountDone \/ FindDisplay \/ NoDisplay
  BY <1>1, <1>6 DEF SetupDone, BootDone, CountConnector, CountDone, FindDisplay, NoDisplay,
                    kernelVars
<1>7. CASE PollDRIDevices \/ GetSupportedNumConnector \/ (\E q \in Request : ChangeMode(q))
           \/ \E i \in 0..NumConnectors : GetSupportedModes(i)
  BY <1>1, <1>7 DEF PollDRIDevices, GetSupportedNumConnector, ChangeMode, GetSupportedModes,
                    kernelVars
<1>8. CASE Kernel \/ UNCHANGED vars
  BY <1>1, <1>8 DEF Kernel, Plug, Unplug, OtherEvent, vars, kernelVars
<1>9. QED
  BY <1>2, <1>3, <1>4, <1>5, <1>6, <1>7, <1>8 DEF Next, Handler

(* What binding gives a sink, and what lasts of it. *)
SinkInv(r) == \A w \in Wid : sink[w].plane # NoPlane =>
    IF sink[w].conn = NoConn
    THEN \E c \in PlaneMasks[sink[w].plane] \ {sink[w].crtc} : c \in Crtc /\ connectors[c] # {}
    ELSE /\ sink[w].conn \in Connector /\ crtc_id[sink[w].conn] # NoCrtc
         /\ sink[w].conn \notin Flaky => sink[w].crtc \in {r[sink[w].conn], FallbackCrtc(sink[w].conn)}

(* The sinks are written by the constructor only. *)
LEMMA SinkFixed == [VNext]_vvars => BindSinks \/ sink' = sink
<1>1. SUFFICES ASSUME [VNext]_vvars, ~BindSinks PROVE sink' = sink
  OBVIOUS
<1>2. CASE UNCHANGED vvars \/ UNCHANGED valVars
  BY <1>2 DEF vvars, valVars, sinkVars
<1>3. CASE DeviceUpdated \/ Counted \/ CallChangeMode \/ ModeChanged
  BY <1>3 DEF DeviceUpdated, Counted, CallChangeMode, ModeChanged, valVars, sinkVars
<1>4. CASE Tick \/ GetNumConnector \/ (\E r \in Ask : SetDisplayResolution(r))
           \/ \E i \in 0..NumConnectors : AskResolutions(i)
  BY <1>4 DEF Tick, GetNumConnector, SetDisplayResolution, AskResolutions, valVars, sinkVars
<1>5. CASE \E w \in Wid : Connect(w) \/ Disconnect(w)
  BY <1>5 DEF Connect, Disconnect
<1>6. QED
  BY <1>1, <1>2, <1>3, <1>4, <1>5 DEF VNext, VHandler

(* A plane of the pool was listed for a CRTC with a connector. *)
LEMMA PoolCrtc ==
    ASSUME TypeOK, NEW w, PhysicalPlane(w) # NoPlane
    PROVE  \E e \in GetPlanes :
             /\ Place(e) = w /\ e[2] = PhysicalPlane(w) /\ e[1] \in Crtc
             /\ e[1] \in PlaneMasks[e[2]] /\ connectors[e[1]] # {}
  BY DEF PhysicalPlane, AtPlace, GetPlanes, PlanesOf

LEMMA BindGivesSinks ==
    ASSUME TypeOK, NEW r, TwoCrtcs(r), FirstSetup, ~bound, NEW w,
           NEW p, p = PhysicalPlane(w), p # NoPlane, NEW c, c = PlaneCrtc(p)
    PROVE  IF FindConnector(c) = NoConn
           THEN \E d \in PlaneMasks[p] \ {c} : d \in Crtc /\ connectors[d] # {}
           ELSE /\ FindConnector(c) \in Connector /\ crtc_id[FindConnector(c)] # NoCrtc
                /\ FindConnector(c) \notin Flaky =>
                      c \in {r[FindConnector(c)], FallbackCrtc(FindConnector(c))}
<1>1. CASE FindConnector(c) = NoConn
  <2>1. PICK e \in GetPlanes : /\ e[2] = p /\ e[1] \in Crtc
                               /\ e[1] \in PlaneMasks[p] /\ connectors[e[1]] # {}
    BY PoolCrtc
  <2>2. PICK k \in connectors[e[1]] : TRUE
    BY <2>1
  <2>3. k \in Connector /\ crtc_id[k] = e[1]
    BY <2>1, <2>2, ConnectorsType DEF FirstSetup
  <2>4. e[1] # c
    BY <1>1, <2>1, <2>3, FindConnectorType, NotACrtc, CardAssumption DEF Connector, NoConn
  <2>5. QED
    BY <1>1, <2>1, <2>4
<1>2. CASE FindConnector(c) # NoConn
  <2>1. c # NoCrtc /\ \E k \in Connector : crtc_id[k] = c
    BY <1>2 DEF FindConnector
  <2>2. FindConnector(c) \in Connector /\ crtc_id[FindConnector(c)] = c
    BY <2>1, FindConnectorType
  <2>3. QED
    BY <1>2, <2>1, <2>2 DEF TwoCrtcs
<1>3. QED
  BY <1>1, <1>2

LEMMA SinkNext ==
    ASSUME NEW r
    PROVE  VInv /\ TwoCrtcs(r) /\ FirstSetup /\ SinkInv(r) /\ [VNext]_vvars => SinkInv(r)'
<1>1. SUFFICES ASSUME VInv, TwoCrtcs(r), FirstSetup, SinkInv(r), [VNext]_vvars,
                      NEW w \in Wid, sink'[w].plane # NoPlane
               PROVE  IF sink'[w].conn = NoConn
                      THEN \E c \in PlaneMasks[sink'[w].plane] \ {sink'[w].crtc} :
                              c \in Crtc /\ connectors'[c] # {}
                      ELSE /\ sink'[w].conn \in Connector /\ crtc_id'[sink'[w].conn] # NoCrtc
                           /\ sink'[w].conn \notin Flaky =>
                                 sink'[w].crtc \in {r[sink'[w].conn], FallbackCrtc(sink'[w].conn)}
  BY FallbackFixed DEF SinkInv
<1>2. TypeOK /\ AtConnector /\ [Next]_vars
  BY <1>1, StepIsInner DEF VInv
<1>3. CASE BindSinks
  <2>1. /\ sink' = [v \in Wid |-> SinkOf(PhysicalPlane(v))] /\ ~bound
        /\ connectors' = connectors /\ crtc_id' = crtc_id
    BY <1>3 DEF BindSinks, vars, routeVars
  <2> DEFINE p == PhysicalPlane(w)
  <2>2. sink'[w] = SinkOf(p) /\ p # NoPlane
    BY <1>1, <2>1 DEF SinkOf, NoSink
  <2>3. /\ sink'[w].plane = p /\ sink'[w].crtc = PlaneCrtc(p)
        /\ sink'[w].conn = FindConnector(PlaneCrtc(p))
    BY <2>2 DEF SinkOf
  <2>4. QED
    BY <1>1, <1>2, <2>1, <2>2, <2>3, BindGivesSinks
<1>4. CASE sink' = sink
  <2>1. Keeps
    BY <1>2, InnerKeeps
  <2>2. CASE sink[w].conn = NoConn
    BY <1>1, <1>4, <2>1, <2>2 DEF SinkInv, Keeps
  <2>3. CASE sink[w].conn # NoConn
    BY <1>1, <1>4, <2>1, <2>3 DEF SinkInv, Keeps
  <2>4. QED
    BY <2>2, <2>3
<1>5. QED
  BY <1>1, <1>3, <1>4, SinkFixed

LEMMA BootAlways == VSpec => [](BootPhase /\ FirstSetup)
<1>1. VInit => BootPhase /\ FirstSetup
  BY DEF VInit, Init, BootPhase, FirstSetup
<1>2. VInv /\ BootPhase /\ FirstSetup /\ [VNext]_vvars => (BootPhase /\ FirstSetup)'
  BY BootPhaseNext, FirstSetupNext DEF VInv
<1>3. QED
  BY <1>1, <1>2, VInvAlways, PTL DEF VSpec

SinksOfSomeRoute == \E r \in BootRoute : TwoCrtcs(r) /\ SinkInv(r)

(* The sinks are bound once, and this is how wrong they become on any card,*)
(* through every hotplug, mode change and set-up that moves a connector:   *)
(* the connector of a sink has moved only between the CRTC it booted on    *)
(* and the one its encoders fall back to, and a sink without a connector   *)
(* has a plane that another CRTC with a connector can use.                 *)
THEOREM SinksStayCurrent == VSpec => []SinkCurrent
<1>1. VInit => SinksOfSomeRoute
  <2>1. SUFFICES ASSUME VInit PROVE TwoCrtcs(kroute) /\ SinkInv(kroute) /\ kroute \in BootRoute
    BY DEF SinksOfSomeRoute
  <2>2. QED
    BY <2>1 DEF VInit, Init, TwoCrtcs, SinkInv, NoSink
<1>2. VInv /\ BootPhase /\ FirstSetup /\ SinksOfSomeRoute /\ [VNext]_vvars => SinksOfSomeRoute'
  BY SinkNext, StepIsInner, TwoCrtcsNext DEF SinksOfSomeRoute, VInv
<1>3. SinksOfSomeRoute => SinkCurrent
  <2>1. SUFFICES ASSUME NEW r \in BootRoute, TwoCrtcs(r), SinkInv(r), NEW w \in Wid,
                        sink[w].plane # NoPlane
                 PROVE  IF sink[w].conn = NoConn
                        THEN \E c \in PlaneMasks[sink[w].plane] \ {sink[w].crtc} : connectors[c] # {}
                        ELSE sink[w].conn \notin Flaky =>
                               \/ crtc_id[sink[w].conn] = sink[w].crtc
                               \/ FallbackCrtc(sink[w].conn) \in {sink[w].crtc, crtc_id[sink[w].conn]}
    BY DEF SinksOfSomeRoute, SinkCurrent
  <2>2. CASE sink[w].conn = NoConn
    BY <2>1, <2>2 DEF SinkInv
  <2>3. CASE sink[w].conn # NoConn
    BY <2>1, <2>3 DEF SinkInv, TwoCrtcs
  <2>4. QED
    BY <2>2, <2>3
<1>4. QED
  BY <1>1, <1>2, <1>3, VInvAlways, BootAlways, PTL DEF VSpec

TwiceInv ==
    \A v, w \in Wid : v # w /\ sink[v].plane # NoPlane /\ sink[v].plane = sink[w].plane =>
        \E c, d \in Crtc \cap PlaneMasks[sink[v].plane] :
            c # d /\ connectors[c] # {} /\ connectors[d] # {}

(* The place of a plane in the pool is that of one CRTC's listing, and a   *)
(* CRTC that has a connector keeps one: two sinks with one plane show that *)
(* the plane has two CRTCs in use.                                         *)
THEOREM TwiceOnlyForShared == VSpec => []TwiceOnlyIfShared
<1>1. VInit => TwiceInv
  BY DEF VInit, TwiceInv, NoSink
<1>2. VInv /\ TwiceInv /\ [VNext]_vvars => TwiceInv'
  <2>1. SUFFICES ASSUME VInv, TwiceInv, [VNext]_vvars, NEW v \in Wid, NEW w \in Wid,
                        v # w, sink'[v].plane # NoPlane, sink'[v].plane = sink'[w].plane
                 PROVE  \E c, d \in Crtc \cap PlaneMasks[sink'[v].plane] :
                           c # d /\ connectors'[c] # {} /\ connectors'[d] # {}
    BY DEF TwiceInv
  <2>2. TypeOK /\ AtConnector /\ [Next]_vars
    BY <2>1, StepIsInner DEF VInv
  <2>3. CASE BindSinks
    <3>1. sink' = [u \in Wid |-> SinkOf(PhysicalPlane(u))] /\ connectors' = connectors
      BY <2>3 DEF BindSinks, vars, routeVars
    <3>2. \A u \in Wid : sink'[u].plane = PhysicalPlane(u)
      BY <3>1 DEF SinkOf, NoSink
    <3>3. PICK e \in GetPlanes :
             /\ Place(e) = v /\ e[2] = PhysicalPlane(v) /\ e[1] \in Crtc
             /\ e[1] \in PlaneMasks[e[2]] /\ connectors[e[1]] # {}
      BY <2>1, <2>2, <3>2, PoolCrtc
    <3>4. PICK f \in GetPlanes :
             /\ Place(f) = w /\ f[2] = PhysicalPlane(w) /\ f[1] \in Crtc
             /\ f[1] \in PlaneMasks[f[2]] /\ connectors[f[1]] # {}
      BY <2>1, <2>2, <3>2, PoolCrtc
    <3>5. e[1] # f[1]
      BY <2>1, <3>2, <3>3, <3>4 DEF GetPlanes
    <3>6. QED
      BY <2>1, <3>1, <3>2, <3>3, <3>4, <3>5
  <2>4. CASE sink' = sink
    <3>1. PICK c \in Crtc \cap PlaneMasks[sink[v].plane], d \in Crtc \cap PlaneMasks[sink[v].plane] :
             c # d /\ connectors[c] # {} /\ connectors[d] # {}
      BY <2>1, <2>4 DEF TwiceInv
    <3>2. \A b \in Crtc : connectors[b] # {} => connectors'[b] # {}
      BY <2>2, InnerKeeps DEF Keeps
    <3>3. QED
      BY <2>1, <2>4, <3>1, <3>2
  <2>5. QED
    BY <2>1, <2>3, <2>4, SinkFixed
<1>3. TwiceInv => TwiceOnlyIfShared
  BY DEF TwiceInv, TwiceOnlyIfShared
<1>4. QED
  BY <1>1, <1>2, <1>3, VInvAlways, PTL DEF VSpec

(* The routes, on a card that is Pinned. *)
LEMMA VRouteAlways ==
    ASSUME Pinned
    PROVE  VSpec => []RouteInv
<1>1. VInit => RouteInv
  BY NotACrtc DEF VInit, Pinned, Init, RouteInv, RouteInverse, KernelRoutes, ReadsFallback,
                  GivenCrtcs, TargetGiven
<1>2. VInv /\ RouteInv /\ [VNext]_vvars => RouteInv'
  BY StepIsInner, RouteNext DEF VInv
<1>3. QED
  BY <1>1, <1>2, VInvAlways, PTL DEF VSpec

-----------------------------------------------------------------------------
(* The resolutions offered.                                                *)

(* std::unique drops no size altogether: its first place is kept.          *)
LEMMA UniqueKeepsSizes ==
    ASSUME TypeOK, NEW k \in Connector, NEW i \in DOMAIN ConnectorModes(k)
    PROVE  \E j \in SupportedModes(k) : ConnectorModes(k)[j] = ConnectorModes(k)[i]
<1> DEFINE m == ConnectorModes(k)
           same == {j \in DOMAIN m : m[j] = m[i]}
<1>1. m \in Displays /\ m # <<>>
  BY DEF TypeOK, ConnectorModes
<1>2. m \in Seq(Size) /\ Len(m) \in Nat /\ DOMAIN m = 1..Len(m)
  BY <1>1, ModesAreSizes
<1>3. same \subseteq Nat /\ same # {}
  BY <1>2
<1>4. PICK j \in same : \A l \in same : j <= l
  BY <1>3, LeastExists
<1>5. j \in DOMAIN m /\ m[j] = m[i] /\ (j = 1 \/ m[j] # m[j - 1])
  <2>1. CASE j = 1
    BY <1>4, <2>1
  <2>2. CASE j # 1
    <3>1. j - 1 \in DOMAIN m /\ ~(j <= j - 1)
      BY <1>2, <1>4, <2>2
    <3>2. j - 1 \notin same
      BY <1>4, <3>1
    <3>3. QED
      BY <1>4, <3>1, <3>2
  <2>3. QED
    BY <2>1, <2>2
<1>6. QED
  BY <1>5 DEF SupportedModes

(* The callers keep the cache as fresh as DRIElements does. *)
LEMMA VFreshAlways == VSpec => []FreshInv
<1>1. VInit => FreshInv
  BY DEF VInit, Init, FreshInv, AtStart, Fresh
<1>2. VInv /\ FreshInv /\ [VNext]_vvars => FreshInv'
  BY StepIsInner, FreshNext DEF VInv
<1>3. QED
  BY <1>1, <1>2, VInvAlways, PTL DEF VSpec

(* The cache is fresh between calls, and every size a caller may ask for   *)
(* survives the list functions: what is offered is what the display has.   *)
THEOREM OffersAlwaysCurrent == VSpec => []OffersCurrent
<1>1. TypeOK /\ FreshInv => OffersCurrent
  <2>1. SUFFICES ASSUME TypeOK, FreshInv, Ready, ~CardPending(queue), ~missed,
                        NEW k \in Connector
                 PROVE  {ConnectorModes(k)[i] : i \in GetSupportedResolutions(k)} =
                          {s \in Size : IsValidMode(s) /\ IsModeSupported(k, s)}
    BY DEF OffersCurrent
  <2>2. ConnectorModes(k) = kmodes[k]
    BY <2>1 DEF FreshInv, Fresh, Unread, Ready, ConnectorModes
  <2>3. ASSUME NEW i \in GetSupportedResolutions(k)
        PROVE  ConnectorModes(k)[i] \in
                 {s \in Size : IsValidMode(s) /\ IsModeSupported(k, s)}
    <3>1. i \in DOMAIN kmodes[k] /\ IsValidMode(kmodes[k][i])
      BY <2>2, <2>3 DEF GetSupportedResolutions, SupportedModes
    <3>2. kmodes[k] \in Displays /\ kmodes[k] # <<>>
      BY <2>1, <3>1 DEF TypeOK
    <3>3. kmodes[k][i] \in Size
      BY <3>1, <3>2, ModesAreSizes
    <3>4. QED
      BY <2>2, <3>1, <3>3 DEF IsModeSupported
  <2>4. ASSUME NEW s \in Size, IsValidMode(s), IsModeSupported(k, s)
        PROVE  \E i \in GetSupportedResolutions(k) : ConnectorModes(k)[i] = s
    <3>1. PICK i \in DOMAIN ConnectorModes(k) : ConnectorModes(k)[i] = s
      BY <2>2, <2>4 DEF IsModeSupported
    <3>2. PICK j \in SupportedModes(k) : ConnectorModes(k)[j] = s
      BY <2>1, <3>1, UniqueKeepsSizes
    <3>3. QED
      BY <2>4, <3>2 DEF GetSupportedResolutions
  <2>5. QED
    BY <2>3, <2>4
<1>2. VInv => TypeOK
  BY DEF VInv
<1>3. QED
  BY <1>1, <1>2, VInvAlways, VFreshAlways, PTL
=============================================================================
