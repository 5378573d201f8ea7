---------------------------- MODULE RangeProofs ----------------------------
(***************************************************************************)
(* The ranges of the logical planes, on a card that is Pinned and          *)
(* Disjoint, with any number of connectors, CRTCs and planes.              *)
(*                                                                         *)
(* The range of a CRTC is written by set-up, from the display it has just  *)
(* read; the planes take it at the end of set-up, or when the sinks are    *)
(* bound.  A mode change writes it too (ApplyMode), and only the next      *)
(* set-up puts that right.                                                 *)
(***************************************************************************)
EXTENDS ValVideoProofs

(* No event of the card is pending and none was lost. *)
Clean   == ~CardPending(queue) /\ ~missed
InSetup == pc \in {"setup", "range"}

(* A connector set-up has dealt with, or any connector outside set-up. *)
Done(k) == ~(InSetup /\ k >= at)

(* The connector of a sink is the one its CRTC was given to. *)
ConnInv == \A w \in Wid : sink[w].conn # NoConn =>
    /\ sink[w].conn \in Connector /\ sink[w].crtc \in Crtc
    /\ crtc_id[sink[w].conn] = sink[w].crtc

(* A connector that was given a CRTC had an encoder with a CRTC, or none.  *)
Driven == \A k \in Connector : crtc_id[k] # NoCrtc => kroute[k] # NoCrtc

(* During set-up, and until the sinks are bound, the ranges of the CRTCs   *)
(* are those of the displays as read; afterwards those of the planes are.  *)
CrtcRanges == Clean /\ (InSetup \/ ~bound) =>
    \A k \in Connector : Done(k) /\ cmodes[k] # <<>> /\ crtc_id[k] # NoCrtc =>
        maxSize[crtc_id[k]] = Capped(cmodes[k][1])
PlaneRanges == Clean /\ ~InSetup /\ bound =>
    \A w \in Wid : sink[w].conn # NoConn /\ cmodes[sink[w].conn] # <<>> =>
        planeMax[w] = Capped(cmodes[sink[w].conn][1])

RangeInv == BootPhase /\ ConnInv /\ Driven /\ CrtcRanges /\ PlaneRanges

LEMMA CappedFixed ==
    ASSUME NEW best
    PROVE  Capped(best)' = Capped(best)
  BY DEF Capped, ConfMode

(* An event of the card leaves the queue by starting a set-up, or is lost. *)
LEMMA CleanBefore ==
    ASSUME TypeOK, [Next]_vars, Clean'
    PROVE  Clean \/ (pc = "idle" /\ pc' = "setup")
<1>1. ~CardPending(queue') /\ ~missed'
  BY DEF Clean, CardPending
<1>2. CASE queue' = queue /\ (missed => missed')
  BY <1>1, <1>2 DEF Clean
<1>3. CASE PollDRIDevices
  <2>1. queue # <<>> /\ queue' = Tail(queue) /\ pc = "idle"
    BY <1>3 DEF PollDRIDevices
  <2>2. SUFFICES ASSUME pc' # "setup" PROVE Clean
    BY <2>1
  <2>3. \/ Head(queue) # "card" /\ missed' = missed
        \/ missed' = (missed \/ (Head(queue) = "card" /\ ~CardPending(Tail(queue))))
    BY <1>3, <2>2 DEF PollDRIDevices
  <2>4. ~CardPending(Tail(queue))
    BY <1>1, <2>1
  <2>5. Head(queue) # "card"
    BY <1>1, <2>3, <2>4
  <2>6. ~CardPending(queue)
    BY <2>1, <2>4, <2>5, TailPending
  <2>7. ~missed
    BY <1>1, <2>3
  <2>8. QED
    BY <2>6, <2>7 DEF Clean
<1>4. CASE Kernel
  <2>1. Notify("card") \/ \E n \in Node \ {"card"} : Notify(n)
    BY <1>4, CardAssumption DEF Kernel, Plug, Unplug, OtherEvent
  <2>2. QED
    BY <1>1, <2>1, NotifyCard, NotifyOther DEF Clean
<1>5. CASE UNCHANGED vars
  BY <1>2, <1>5 DEF vars, kernelVars, ghostVars
<1>6. CASE SetupRead \/ SetupRange \/ SetupDone \/ BootActivate \/ BootDone
  BY <1>2, <1>6 DEF SetupRead, SetupRange, SetupDone, BootActivate, BootDone, kernelVars,
                    ghostVars
<1>7. CASE CountConnector \/ CountDone \/ GetSupportedNumConnector
           \/ FindDisplay \/ NoDisplay \/ \E i \in 0..NumConnectors : GetSupportedModes(i)
  BY <1>2, <1>7 DEF CountConnector, CountDone, GetSupportedNumConnector, FindDisplay,
                    NoDisplay, GetSupportedModes, kernelVars, ghostVars
<1>8. CASE (\E r \in Request : ChangeMode(r)) \/ \E ok \in BOOLEAN : ApplyMode(ok)
  BY <1>2, <1>8 DEF ChangeMode, ApplyMode, kernelVars, ghostVars
<1>9. QED
  BY <1>3, <1>4, <1>5, <1>6, <1>7, <1>8 DEF Next, Handler

LEMMA ConnNext == VInv /\ RouteInv /\ ConnInv /\ [VNext]_vvars => ConnInv'
<1>1. SUFFICES ASSUME VInv, RouteInv, ConnInv, [VNext]_vvars PROVE ConnInv'
  OBVIOUS
<1>2. TypeOK /\ AtConnector /\ [Next]_vars
  BY <1>1, StepIsInner DEF VInv
<1>3. CASE BindSinks
  <2>1. sink' = [w \in Wid |-> SinkOf(PhysicalPlane(w))] /\ crtc_id' = crtc_id
    BY <1>3 DEF BindSinks, vars, routeVars
  <2>2. SUFFICES ASSUME NEW w \in Wid, sink'[w].conn # NoConn
                 PROVE  /\ sink'[w].conn \in Connector /\ sink'[w].crtc \in Crtc
                        /\ crtc_id[sink'[w].conn] = sink'[w].crtc
    BY <2>1 DEF ConnInv
  <2> DEFINE c == PlaneCrtc(PhysicalPlane(w))
  <2>3. sink'[w].crtc = c /\ sink'[w].conn = FindConnector(c)
    BY <2>1, <2>2 DEF SinkOf, NoSink
  <2>4. c \in Crtc /\ \E k \in Connector : crtc_id[k] = c
    BY <2>2, <2>3, PlaneCrtcType DEF FindConnector
  <2>5. QED
    BY <2>3, <2>4, FindConnectorType, NotACrtc
<1>4. CASE sink' = sink
  <2>1. Keeps /\ RouteInv'
    BY <1>1, <1>2, InnerKeeps, RouteNext
  <2>2. \A k \in Connector : crtc_id[k] # NoCrtc => crtc_id'[k] = crtc_id[k]
    BY <1>1, <2>1, FallbackFixed DEF Keeps, RouteInv, GivenCrtcs
  <2>3. QED
    BY <1>1, <1>4, <2>2, NotACrtc DEF ConnInv
<1>5. QED
  BY <1>1, <1>3, <1>4, SinkFixed

LEMMA RerouteDriven ==
    ASSUME NEW c \in Crtc, NEW s, NEW ok, SetActiveMode(c, s, ok), NEW k \in Connector,
           kroute[k] # NoCrtc
    PROVE  kroute'[k] # NoCrtc
<1>1. (\E on : Reroute(c, on)) \/ kroute' = kroute
  BY DEF SetActiveMode
<1>2. ASSUME NEW on, Reroute(c, on)
      PROVE  kroute'[k] \in {c, NoEncoder, kroute[k]}
  BY <1>2 DEF Reroute
<1>3. QED
  BY <1>1, <1>2, NotACrtc

LEMMA DrivenNext == TypeOK /\ ReadsFallback /\ Driven /\ [Next]_vars => Driven'
<1> USE DEF Driven
<1>1. SUFFICES ASSUME TypeOK, ReadsFallback, Driven, [Next]_vars PROVE Driven'
  OBVIOUS
<1>2. CASE kroute' = kroute /\ crtc_id' = crtc_id
  BY <1>1, <1>2
<1>3. CASE UNCHANGED vars
  BY <1>2, <1>3 DEF vars, kernelVars, routeVars
<1>4. CASE SetupRead
  <2>1. PICK c \in {FindCrtc(at)} \cup Misread(at) :
          IF Usable(at, c) THEN crtc_id' = [crtc_id EXCEPT ![at] = c] ELSE crtc_id' = crtc_id
    BY <1>4 DEF SetupRead
  <2>2. at \in Connector /\ kroute' = kroute
    BY <1>4 DEF SetupRead, kernelVars
  <2>3. c # NoCrtc => kroute[at] # NoCrtc
    BY <1>1, <2>1, <2>2, NotACrtc DEF FindCrtc, Misread, ReadsFallback
  <2>4. QED
    BY <1>1, <2>1, <2>2, <2>3 DEF Usable, TypeOK
<1>5. CASE BootActivate
  <2>1. PICK c \in todo, ok \in BOOLEAN : SetActiveMode(c, maxSize[c], ok)
    BY <1>5 DEF BootActivate
  <2>2. c \in Crtc /\ crtc_id' = crtc_id
    BY <1>1, <1>5, <2>1 DEF TypeOK, BootActivate, routeVars
  <2>3. QED
    BY <1>1, <2>1, <2>2, RerouteDriven
<1>6. ASSUME NEW ok \in BOOLEAN, ApplyMode(ok)
      PROVE  Driven'
  <2>1. CASE target = NoCrtc
    BY <1>2, <1>6, <2>1 DEF ApplyMode, routeVars
  <2>2. CASE target # NoCrtc
    <3>1. target \in Crtc /\ SetActiveMode(target, req.win, ok) /\ crtc_id' = crtc_id
      BY <1>1, <1>6, <2>2 DEF TypeOK, ApplyMode, routeVars
    <3>2. QED
      BY <1>1, <3>1, RerouteDriven
  <2>3. QED
    BY <2>1, <2>2
<1>7. CASE SetupRange \/ SetupDone \/ BootDone \/ FindDisplay \/ NoDisplay
  BY <1>2, <1>7 DEF SetupRange, SetupDone, BootDone, FindDisplay, NoDisplay, kernelVars,
                    routeVars
<1>8. CASE CountConnector \/ CountDone \/ GetSupportedNumConnector \/ PollDRIDevices
           \/ (\E r \in Request : ChangeMode(r))
           \/ \E i \in 0..NumConnectors : GetSupportedModes(i)
  BY <1>2, <1>8 DEF CountConnector, CountDone, GetSupportedNumConnector, PollDRIDevices,
                    ChangeMode, GetSupportedModes, kernelVars, routeVars
<1>9. CASE Kernel
  BY <1>2, <1>9 DEF Kernel, Plug, Unplug, OtherEvent, routeVars
<1>10. QED
  BY <1>1, <1>3, <1>4, <1>5, <1>6, <1>7, <1>8, <1>9 DEF Next, Handler

(* Outside set-up, steps find the cache fresh and leave it and the routes; *)
(* only ApplyMode writes a range; set-up starts with nothing done.         *)
LEMMA OutsideSetup ==
    ASSUME TypeOK, FreshInv, [Next]_vars, ~InSetup
    PROVE  /\ Clean => \A k \in Connector : cmodes'[k] = cmodes[k]
           /\ crtc_id' = crtc_id
           /\ pc # "apply" => maxSize' = maxSize
           /\ InSetup' => \A k \in Connector : ~Done(k)'
<1> DEFINE Reads  == \A k \in Connector : cmodes'[k] \in {cmodes[k], kmodes[k]}
           Leaves == crtc_id' = crtc_id /\ (pc # "apply" => maxSize' = maxSize)
           Starts == InSetup' => pc' = "setup" /\ at' = 1
<1>1. SUFFICES Reads /\ Leaves /\ Starts
  <2>1. ASSUME Reads, Clean, NEW k \in Connector
        PROVE  cmodes'[k] = cmodes[k]
    BY <2>1 DEF FreshInv, Fresh, Unread, InSetup, Clean
  <2>2. ASSUME Starts, InSetup', NEW k \in Connector
        PROVE  ~Done(k)'
    BY <2>2, CardAssumption DEF Done, InSetup, Connector
  <2>3. QED
    BY <2>1, <2>2
<1>2. ASSUME cmodes' = cmodes, crtc_id' = crtc_id, maxSize' = maxSize
      PROVE  Reads /\ Leaves
  BY <1>2
<1>3. CASE UNCHANGED vars
  BY <1>2, <1>3 DEF vars, routeVars, rangeVars, InSetup
<1>4. CASE BootActivate
  <2>1. PICK c \in todo : \E ok \in BOOLEAN : SetActiveMode(c, maxSize[c], ok)
    BY <1>4 DEF BootActivate
  <2>2. c \in Crtc
    BY <2>1 DEF TypeOK
  <2>3. Reads
    BY <2>1, <2>2, SetActiveModeReads
  <2>4. QED
    BY <1>4, <2>3 DEF BootActivate, routeVars, rangeVars, InSetup
<1>5. ASSUME NEW ok \in BOOLEAN, ApplyMode(ok)
      PROVE  Reads /\ Leaves /\ Starts
  <2>1. Leaves /\ Starts
    BY <1>5 DEF ApplyMode, routeVars, InSetup
  <2>2. CASE target = NoCrtc
    BY <1>5, <2>1, <2>2 DEF ApplyMode
  <2>3. CASE target # NoCrtc
    <3>1. target \in Crtc /\ SetActiveMode(target, req.win, ok)
      BY <1>5, <2>3 DEF TypeOK, ApplyMode
    <3>2. QED
      BY <2>1, <3>1, SetActiveModeReads
  <2>4. QED
    BY <2>2, <2>3
<1>6. CASE CountConnector \/ FindDisplay
  <2>1. \E j \in Connector : ReadConnector(j)
    BY <1>6 DEF CountConnector, FindDisplay
  <2>2. QED
    BY <1>6, <2>1, ReadsOnly DEF CountConnector, FindDisplay, routeVars, rangeVars, InSetup
<1>7. CASE BootDone \/ CountDone \/ NoDisplay \/ GetSupportedNumConnector
           \/ (\E r \in Request : ChangeMode(r))
           \/ \E i \in 0..NumConnectors : GetSupportedModes(i)
  BY <1>2, <1>7 DEF BootDone, CountDone, NoDisplay, GetSupportedNumConnector, ChangeMode,
                    GetSupportedModes, routeVars, rangeVars, InSetup
<1>8. CASE PollDRIDevices
  <2>1. at = 1
    BY <1>8 DEF PollDRIDevices, FreshInv, AtStart
  <2>2. QED
    BY <1>2, <1>8, <2>1 DEF PollDRIDevices, routeVars, rangeVars, InSetup
<1>9. CASE Kernel
  BY <1>2, <1>9 DEF Kernel, Plug, Unplug, OtherEvent, routeVars, rangeVars, InSetup
<1>10. CASE SetupRead \/ SetupRange \/ SetupDone
  BY <1>10 DEF SetupRead, SetupRange, SetupDone, InSetup
<1>11. QED
  BY <1>3, <1>4, <1>5, <1>6, <1>7, <1>8, <1>9, <1>10 DEF Next, Handler

(* The sinks and planes are written when they are bound, and the planes at *)
(* the end of every set-up.                                                *)
LEMMA PlanesKept ==
    [VNext]_vvars => BindSinks \/ DeviceUpdated \/ UNCHANGED <<bound, sink, planeMax>>
<1>1. SUFFICES ASSUME [VNext]_vvars, ~BindSinks, ~DeviceUpdated
               PROVE  UNCHANGED <<bound, sink, planeMax>>
  OBVIOUS
<1>2. CASE UNCHANGED vvars \/ UNCHANGED valVars
  BY <1>2 DEF vvars, valVars, sinkVars
<1>3. CASE Counted \/ CallChangeMode \/ ModeChanged
  BY <1>3 DEF Counted, CallChangeMode, ModeChanged, valVars, sinkVars
<1>4. CASE Tick \/ GetNumConnector \/ (\E r \in Ask : SetDisplayResolution(r))
           \/ \E i \in 0..NumConnectors : AskResolutions(i)
  BY <1>4 DEF Tick, GetNumConnector, SetDisplayResolution, AskResolutions, valVars, sinkVars
<1>5. CASE \E w \in Wid : Connect(w) \/ Disconnect(w)
  BY <1>5 DEF Connect, Disconnect
<1>6. QED
  BY <1>1, <1>2, <1>3, <1>4, <1>5 DEF VNext, VHandler

(* What updatePlanes gives the plane of a bound sink, when the ranges of   *)
(* the CRTCs are those of their displays.                                  *)
LEMMA UpdateGivesRange ==
    ASSUME TypeOK, CapOneDimension, NEW sinks, UpdatePlanes(sinks), NEW w \in Wid,
           sinks[w].conn \in Connector, sinks[w].crtc \in Crtc,
           crtc_id[sinks[w].conn] = sinks[w].crtc, cmodes[sinks[w].conn] # <<>>,
           \A k \in Connector : cmodes[k] # <<>> /\ crtc_id[k] # NoCrtc =>
               maxSize[crtc_id[k]] = Capped(cmodes[k][1])
    PROVE  planeMax'[w] = Capped(cmodes[sinks[w].conn][1])
<1>1. Fits(maxSize[sinks[w].crtc])
  BY SizeAssumption DEF TypeOK, CapOneDimension, Fits, Zero
<1>2. planeMax'[w] = maxSize[sinks[w].crtc]
  BY <1>1 DEF UpdatePlanes, HasRange
<1>3. QED
  BY <1>2, NotACrtc

LEMMA RangeOutside ==
    ASSUME VInv, FreshInv, RangeInv, ConnInv', [VNext]_vvars, ~InSetup
    PROVE  CrtcRanges' /\ PlaneRanges'
<1>1. TypeOK /\ CapOneDimension /\ [Next]_vars
  BY StepIsInner DEF VInv
<1>2. /\ Clean => \A k \in Connector : cmodes'[k] = cmodes[k]
      /\ crtc_id' = crtc_id
      /\ pc # "apply" => maxSize' = maxSize
      /\ InSetup' => \A k \in Connector : ~Done(k)'
  BY <1>1, OutsideSetup
<1>3. Clean' /\ ~InSetup' => Clean
  BY <1>1, CleanBefore DEF InSetup
<1>4. \A k \in Connector : Done(k)
  BY DEF Done
<1>5. CASE BindSinks
  <2>1. /\ ~bound /\ bound' = TRUE /\ UpdatePlanes(sink')
        /\ vars' = vars
    BY <1>5 DEF BindSinks
  <2>2. ~InSetup' /\ (Clean' <=> Clean) /\ cmodes' = cmodes /\ crtc_id' = crtc_id
    BY <2>1 DEF vars, InSetup, Clean, CardPending, kernelVars, routeVars, ghostVars
  <2>3. ASSUME Clean, NEW w \in Wid, sink'[w].conn # NoConn, cmodes[sink'[w].conn] # <<>>
        PROVE  planeMax'[w] = Capped(cmodes[sink'[w].conn][1])
    <3>1. /\ sink'[w].conn \in Connector /\ sink'[w].crtc \in Crtc
          /\ crtc_id[sink'[w].conn] = sink'[w].crtc
      BY <2>2, <2>3 DEF ConnInv
    <3>2. \A k \in Connector : cmodes[k] # <<>> /\ crtc_id[k] # NoCrtc =>
               maxSize[crtc_id[k]] = Capped(cmodes[k][1])
      BY <1>4, <2>1, <2>3 DEF RangeInv, CrtcRanges
    <3>3. QED
      BY <1>1, <2>1, <2>3, <3>1, <3>2, UpdateGivesRange
  <2>4. QED
    BY <2>1, <2>2, <2>3, CappedFixed DEF CrtcRanges, PlaneRanges
<1>6. CASE ~BindSinks
  <2>1. ~DeviceUpdated
    BY DEF DeviceUpdated, SetupDone, InSetup
  <2>2. UNCHANGED <<bound, sink, planeMax>>
    BY <1>6, <2>1, PlanesKept
  <2>3. CrtcRanges'
    <3>1. SUFFICES ASSUME Clean', InSetup' \/ ~bound', NEW k \in Connector, Done(k)',
                          cmodes'[k] # <<>>, crtc_id'[k] # NoCrtc
                   PROVE  maxSize'[crtc_id'[k]] = Capped(cmodes'[k][1])
      BY CappedFixed DEF CrtcRanges
    <3>2. ~InSetup' /\ ~bound /\ Clean
      BY <1>2, <1>3, <2>2, <3>1
    <3>3. pc # "apply"
      BY <3>2 DEF RangeInv, BootPhase
    <3>4. QED
      BY <1>2, <1>4, <3>1, <3>2, <3>3 DEF RangeInv, CrtcRanges
  <2>4. PlaneRanges'
    <3>1. SUFFICES ASSUME Clean', ~InSetup', bound, NEW w \in Wid,
                          sink[w].conn # NoConn, cmodes'[sink[w].conn] # <<>>
                   PROVE  planeMax[w] = Capped(cmodes'[sink[w].conn][1])
      BY <2>2, CappedFixed DEF PlaneRanges
    <3>2. Clean /\ sink[w].conn \in Connector
      BY <1>3, <3>1 DEF RangeInv, ConnInv
    <3>3. QED
      BY <1>2, <3>1, <3>2 DEF RangeInv, PlaneRanges
  <2>5. QED
    BY <2>3, <2>4
<1>7. QED
  BY <1>5, <1>6

(* The steps there are during set-up. *)
LEMMA SetupSteps ==
    ASSUME [VNext]_vvars, InSetup
    PROVE  DeviceUpdated \/ (UNCHANGED valVars /\ (SetupRead \/ SetupRange \/ Kernel))
           \/ UNCHANGED vvars
<1>1. CASE Inner /\ UNCHANGED valVars
  BY <1>1 DEF InSetup, Inner, BootActivate, BootDone, CountConnector, FindDisplay, NoDisplay
<1>2. CASE BindSinks \/ Counted \/ CallChangeMode \/ ModeChanged
  BY <1>2 DEF InSetup, BindSinks, Counted, CountDone, CallChangeMode, ChangeMode,
              ModeChanged, ApplyMode
<1>3. CASE Tick \/ GetNumConnector \/ (\E r \in Ask : SetDisplayResolution(r))
           \/ \E i \in 0..NumConnectors : AskResolutions(i)
  BY <1>3 DEF InSetup, Tick, GetNumConnector, SetDisplayResolution, AskResolutions, Ready
<1>4. CASE \E w \in Wid : Connect(w) \/ Disconnect(w)
  BY <1>4 DEF InSetup, Connect, Disconnect, Ready
<1>5. QED
  BY <1>1, <1>2, <1>3, <1>4 DEF VNext, VHandler

LEMMA RangeInside ==
    ASSUME Disjoint, VInv, RouteInv, RangeInv, ConnInv', [VNext]_vvars, InSetup
    PROVE  CrtcRanges' /\ PlaneRanges'
<1>1. TypeOK /\ AtConnector /\ CapOneDimension /\ [Next]_vars
  BY StepIsInner DEF VInv
<1>2. Clean' => Clean
  BY <1>1, CleanBefore DEF InSetup
<1>3. CASE UNCHANGED vvars \/ (UNCHANGED valVars /\ Kernel)
  <2>1. /\ cmodes' = cmodes /\ crtc_id' = crtc_id /\ maxSize' = maxSize
        /\ pc' = pc /\ at' = at /\ bound' = bound
    BY <1>3 DEF vvars, vars, valVars, sinkVars, routeVars, rangeVars, Kernel, Plug, Unplug,
                OtherEvent
  <2>2. QED
    BY <1>2, <2>1, CappedFixed DEF RangeInv, CrtcRanges, PlaneRanges, Done, InSetup
<1>4. ASSUME NEW j \in Connector, j = at, SetupRead
      PROVE  CrtcRanges' /\ PlaneRanges'
  <2>1. /\ pc = "setup" /\ maxSize' = maxSize /\ InSetup'
        /\ cmodes' = [cmodes EXCEPT ![j] = kmodes[j]]
    BY <1>4 DEF SetupRead, ReadConnector, rangeVars, InSetup
  <2>2. \A k \in Connector \ {j} : Done(k)' => Done(k)
    BY <1>1, <1>4, <2>1, CardAssumption DEF SetupRead, Done, InSetup, Connector
  <2>3. \A k \in Connector \ {j} : cmodes'[k] = cmodes[k] /\ crtc_id'[k] = crtc_id[k]
    BY <1>1, <1>4, <2>1 DEF SetupRead, TypeOK
  <2>6. Clean' => ~missed' /\ ~CardPending(queue)
    BY <1>4 DEF SetupRead, Clean, CardPending, kernelVars
  <2>4. ASSUME Clean', Done(j)', cmodes'[j] # <<>>
        PROVE  crtc_id'[j] = NoCrtc
    <3>1. PICK c \in {FindCrtc(j)} \cup Misread(j) :
            /\ IF Usable(j, c) THEN pc' = "range" /\ at' = j ELSE crtc_id' = crtc_id
            /\ missed' = (missed \/ (Plugged(j) /\ c # FindCrtc(j) /\ ~CardPending(queue)))
      BY <1>4 DEF SetupRead
    <3>2. ~Usable(j, c)
      BY <1>4, <2>4, <3>1, CardAssumption DEF Done, InSetup, Connector
    <3>3. Plugged(j)
      BY <1>1, <2>1, <2>4 DEF Plugged, TypeOK
    <3>4. c = NoCrtc /\ crtc_id'[j] = crtc_id[j]
      BY <3>1, <3>2, <3>3 DEF Usable
    <3>5. ~(Plugged(j) /\ c # FindCrtc(j) /\ ~CardPending(queue))
      BY <2>4, <2>6, <3>1
    <3>6. FindCrtc(j) = NoCrtc
      BY <2>4, <2>6, <3>3, <3>4, <3>5
    <3>7. QED
      BY <3>4, <3>6, NotACrtc DEF RangeInv, Driven, RouteInv, GivenCrtcs, FindCrtc
  <2>5. QED
    BY <1>2, <2>1, <2>2, <2>3, <2>4, CappedFixed DEF RangeInv, CrtcRanges, PlaneRanges
<1>5. ASSUME NEW j \in Connector, j = at, SetupRange
      PROVE  CrtcRanges' /\ PlaneRanges'
  <2>1. /\ pc = "range" /\ crtc_id' = crtc_id /\ crtc_id[j] \in Crtc /\ InSetup'
        /\ cmodes' = [cmodes EXCEPT ![j] = kmodes[j]]
    BY <1>1, <1>5 DEF SetupRange, ReadConnector, AtConnector, InSetup
  <2>2. \A k \in Connector \ {j} : Done(k)' => Done(k)
    BY <1>1, <1>5, <2>1, CardAssumption DEF SetupRange, Done, InSetup, Connector
  <2>3. \A k \in Connector \ {j} : cmodes'[k] = cmodes[k]
    BY <2>1, <1>1 DEF TypeOK
  <2>4. CASE Plugged(j)
    <3>1. maxSize' = [maxSize EXCEPT ![crtc_id[j]] = Capped(kmodes[j][1])]
      BY <1>5, <2>4 DEF SetupRange, GetModeRange
    <3>2. maxSize'[crtc_id[j]] = Capped(cmodes'[j][1])
      BY <1>1, <2>1, <3>1 DEF TypeOK
    <3>3. \A k \in Connector \ {j} : crtc_id[k] # NoCrtc => crtc_id[k] # crtc_id[j]
      BY <1>5, <2>1, NotACrtc DEF RouteInv, GivenCrtcs, Disjoint
    <3>4. \A k \in Connector \ {j} :
             crtc_id[k] # NoCrtc => maxSize'[crtc_id[k]] = maxSize[crtc_id[k]]
      BY <1>1, <3>1, <3>3 DEF TypeOK
    <3>5. QED
      BY <1>2, <2>1, <2>2, <2>3, <3>2, <3>4, CappedFixed DEF RangeInv, CrtcRanges, PlaneRanges
  <2>5. CASE ~Plugged(j)
    <3>1. maxSize' = maxSize /\ ~Done(j)'
      BY <1>5, <2>1, <2>5, CardAssumption DEF SetupRange, rangeVars, Done, InSetup, Connector
    <3>2. QED
      BY <1>2, <2>1, <2>2, <2>3, <3>1, CappedFixed DEF RangeInv, CrtcRanges, PlaneRanges
  <2>6. QED
    BY <2>4, <2>5
<1>6. CASE DeviceUpdated
  <2>1. /\ pc = "setup" /\ at = NumConnectors + 1 /\ ~InSetup'
        /\ cmodes' = cmodes /\ crtc_id' = crtc_id /\ maxSize' = maxSize
        /\ bound' = bound /\ sink' = sink
    BY <1>6 DEF DeviceUpdated, SetupDone, InSetup, sinkVars, routeVars, rangeVars
  <2>2. \A k \in Connector : Done(k)
    BY <2>1, CardAssumption DEF Done, Connector
  <2>3. Clean => \A k \in Connector : cmodes[k] # <<>> /\ crtc_id[k] # NoCrtc =>
                    maxSize[crtc_id[k]] = Capped(cmodes[k][1])
    BY <2>2 DEF RangeInv, CrtcRanges
  <2>4. CrtcRanges'
    BY <1>2, <2>1, <2>3, CappedFixed DEF CrtcRanges
  <2>5. ASSUME Clean', bound, NEW w \in Wid, sink[w].conn # NoConn, cmodes[sink[w].conn] # <<>>
        PROVE  planeMax'[w] = Capped(cmodes[sink[w].conn][1])
    <3>1. UpdatePlanes(sink)
      BY <1>6, <2>5 DEF DeviceUpdated
    <3>2. /\ sink[w].conn \in Connector /\ sink[w].crtc \in Crtc
          /\ crtc_id[sink[w].conn] = sink[w].crtc
      BY <2>5 DEF RangeInv, ConnInv
    <3>3. QED
      BY <1>1, <1>2, <2>3, <2>5, <3>1, <3>2, UpdateGivesRange
  <2>6. QED
    BY <2>1, <2>4, <2>5, CappedFixed DEF PlaneRanges
<1>7. SetupRead \/ SetupRange => at \in Connector
  BY <1>1 DEF SetupRead, SetupRange, AtConnector
<1>8. QED
  BY <1>3, <1>4, <1>5, <1>6, <1>7, SetupSteps

LEMMA RangeNext ==
    ASSUME Disjoint
    PROVE  VInv /\ RouteInv /\ FreshInv /\ RangeInv /\ [VNext]_vvars => RangeInv'
<1>1. SUFFICES ASSUME VInv, RouteInv, FreshInv, RangeInv, [VNext]_vvars PROVE RangeInv'
  OBVIOUS
<1>2. TypeOK /\ [Next]_vars
  BY <1>1, StepIsInner DEF VInv
<1>3. BootPhase' /\ ConnInv' /\ Driven'
  BY <1>1, <1>2, BootPhaseNext, ConnNext, DrivenNext DEF RangeInv, RouteInv
<1>4. CrtcRanges' /\ PlaneRanges'
  BY <1>1, <1>3, RangeOutside, RangeInside
<1>5. QED
  BY <1>3, <1>4 DEF RangeInv

(* Between calls, with every event of the card seen, each logical plane    *)
(* has the range of the display now plugged: a mode change, which writes   *)
(* the CRTC's range, never reaches a plane, and no display plugged later   *)
(* is given the range of the one before it.                                *)
THEOREM RangeAlwaysCurrent == ASSUME Pinned, Disjoint PROVE VSpec => []RangeCurrent
<1>1. VInit => RangeInv
  <2>1. SUFFICES ASSUME VInit PROVE RangeInv
    OBVIOUS
  <2>2. ~bound /\ pc = "setup" /\ call = "none" /\ \A k \in Connector : crtc_id[k] = NoCrtc
    BY <2>1 DEF VInit, Init
  <2>3. \A w \in Wid : sink[w].conn = NoConn
    BY <2>1 DEF VInit, NoSink
  <2>4. QED
    BY <2>2, <2>3 DEF RangeInv, BootPhase, ConnInv, Driven, CrtcRanges, PlaneRanges
<1>2. VInv /\ FreshInv /\ RangeInv => RangeCurrent
  <2>1. SUFFICES ASSUME VInv, FreshInv, RangeInv, Ready, Clean, NEW w \in Wid,
                        NEW k \in Connector, sink[w].conn = k, Plugged(k)
                 PROVE  planeMax[w] = Capped(kmodes[k][1])
    BY DEF RangeCurrent, Clean
  <2>2. cmodes[k] = kmodes[k]
    BY <2>1 DEF FreshInv, Fresh, Unread, Ready, Clean
  <2>3. k # NoConn
    BY CardAssumption DEF Connector, NoConn
  <2>4. QED
    BY <2>1, <2>2, <2>3 DEF RangeInv, PlaneRanges, Ready, InSetup, Plugged
<1>3. QED
  BY <1>1, <1>2, RangeNext, VInvAlways, VRouteAlways, VFreshAlways, PTL DEF VSpec
=============================================================================
