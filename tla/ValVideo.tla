------------------------------ MODULE ValVideo ------------------------------
(***************************************************************************)
(* val_video_impl: the public calls on top of DRIElements.                 *)
(*                                                                         *)
(* The constructor lets DRIElements start the card, then binds each        *)
(* logical plane to a physical plane, a CRTC and a connector, once and for *)
(* all: its video sink.  After that the main loop serves one thing at a    *)
(* time, a public call or a tick of the hotplug timer; updatePlanes is     *)
(* called back at the end of every device setup.                           *)
(*                                                                         *)
(* Every step is a step of DriElements, or one that leaves it alone.       *)
(***************************************************************************)
EXTENDS DriElements

CONSTANTS
    NumPlanes,    \* logical planes of the device capability file
    PlaneMasks    \* possible_crtcs of the physical planes, in planeList order

ASSUME PlaneAssumption == NumPlanes \in Nat /\ PlaneMasks \in Seq(SUBSET Crtc)

Wid     == 0..NumPlanes - 1
PlaneId == DOMAIN PlaneMasks
NoPlane == 0
NoConn  == 0
NoSink  == [plane |-> NoPlane, crtc |-> NoCrtc, conn |-> NoConn]

VARIABLES
    bound,      \* the constructor of val_video_impl has finished
    sink,       \* videoSinks: planeId, crtcId, connId
    connected,  \* videoSinks: connected
    planeMax,   \* logicalPlanes: maxSizeT
    call,       \* the public call under way
    asked,      \* its arguments
    reply       \* what the last setDisplayResolution returned

sinkVars  == <<bound, sink, connected>>
replyVars == <<call, asked, reply>>
valVars   == <<sinkVars, planeMax, replyVars>>
vvars     == <<vars, valVars>>

Ask == [win : Size, path : 0..NumConnectors]
NoAsk == NoRequest

VTypeOK ==
    /\ bound \in BOOLEAN
    /\ sink \in [Wid -> [plane : PlaneId \cup {NoPlane}, crtc : Crtc \cup {NoCrtc},
                         conn : Connector \cup {NoConn}]]
    /\ connected \in [Wid -> BOOLEAN]
    /\ planeMax \in [Wid -> Size \cup {Zero}]
    /\ call \in {"none", "resolution", "change", "connectors"}
    /\ asked \in Ask
    /\ reply \in BOOLEAN

(* Until the sinks are bound every logical plane has the device maximum.   *)
(* The first callback finds no logical plane yet.                          *)
VInit ==
    /\ Init
    /\ bound = FALSE
    /\ sink = [w \in Wid |-> NoSink]
    /\ connected = [w \in Wid |-> FALSE]
    /\ planeMax = [w \in Wid |-> InitialMode]
    /\ call = "none"
    /\ asked = NoAsk
    /\ reply = FALSE

-----------------------------------------------------------------------------
(* Binding the sinks.                                                      *)

(* A variant a run must reject: the mask of the plane not looked at. *)
AnyPlane(c) == PlaneId

PlanesOf(c) == {p \in PlaneId : c \in PlaneMasks[p]}

(* getPlanes: every CRTC that has a connector, with every plane it can     *)
(* use, in the order of Before; a plane two such CRTCs can use is there    *)
(* twice.                                                                  *)
GetPlanes == {e \in Crtc \X PlaneId : connectors[e[1]] # {} /\ e[2] \in PlanesOf(e[1])}
Before(e, f) == e[1] < f[1] \/ (e[1] = f[1] /\ e[2] < f[2])
Place(e) == Cardinality({f \in GetPlanes : Before(f, e)})

(* findCrtc(planeId): the first CRTC of the mask, in use or not; the first *)
(* of all for an id that is not in planeList.                              *)
Possible(p) == IF p \in PlaneId THEN PlaneMasks[p] ELSE Crtc
PlaneCrtc(p) ==
    IF Possible(p) = {} THEN NoCrtc
    ELSE CHOOSE c \in Possible(p) : IsFirst(c, Possible(p))

(* findConnector: the first connector that was given this CRTC. *)
FindConnector(c) ==
    LET given == {k \in Connector : crtc_id[k] = c}
    IN  IF c = NoCrtc \/ given = {} THEN NoConn ELSE CHOOSE k \in given : \A j \in given : k <= j

(* A variant a run must reject: SinkInfo's first and last argument swapped. *)
SwappedSink(p) == IF p = NoPlane THEN NoSink
                  ELSE [plane |-> FindConnector(PlaneCrtc(p)), crtc |-> PlaneCrtc(p), conn |-> p]

SinkOf(p) == IF p = NoPlane THEN NoSink
             ELSE [plane |-> p, crtc |-> PlaneCrtc(p), conn |-> FindConnector(PlaneCrtc(p))]

AtPlace(e, w) == e \in GetPlanes /\ Place(e) = w

(* A variant a run must reject: physicalPlaneId not advanced. *)
FirstPlane(w) ==
    IF \E e \in GetPlanes : AtPlace(e, w)
    THEN (CHOOSE e \in GetPlanes : AtPlace(e, 0))[2]
    ELSE NoPlane

(* One physical plane per logical plane, while there are some. *)
PhysicalPlane(w) ==
    IF \E e \in GetPlanes : AtPlace(e, w)
    THEN (CHOOSE e \in GetPlanes : AtPlace(e, w))[2]
    ELSE NoPlane

(* A variant a run must reject: both dimensions have to fit. *)
FitsBoth(s) == InitialMode.h >= s.h /\ InitialMode.w >= s.w

(* DRIElements::getModeRange finds the CRTC. *)
HasRange(c) == c \in Crtc

(* The guard of updatePlanes. *)
Fits(s) == InitialMode.h >= s.h \/ InitialMode.w >= s.w

(* A variant a run must reject: the planes updated by the constructor only.*)
UpdatePlanesOnce(sinks) ==
    planeMax' = [w \in Wid |->
        LET c == sinks[w].crtc
        IN  IF HasRange(c) /\ ~bound THEN maxSize[c] ELSE planeMax[w]]

(* updatePlanes; a sink without CRTC keeps its maximum. *)
UpdatePlanes(sinks) ==
    planeMax' = [w \in Wid |->
        LET c == sinks[w].crtc
        IN  IF HasRange(c) /\ Fits(maxSize[c]) THEN maxSize[c] ELSE planeMax[w]]

(* The rest of the constructor. *)
BindSinks ==
    /\ ~bound /\ pc = "idle"
    /\ bound' = TRUE
    /\ sink' = [w \in Wid |-> SinkOf(PhysicalPlane(w))]
    /\ UpdatePlanes(sink')
    /\ UNCHANGED <<vars, connected, replyVars>>

-----------------------------------------------------------------------------
(* The callback at the end of updateDevice.  While DRIElements is being    *)
(* constructed there are no logical planes to update.                      *)
DeviceUpdated ==
    /\ SetupDone
    /\ IF bound THEN UpdatePlanes(sink) ELSE UNCHANGED planeMax
    /\ UNCHANGED <<sinkVars, replyVars>>

(* The main loop takes the next call or tick. *)
Ready == bound /\ pc = "idle" /\ call = "none"

Tick == Ready /\ PollDRIDevices /\ UNCHANGED valVars

-----------------------------------------------------------------------------
(* The sinks.                                                              *)

(* Connecting a connected sink changes nothing, and leaves *planeId alone. *)
Connect(w) ==
    /\ Ready
    /\ connected' = [connected EXCEPT ![w] = TRUE]
    /\ UNCHANGED <<vars, bound, sink, planeMax, replyVars>>

Disconnect(w) ==
    /\ Ready /\ connected[w]
    /\ connected' = [connected EXCEPT ![w] = FALSE]
    /\ UNCHANGED <<vars, bound, sink, planeMax, replyVars>>

-----------------------------------------------------------------------------
(* setDisplayResolution, and getParam of VAL_CTRL_NUM_CONNECTOR, which     *)
(* counts the plugged connectors too.                                      *)

Return(r) == call' = "none" /\ asked' = NoAsk /\ reply' = r

(* What isValidMode rejects is refused at once. *)
SetDisplayResolution(r) ==
    /\ Ready
    /\ IF IsValidMode(r.win)
       THEN /\ call' = "resolution" /\ asked' = r /\ UNCHANGED reply
            /\ GetSupportedNumConnector
       ELSE Return(FALSE) /\ UNCHANGED vars
    /\ UNCHANGED <<sinkVars, planeMax>>

(* The path is compared with the number of plugged displays. *)
Counted ==
    /\ CountDone
    /\ IF call = "resolution" /\ count > asked.path
       THEN call' = "change" /\ UNCHANGED <<asked, reply>>
       ELSE Return(IF call = "resolution" THEN FALSE ELSE reply)
    /\ UNCHANGED <<sinkVars, planeMax>>

CallChangeMode ==
    /\ call = "change"
    /\ ChangeMode(asked)
    /\ UNCHANGED valVars

(* changeMode's result is taken for an error code: true is a failure. *)
ModeChanged ==
    /\ call = "change"
    /\ \E ok \in BOOLEAN : ApplyMode(ok) /\ Return(~ok)
    /\ UNCHANGED <<sinkVars, planeMax>>

GetNumConnector ==
    /\ Ready
    /\ GetSupportedNumConnector
    /\ call' = "connectors" /\ UNCHANGED <<asked, reply>>
    /\ UNCHANGED <<sinkVars, planeMax>>

-----------------------------------------------------------------------------
(* The resolutions offered to callers, a read of the cached connector.     *)

(* DrmConnector::getSupportedModes: the sizes last read. *)
ConnectorModes(k) == cmodes[k]

(* std::unique: the first of each run of equal sizes.  The list is given   *)
(* by the places of ConnectorModes that it keeps.                          *)
SupportedModes(k) ==
    LET m == ConnectorModes(k)
    IN  {i \in DOMAIN m : i = 1 \/ m[i] # m[i - 1]}

(* A variant a run must reject: isValidMode not asked. *)
SupportedUnfiltered(k) == SupportedModes(k)

GetSupportedResolutions(k) ==
    {i \in SupportedModes(k) : IsValidMode(ConnectorModes(k)[i])}

(* getSupportedResolutions(dispIndex): the connector is dispIndex + 1. *)
AskResolutions(i) == Ready /\ GetSupportedModes(i) /\ UNCHANGED valVars

-----------------------------------------------------------------------------
(* Steps of a handler that do not reach val_video_impl. *)
Inner == \/ SetupRead \/ SetupRange
         \/ BootActivate \/ BootDone
         \/ CountConnector
         \/ FindDisplay \/ NoDisplay

VHandler == \/ Inner /\ UNCHANGED valVars
            \/ BindSinks
            \/ DeviceUpdated
            \/ Counted
            \/ CallChangeMode
            \/ ModeChanged

VNext ==
    /\ alive
    /\ \/ VHandler
       \/ Kernel /\ UNCHANGED valVars
       \/ Tick
       \/ \E r \in Ask : SetDisplayResolution(r)
       \/ GetNumConnector
       \/ \E i \in 0..NumConnectors : AskResolutions(i)
       \/ \E w \in Wid : Connect(w) \/ Disconnect(w)

(* As in DriElements: a call under way runs to its end, and the timer is   *)
(* not passed over for ever.                                               *)
VFairness ==
    /\ WF_vvars(alive /\ VHandler)
    /\ SF_vvars(alive /\ Tick)

VSpec == VInit /\ [][VNext]_vvars /\ VFairness

-----------------------------------------------------------------------------
(* Two connected sinks never hold the same physical plane.                 *)
(* (val_video_impl.cpp:39: "one per logical planes".)                      *)
PlaneExclusive ==
    \A v, w \in Wid :
        connected[v] /\ connected[w] /\ sink[v].plane = sink[w].plane
          => v = w \/ sink[v].plane = NoPlane

(* Two sinks are bound to one physical plane only if several CRTCs that    *)
(* plane can use drive a connector: getPlanes lists the plane once for     *)
(* each, and never one CRTC's plane twice.                                 *)
TwiceOnlyIfShared ==
    \A v, w \in Wid : v # w /\ sink[v].plane # NoPlane /\ sink[v].plane = sink[w].plane =>
        \E c, d \in PlaneMasks[sink[v].plane] :
            c # d /\ connectors[c] # {} /\ connectors[d] # {}

(* The sinks are bound once; this is how wrong they may become, on any     *)
(* card.  A sink without a connector names a dark CRTC only because        *)
(* another CRTC of its plane drives one.  And the connector of a sink is   *)
(* still given the CRTC of the sink, unless its encoders can drive another *)
(* one: then one of the two is the CRTC findCrtc falls back to.            *)
SinkCurrent ==
    \A w \in Wid : sink[w].plane # NoPlane =>
        IF sink[w].conn = NoConn
        THEN \E c \in PlaneMasks[sink[w].plane] \ {sink[w].crtc} : connectors[c] # {}
        ELSE LET k == sink[w].conn
             IN  k \notin Flaky =>
                    \/ crtc_id[k] = sink[w].crtc
                    \/ FallbackCrtc(k) \in {sink[w].crtc, crtc_id[k]}

(* Between calls, when no event of the card is pending and nothing was     *)
(* missed, the maximum of a logical plane is the one computed from the     *)
(* display now plugged, whatever modes were set and displays exchanged     *)
(* before.                                                                 *)
RangeCurrent ==
    Ready /\ ~CardPending(queue) /\ ~missed =>
        \A w \in Wid, k \in Connector :
            sink[w].conn = k /\ Plugged(k) => planeMax[w] = Capped(kmodes[k][1])

(* The guard of updatePlanes never refuses a range: after every setup of   *)
(* the device each logical plane has the maximum of its CRTC.              *)
RangeTaken ==
    [][DeviceUpdated /\ bound =>
         \A w \in Wid : sink[w].crtc # NoCrtc => planeMax'[w] = maxSize[sink[w].crtc]]_vvars

(* Once the display of a sink settles, the maximum of its logical plane    *)
(* becomes and stays the one computed from that display, whatever calls    *)
(* and mode changes go on, unless the last hotplug event was lost or an    *)
(* encoder was not given after it.                                         *)
MaxFollows ==
    \A w \in Wid, k \in Connector, m \in ModeLists :
        <>[](sink[w].conn = k /\ kmodes[k] = m /\ ~missed)
          => <>[](~alive \/ planeMax[w] = Capped(m[1]))

(* Between calls, when no event of the card is pending and nothing was     *)
(* missed, the resolutions offered for connector k are those of the        *)
(* display now plugged that a caller may ask for, though nothing reads it  *)
(* again.                                                                  *)
OffersCurrent ==
    Ready /\ ~CardPending(queue) /\ ~missed =>
        \A k \in Connector :
            {ConnectorModes(k)[i] : i \in GetSupportedResolutions(k)} =
                {s \in Size : IsValidMode(s) /\ IsModeSupported(k, s)}

(* driElements.cpp:550: "Get unique wxh values": no resolution is offered  *)
(* twice.                                                                  *)
OffersUnique ==
    Ready => \A k \in Connector : \A i, j \in GetSupportedResolutions(k) :
        ConnectorModes(k)[i] = ConnectorModes(k)[j] => i = j

(* val_video_impl.cpp:260 logs "Resolution change failed" where it returns *)
(* false: then no CRTC was given the picture asked for.                    *)
FalseMeansFailed ==
    [][call = "change" /\ call' = "none" /\ ~reply' =>
         \A c \in Crtc : picture'[c] = asked.win => picture[c] = asked.win]_vvars

(* driElements.cpp:160-161: "display_path 0 means primary display, 1 means *)
(* secondary display": the count refuses no path whose display has just    *)
(* been read as plugged.                                                   *)
PathAccepted ==
    [][call = "resolution" /\ call' = "none" =>
         \A k \in Connector : k = asked.path + 1 => cmodes[k] = <<>>]_vvars

-----------------------------------------------------------------------------
(* The abstract specification this module implements, on cards that are    *)
(* Pinned and Disjoint.  A display's output is the CRTC findCrtc falls     *)
(* back to: there it is the only one that can drive the display.           *)
Path == 0..NumConnectors - 1
Output == [p \in Path |-> FallbackCrtc(p + 1)]
PictureOn(p) == IF Output[p] \in Crtc THEN picture[Output[p]] ELSE Dark

Abs == INSTANCE DisplayControl WITH
         MaxSize <- InitialMode,
         MinSize <- MinMode,
         Request <- Ask,
         started <- bound,
         shown   <- [p \in Path |-> PictureOn(p)],
         pending <- IF call \in {"resolution", "change"} THEN {asked} ELSE {}

(* Through hotplug, events and calls in any order, a picture comes onto an *)
(* output at start, once, or by the one call that names its path, in the   *)
(* size asked for; an output that is dark stays dark until then, whatever  *)
(* is plugged into it; and no call touches another output.                 *)
ImplementsDisplayControl == Abs!Spec
=============================================================================
