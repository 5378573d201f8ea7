---------------------------- MODULE DriElements ----------------------------
(***************************************************************************)
(* DRIElements and DriDevice: which connectors are plugged, which CRTC     *)
(* drives which connector, what modes fit, and setting a mode.             *)
(*                                                                         *)
(* The library runs in one GLib main loop.  What interleaves with it is    *)
(* the kernel: a display may be plugged or unplugged between any two       *)
(* drmModeGetConnector calls of one handler, so each handler is modelled   *)
(* connector by connector, and the hotplug events of the card wait in the  *)
(* udev monitor's socket until the 250 ms timer takes one.                 *)
(*                                                                         *)
(* Module Scanout gives the outcome of createScanoutFb and drmModeSetCrtc. *)
(***************************************************************************)
EXTENDS Integers, Sequences, FiniteSets, Scanout

CONSTANTS
    NumConnectors,   \* length of DriDevice::connectorList
    Encoders,        \* per connector, possible_crtcs of its encoders, in order
    ModeLists,       \* mode lists a display may report, best mode first
    InitialMode,     \* mInitialMode, DeviceCapability::getMaxResolution()
    MinMode,         \* DeviceCapability::getMinResolution()
    BootRoute,       \* the routes firmware and console may leave behind
    Flaky,           \* connectors whose encoders drmModeGetEncoder may not give
    OtherNodes,      \* what the events that are not the card's name
    MaxQueue         \* bound: events the monitor's socket holds

Connector == 1..NumConnectors
NoEncoder == -1
NoCrtc    == 0
Zero      == [w |-> 0, h |-> 0]

(* The node an event names: the card, another card, or none, as the event  *)
(* of a connector device.                                                  *)
Node == {"card", "other", "nameless"}

(* Crtc ids are positive and numbered in crtcList order. *)
ASSUME CrtcAssumption == Crtc \subseteq Nat \ {0}
ASSUME SizeAssumption ==
    /\ Size \subseteq [w : Nat \ {0}, h : Nat \ {0}]
    /\ InitialMode \in Size
    /\ MinMode \in [w : Nat, h : Nat]
    /\ Dark \notin Size
ASSUME CardAssumption ==
    /\ NumConnectors \in Nat
    /\ Encoders \in [Connector -> Seq(SUBSET Crtc)]
    /\ \A m \in ModeLists : m \in Seq(Size) /\ m # <<>>
    /\ BootRoute \subseteq [Connector -> Crtc \cup {NoCrtc, NoEncoder}]
    /\ Flaky \subseteq Connector
    /\ OtherNodes \subseteq Node \ {"card"}
    /\ MaxQueue \in Nat \ {0}

VARIABLES
    (* the kernel *)
    kmodes,     \* kmodes[k]: modes of the display on connector k, <<>>: none
    kroute,     \* kroute[k]: crtc of the encoder of k, NoCrtc or NoEncoder
    queue,      \* nodes named by the udev events not yet received
    (* DrmConnector *)
    cmodes,     \* cmodes[k]: the modes last read (mConnectorPtr->modes)
    crtc_id,    \* crtc_id[k]: the CRTC given to connector k
    (* DrmCrtc *)
    connectors, \* connectors[c]: the connectors given to CRTC c
    maxSize,    \* maxSize[c]: crtc.max
    minSize,    \* minSize[c]: crtc.min
    (* DRIElements *)
    mConfiguredMode,
    (* the handler under way *)
    pc,         \* "setup", "range", "activate", "idle", "count", "find", "apply"
    at,         \* the connector its loop has come to
    todo,       \* CRTCs the constructor has still to activate
    booting,    \* the constructor has not finished
    req,        \* arguments of changeMode: [win, path]
    target,     \* the CRTC changeMode found
    count,      \* getSupportedNumConnector: plugged connectors so far
    (* history *)
    met,        \* what kernel and callers did that the code does not survive
    missed      \* a hotplug event was lost, or an encoder not given to set-up,
                \* and no event of the card is pending since

kernelVars == <<kmodes, kroute, queue>>
routeVars  == <<crtc_id, connectors>>
rangeVars  == <<maxSize, minSize>>
callVars   == <<req, target, count>>
ghostVars  == <<met, missed>>
vars == <<scanoutVars, kernelVars, cmodes, routeVars, rangeVars, mConfiguredMode,
          pc, at, todo, booting, callVars, ghostVars>>

Displays == ModeLists \cup {<<>>}
Within(s, cap) == s.w <= cap.w /\ s.h <= cap.h

(* val_video_impl::isValidMode, which lets a call through to changeMode. *)
IsValidMode(s) == Within(s, InitialMode) /\ Within(MinMode, s)

(* What callers may ask of changeMode. *)
Request == [win : {s \in Size : IsValidMode(s)}, path : 0..NumConnectors]

NoRequest == [win |-> InitialMode, path |-> 0]

TypeOK ==
    /\ ScanoutTypeOK
    /\ kmodes \in [Connector -> Displays]
    /\ kroute \in [Connector -> Crtc \cup {NoCrtc, NoEncoder}]
    /\ queue \in Seq(Node) /\ Len(queue) <= MaxQueue
    /\ cmodes \in [Connector -> Displays]
    /\ crtc_id \in [Connector -> Crtc \cup {NoCrtc}]
    /\ connectors \in [Crtc -> {{}} \cup {{k} : k \in Connector}]
    /\ maxSize \in [Crtc -> Size \cup {Zero}]
    /\ minSize \in [Crtc -> Size \cup {Zero}]
    /\ mConfiguredMode \in Size
    /\ pc \in {"setup", "range", "activate", "idle", "count", "find", "apply"}
    /\ at \in 1..NumConnectors + 1
    /\ todo \in SUBSET Crtc
    /\ booting \in BOOLEAN
    /\ req \in Request \cup {NoRequest}
    /\ target \in Crtc \cup {NoCrtc}
    /\ count \in 0..NumConnectors
    /\ met \subseteq {"unplug", "nameless", "index"}
    /\ missed \in BOOLEAN

(* The constructor has read every connector once (loadResources) and is    *)
(* about to set the device up (updateDevice).                              *)
Init ==
    /\ ScanoutInit
    /\ kmodes \in [Connector -> Displays]
    /\ kroute \in BootRoute
    /\ queue = <<>>
    /\ cmodes = kmodes
    /\ crtc_id = [k \in Connector |-> NoCrtc]
    /\ connectors = [c \in Crtc |-> {}]
    /\ maxSize = [c \in Crtc |-> Zero]
    /\ minSize = [c \in Crtc |-> Zero]
    /\ mConfiguredMode = InitialMode
    /\ pc = "setup"
    /\ at = 1
    /\ todo = Crtc
    /\ booting = TRUE
    /\ req = NoRequest
    /\ target = NoCrtc
    /\ count = 0
    /\ met = {}
    /\ missed = FALSE

-----------------------------------------------------------------------------
(* Reading a connector, and choosing its CRTC.                             *)

Plugged(k) == kmodes[k] # <<>>

(* A variant a run must reject: the connector read once, at start. *)
ReadConnectorOnce(k) == UNCHANGED cmodes

(* isPlugged: read the connector again, and say what it now reports. *)
ReadConnector(k) == cmodes' = [cmodes EXCEPT ![k] = kmodes[k]]

IsFirst(c, mask) == c \in mask /\ \A d \in mask : c <= d

(* Of the encoders the kernel gives, the last one that can drive some CRTC *)
(* decides: its first CRTC.                                                *)
LastCrtc(k, given) ==
    LET enc  == Encoders[k]
        Last(i) == enc[i] # {} /\ \A j \in given : enc[j] # {} => j <= i
    IN  IF \E i \in given : Last(i)
        THEN CHOOSE c \in Crtc : \E i \in given : Last(i) /\ IsFirst(c, enc[i])
        ELSE NoCrtc

FallbackCrtc(k) == LastCrtc(k, DOMAIN Encoders[k])

(* What findCrtc may find when some encoder is not given: the current one  *)
(* missing leads to the fallback, and a missing one is left out of it.     *)
Misread(k) ==
    IF k \in Flaky THEN {LastCrtc(k, given) : given \in SUBSET DOMAIN Encoders[k]} ELSE {}

(* Variants a run must reject: the CRTC of the current encoder forgotten,  *)
(* and the encoder masks forgotten.                                        *)
FindCrtcIgnoringRoute(k) == FallbackCrtc(k)
FindCrtcIgnoringMasks(k) ==
    IF kroute[k] # NoEncoder THEN kroute[k] ELSE CHOOSE c \in Crtc : IsFirst(c, Crtc)

(* The CRTC of the current encoder, even if it has none; else the fallback.*)
FindCrtc(k) == IF kroute[k] # NoEncoder THEN kroute[k] ELSE FallbackCrtc(k)

(* updateDevice: whatever mConfiguredMode is, this is InitialMode. *)
ConfMode == IF mConfiguredMode # InitialMode THEN InitialMode ELSE mConfiguredMode

(* A variant a run must reject: no clamp. *)
CappedNever(best) == best

(* The display's best mode if it is smaller than the configured one, in    *)
(* either dimension; otherwise the configured mode.                        *)
Capped(best) ==
    IF (best.w < ConfMode.w \/ best.h < ConfMode.h) /\ best.w # 0 /\ best.h # 0
    THEN best
    ELSE ConfMode

-----------------------------------------------------------------------------
(* setupDevice, one connector after the other.                             *)

CardPending(q) == \E i \in DOMAIN q : q[i] = "card"

(* A variant a run must reject: no isPlugged before getModeRange. *)
UsableUnread(k, c) == c # NoCrtc

Usable(k, c) == Plugged(k) /\ c # NoCrtc

(* First read.  An unplugged connector keeps the CRTC it was given. *)
SetupRead ==
    /\ pc = "setup" /\ at \in Connector
    /\ ReadConnector(at)
    /\ \E c \in {FindCrtc(at)} \cup Misread(at) :
         /\ IF Usable(at, c)
            THEN /\ crtc_id' = [crtc_id EXCEPT ![at] = c]
                 /\ pc' = "range"
                 /\ UNCHANGED at
            ELSE /\ at' = at + 1
                 /\ UNCHANGED <<crtc_id, pc>>
         /\ missed' = (missed \/ (Plugged(at) /\ c # FindCrtc(at) /\ ~CardPending(queue)))
    /\ UNCHANGED <<scanoutVars, kernelVars, connectors, rangeVars,
                   mConfiguredMode, todo, booting, callVars, met>>

(* A variant a run must reject: the previous connector not cleared. *)
LinkedToo(c, k) == [connectors EXCEPT ![c] = @ \cup {k}]

Linked(c, k) == [connectors EXCEPT ![c] = {k}]

(* The first mode and the last one. *)
GetModeRange(m) == [max |-> m[1], min |-> m[Len(m)]]

(* Second read, inside getModeRange.  If the display is gone, getModeRange *)
(* leaves both modes null and setupDevice, which ignores its result,       *)
(* dereferences them.                                                      *)
SetupRange ==
    /\ pc = "range"
    /\ ReadConnector(at)
    /\ IF Plugged(at)
       THEN LET c == crtc_id[at]
                r == GetModeRange(kmodes[at])
            IN  /\ connectors' = Linked(c, at)
                /\ maxSize' = [maxSize EXCEPT ![c] = Capped(r.max)]
                /\ minSize' = [minSize EXCEPT ![c] = r.min]
                /\ at' = at + 1
                /\ pc' = "setup"
                /\ UNCHANGED alive
       ELSE /\ alive' = FALSE
            /\ UNCHANGED <<connectors, rangeVars, at, pc>>
    /\ UNCHANGED <<picture, sound, kernelVars, crtc_id, mConfiguredMode,
                   todo, booting, callVars, ghostVars>>

(* Every connector is set up; mValCallBack is called here. *)
SetupDone ==
    /\ pc = "setup" /\ at = NumConnectors + 1
    /\ pc' = IF booting THEN "activate" ELSE "idle"
    /\ at' = 1
    /\ UNCHANGED <<scanoutVars, kernelVars, cmodes, routeVars, rangeVars,
                   mConfiguredMode, todo, booting, callVars, ghostVars>>

-----------------------------------------------------------------------------
(* setActiveMode.                                                          *)

(* The connectors the kernel has on a CRTC that shows nothing any more. *)
WentDark(c) == picture[c] # Dark /\ picture'[c] = Dark

(* The other CRTCs that lose their last connector to a mode set on c: the  *)
(* kernel turns them off.                                                  *)
Robbed(c, on) ==
    {d \in Crtc \ {c} : /\ \E k \in on : kroute[k] = d
                        /\ \A k \in Connector : kroute[k] = d => k \in on}

(* The kernel's routes after the mode set: connectors of a CRTC turned off *)
(* lose their encoder, and so do those that a new list of connectors for   *)
(* CRTC c leaves out.                                                      *)
Reroute(c, on) ==
    kroute' = [k \in Connector |->
        IF k \in on THEN c
        ELSE IF kroute[k] \in Crtc /\ (WentDark(kroute[k]) \/ (on # {} /\ kroute[k] = c))
             THEN NoEncoder
        ELSE kroute[k]]

IsModeSupported(k, s) == \E i \in DOMAIN kmodes[k] : kmodes[k][i] = s

(* The connector of c is gone, or does not have this mode. *)
Unsupported(c, s) == \E k \in connectors[c] : ~IsModeSupported(k, s)

(* A variant a run must reject: every plugged connector of the list. *)
ConnIdsOfAll(c) == {k \in Connector : cmodes[k] # <<>>}

(* conn_ids: the connectors the kernel is asked to put on c. *)
ConnIds(c) == connectors[c]

(* Returns ok.  A mode the kernel refuses is reported as a success. *)
SetActiveMode(c, s, ok) ==
    IF connectors[c] = {}
    THEN ~ok /\ UNCHANGED <<cmodes, kroute, scanoutVars>>
    ELSE /\ \E k \in connectors[c] : ReadConnector(k)
         /\ IF Unsupported(c, s)
            THEN ~ok /\ UNCHANGED <<kroute, scanoutVars>>
            ELSE \/ /\ ok /\ Shown(c, s, Robbed(c, ConnIds(c)))
                    /\ Reroute(c, ConnIds(c))
                 \/ ok  /\ Refused(c)    /\ Reroute(c, {})
                 \/ ~ok /\ NoBuffer(c)   /\ Reroute(c, {})
                 \/ ~ok /\ HeapCorrupted /\ UNCHANGED kroute

(* The constructor sets every CRTC to its max mode, in crtcList order, and *)
(* then starts the timer.                                                  *)
BootActivate ==
    /\ pc = "activate"
    /\ \E c \in todo :
         /\ IsFirst(c, todo)
         /\ \E ok \in BOOLEAN : SetActiveMode(c, maxSize[c], ok)
         /\ todo' = todo \ {c}
    /\ UNCHANGED <<kmodes, queue, routeVars, rangeVars, mConfiguredMode, pc, at,
                   booting, callVars, ghostVars>>

BootDone ==
    /\ pc = "activate" /\ todo = {}
    /\ pc' = "idle"
    /\ booting' = FALSE
    /\ UNCHANGED <<scanoutVars, kernelVars, cmodes, routeVars, rangeVars,
                   mConfiguredMode, at, todo, callVars, ghostVars>>

-----------------------------------------------------------------------------
(* getSupportedNumConnector: every connector is read again and counted.    *)

GetSupportedNumConnector ==
    /\ pc = "idle"
    /\ pc' = "count"
    /\ UNCHANGED <<scanoutVars, kernelVars, cmodes, routeVars, rangeVars,
                   mConfiguredMode, at, todo, booting, callVars, ghostVars>>

CountConnector ==
    /\ pc = "count" /\ at \in Connector
    /\ ReadConnector(at)
    /\ count' = IF Plugged(at) THEN count + 1 ELSE count
    /\ at' = at + 1
    /\ UNCHANGED <<scanoutVars, kernelVars, routeVars, rangeVars, mConfiguredMode,
                   pc, todo, booting, req, target, ghostVars>>

(* count is returned. *)
CountDone ==
    /\ pc = "count" /\ at = NumConnectors + 1
    /\ pc' = "idle" /\ at' = 1 /\ count' = 0
    /\ UNCHANGED <<scanoutVars, kernelVars, cmodes, routeVars, rangeVars,
                   mConfiguredMode, todo, booting, req, target, ghostVars>>

-----------------------------------------------------------------------------
(* changeMode.                                                             *)

ChangeMode(r) ==
    /\ pc = "idle"
    /\ req' = r
    /\ pc' = "find"
    /\ UNCHANGED <<scanoutVars, kernelVars, cmodes, routeVars, rangeVars,
                   mConfiguredMode, at, todo, booting, target, count, ghostVars>>

(* A variant a run must reject: dIdx advanced before the comparison. *)
OnPathLate(k) == k = req.path

OnPath(k) == k = req.path + 1

(* The display of path p is the connector in place p of connectorList,     *)
(* whether or not those before it are plugged.                             *)
FindDisplay ==
    /\ pc = "find" /\ at \in Connector
    /\ ReadConnector(at)
    /\ IF Plugged(at) /\ OnPath(at)
       THEN pc' = "apply" /\ target' = crtc_id[at] /\ UNCHANGED at
       ELSE at' = at + 1 /\ UNCHANGED <<pc, target>>
    /\ UNCHANGED <<scanoutVars, kernelVars, routeVars, rangeVars,
                   mConfiguredMode, todo, booting, req, count, ghostVars>>

NoDisplay ==
    /\ pc = "find" /\ at = NumConnectors + 1
    /\ pc' = "apply" /\ target' = NoCrtc
    /\ UNCHANGED <<scanoutVars, kernelVars, cmodes, routeVars, rangeVars,
                   mConfiguredMode, at, todo, booting, req, count, ghostVars>>

(* setActiveMode and what follows it; ok is the value changeMode returns. *)
ApplyMode(ok) ==
    /\ pc = "apply"
    /\ pc' = "idle" /\ at' = 1
    /\ req' = NoRequest /\ target' = NoCrtc
    /\ IF target = NoCrtc
       THEN ~ok /\ UNCHANGED <<cmodes, kroute, scanoutVars>>
       ELSE SetActiveMode(target, req.win, ok)
    /\ maxSize' = IF ok THEN [maxSize EXCEPT ![target] = req.win] ELSE maxSize
    /\ mConfiguredMode' = IF ok THEN req.win ELSE mConfiguredMode
    /\ UNCHANGED <<kmodes, queue, routeVars, minSize, count, todo, booting, ghostVars>>

-----------------------------------------------------------------------------
(* getSupportedModes reads the connector as last read, so a call changes   *)
(* nothing; the index is not checked.  NumConnectors stands for every      *)
(* index beyond the list; it is harmless only if there is no connector.    *)
GetSupportedModes(i) ==
    /\ pc = "idle"
    /\ IF i < NumConnectors \/ NumConnectors = 0
       THEN UNCHANGED <<alive, met>>
       ELSE alive' = FALSE /\ met' = met \cup {"index"}
    /\ UNCHANGED <<picture, sound, kernelVars, cmodes, routeVars, rangeVars,
                   mConfiguredMode, pc, at, todo, booting, callVars, missed>>

-----------------------------------------------------------------------------
(* The timer: at most one event per tick.  It always re-arms.              *)

PollDRIDevices ==
    /\ pc = "idle" /\ queue # <<>>
    /\ queue' = Tail(queue)
    /\ \/ (* updateDevice of our card *)
          /\ Head(queue) = "card"
          /\ pc' = "setup"
          /\ UNCHANGED <<alive, missed>>
       \/ (* updateDevice of a node not in mDeviceList: logged *)
          /\ Head(queue) = "other"
          /\ UNCHANGED <<pc, alive, missed>>
       \/ (* std::string of the null node: the process ends *)
          /\ Head(queue) = "nameless"
          /\ alive' = FALSE
          /\ UNCHANGED <<pc, missed>>
       \/ (* udev_monitor_receive_device fails: logged, the event is gone *)
          /\ missed' = (missed \/ (Head(queue) = "card" /\ ~CardPending(Tail(queue))))
          /\ UNCHANGED <<pc, alive>>
    /\ UNCHANGED <<picture, sound, kmodes, kroute, cmodes, routeVars, rangeVars,
                   mConfiguredMode, at, todo, booting, callVars, met>>

-----------------------------------------------------------------------------
(* The kernel.  An event that finds the socket full is dropped.            *)

Notify(n) ==
    IF Len(queue) < MaxQueue
    THEN queue' = Append(queue, n) /\ missed' = (missed /\ n # "card")
    ELSE queue' = queue /\ missed' = (missed \/ (n = "card" /\ ~CardPending(queue)))

Plug(k, m) ==
    /\ ~Plugged(k)
    /\ kmodes' = [kmodes EXCEPT ![k] = m]
    /\ Notify("card")
    /\ UNCHANGED <<scanoutVars, kroute, cmodes, routeVars, rangeVars,
                   mConfiguredMode, pc, at, todo, booting, callVars, met>>

Unplug(k) ==
    /\ Plugged(k)
    /\ kmodes' = [kmodes EXCEPT ![k] = <<>>]
    /\ Notify("card")
    /\ met' = IF pc = "range" /\ at = k THEN met \cup {"unplug"} ELSE met
    /\ UNCHANGED <<scanoutVars, kroute, cmodes, routeVars, rangeVars,
                   mConfiguredMode, pc, at, todo, booting, callVars>>

OtherEvent ==
    /\ \E n \in OtherNodes :
         /\ Notify(n)
         /\ met' = IF n = "nameless" THEN met \cup {n} ELSE met
    /\ UNCHANGED <<scanoutVars, kmodes, kroute, cmodes, routeVars, rangeVars,
                   mConfiguredMode, pc, at, todo, booting, callVars>>

-----------------------------------------------------------------------------
Handler == \/ SetupRead \/ SetupRange \/ SetupDone
           \/ BootActivate \/ BootDone
           \/ CountConnector \/ CountDone
           \/ FindDisplay \/ NoDisplay
           \/ \E ok \in BOOLEAN : ApplyMode(ok)

Kernel == \/ \E k \in Connector : (\E m \in ModeLists : Plug(k, m)) \/ Unplug(k)
          \/ OtherEvent

Next ==
    /\ alive
    /\ \/ Handler
       \/ \E r \in Request : ChangeMode(r)
       \/ GetSupportedNumConnector
       \/ \E i \in 0..NumConnectors : GetSupportedModes(i)
       \/ PollDRIDevices
       \/ Kernel

(* A handler under way runs to its end.  The timer source has the default  *)
(* priority, the one of the callers' sources: it may lose a round, but is  *)
(* not passed over for ever, hence strong fairness.                        *)
Fairness ==
    /\ WF_vars(alive /\ Handler)
    /\ SF_vars(alive /\ PollDRIDevices)

Spec == Init /\ [][Next]_vars /\ Fairness

-----------------------------------------------------------------------------
(* Kinds of cards, for what does not hold of all of them.                  *)

(* The boot routes are those findCrtc would choose itself, and an encoder  *)
(* not given changes that choice to none at most.  vc4 is such a card:     *)
(* each of its HDMI connectors has one encoder, with one possible CRTC.    *)
Pinned ==
    \A r \in BootRoute, k \in Connector :
        /\ r[k] \in {NoEncoder, NoCrtc, FallbackCrtc(k)}
        /\ Misread(k) \subseteq {NoCrtc, FallbackCrtc(k)}
        /\ k \in Flaky => r[k] # NoCrtc

(* No two connectors would be given the same CRTC. *)
Disjoint ==
    \A j, k \in Connector :
        FallbackCrtc(j) = FallbackCrtc(k) /\ FallbackCrtc(j) # NoCrtc => j = k

(* At boot a connector may be on another CRTC than findCrtc would choose,  *)
(* but then no second connector is on it or would be given it; and every   *)
(* encoder is given when asked for.                                        *)
Unshared ==
    /\ Flaky = {}
    /\ \A r \in BootRoute, j, k \in Connector :
         j # k /\ r[k] \in Crtc \ {FallbackCrtc(k)} =>
             r[j] # r[k] /\ FallbackCrtc(j) # r[k]

-----------------------------------------------------------------------------
(* The process goes down only after the kernel has unplugged a display     *)
(* between the two reads of its connector in setupDevice, or sent an event *)
(* without a node, or a caller has passed an index beyond the list, or an  *)
(* allocation has failed.  Any other order of hotplug, events lost or late,*)
(* calls, refused modes and encoders not given is survived.  (The kernel   *)
(* answers every drmModeGetConnector: connector.cpp:42 has no test for it.)*)
CrashCause == ~alive => met # {} \/ ~sound

(* The two maps of the routing agree: a connector recorded in a CRTC is    *)
(* given that CRTC, and a CRTC given to a connector has a connector (unless*)
(* setupDevice is between the two assignments).                            *)
RouteInverse ==
    /\ \A c \in Crtc, k \in Connector : k \in connectors[c] => crtc_id[k] = c
    /\ \A k \in Connector : crtc_id[k] # NoCrtc /\ ~(pc = "range" /\ at = k)
          => connectors[crtc_id[k]] # {}

(* driElements.cpp:159-161: connectorList "stores the display in order     *)
(* from the primary", path 0 "means primary display, 1 means secondary":   *)
(* changeMode programs the display of its path and no other.               *)
DisplayAddressed ==
    pc = "apply" /\ target # NoCrtc => connectors[target] = {req.path + 1}

(* A mode set never takes a display away from another CRTC: when CRTC c is *)
(* about to be programmed, no connector of its record is routed elsewhere. *)
Programming(c) == \/ pc = "activate" /\ c \in todo /\ IsFirst(c, todo)
                  \/ pc = "apply" /\ c = target
NoSteal ==
    \A c \in Crtc : Programming(c) =>
        \A k \in connectors[c] : kroute[k] \notin Crtc \ {c}

(* A step changes no picture but that of the CRTC it programs, whatever    *)
(* the encoders allow: no neighbour goes dark because its connector is     *)
(* taken, as long as no allocation has failed.                             *)
OthersKept ==
    [][sound => \A c \in Crtc : picture'[c] # picture[c] => Programming(c)]_vars

(* The configured maximum is never exceeded in both dimensions at once, by *)
(* a CRTC's range or by a picture.  It may be exceeded in one: a display   *)
(* narrower than the maximum but taller is set to its own best mode.       *)
CapOneDimension ==
    \A c \in Crtc :
        /\ maxSize[c].w <= InitialMode.w \/ maxSize[c].h <= InitialMode.h
        /\ picture[c] # Dark =>
             picture[c].w <= InitialMode.w \/ picture[c].h <= InitialMode.h

(* Once the display on connector k settles, the cache follows, whatever    *)
(* events the full socket dropped, unless the last of them was lost or an  *)
(* encoder was not given after it.                                         *)
Synced(k, m) ==
    /\ cmodes[k] = m
    /\ m # <<>> /\ FindCrtc(k) # NoCrtc =>
         \E c \in Crtc : crtc_id[k] = c /\ k \in connectors[c]
CatchUp ==
    \A k \in Connector, m \in Displays :
        <>[](kmodes[k] = m /\ ~missed) => <>[](~alive \/ Synced(k, m))
=============================================================================
