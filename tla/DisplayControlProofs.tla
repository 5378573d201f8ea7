------------------------ MODULE DisplayControlProofs ------------------------
(***************************************************************************)
(* ValVideo implements DisplayControl, on a card that is Pinned and        *)
(* Disjoint, with any number of connectors, CRTCs and planes.              *)
(***************************************************************************)
EXTENDS RangeProofs

-----------------------------------------------------------------------------
(* Where the calls are.  Each public call is a part of the handler loop,   *)
(* and changeMode works on the arguments of the call under way.            *)
CallInv ==
    /\ call \in {"resolution", "connectors"} <=> pc = "count"
    /\ pc \in {"find", "apply"} => call = "change" /\ req = asked
    /\ call = "change" => pc \in {"idle", "find", "apply"}

(* Where the start is.  A CRTC not yet activated shows nothing. *)
BootInv ==
    /\ BootPhase
    /\ booting <=> ~bound /\ pc # "idle"
    /\ ~booting => todo = {}
    /\ bound => pc # "activate"
    /\ \A c \in todo : picture[c] = Dark

LEMMA CallInvNext == BootPhase /\ CallInv /\ [VNext]_vvars => CallInv'
<1> USE DEF CallInv
<1>1. SUFFICES ASSUME BootPhase, CallInv, [VNext]_vvars PROVE CallInv'
  OBVIOUS
<1>2. CASE UNCHANGED vvars
  BY <1>1, <1>2 DEF vvars, vars, valVars, replyVars, callVars
<1>3. CASE (SetupRead \/ SetupRange) /\ UNCHANGED valVars
  BY <1>1, <1>3 DEF SetupRead, SetupRange, valVars, replyVars, callVars
<1>4. CASE (BootActivate \/ BootDone) /\ UNCHANGED valVars
  BY <1>1, <1>4 DEF BootActivate, BootDone, valVars, replyVars, callVars
<1>5. CASE (CountConnector \/ FindDisplay \/ NoDisplay) /\ UNCHANGED valVars
  BY <1>1, <1>5 DEF CountConnector, FindDisplay, NoDisplay, valVars, replyVars, callVars
<1>6. CASE Kernel /\ UNCHANGED valVars
  BY <1>1, <1>6 DEF Kernel, Plug, Unplug, OtherEvent, valVars, replyVars, callVars
<1>7. CASE BindSinks
  BY <1>1, <1>7 DEF BindSinks, vars, replyVars, callVars
<1>8. CASE DeviceUpdated
  BY <1>1, <1>8 DEF DeviceUpdated, SetupDone, replyVars, callVars
<1>9. CASE Counted
  BY <1>1, <1>9 DEF Counted, CountDone, Return
<1>10. CASE CallChangeMode
  BY <1>1, <1>10 DEF CallChangeMode, ChangeMode, valVars, replyVars
<1>11. CASE ModeChanged
  BY <1>1, <1>11 DEF ModeChanged, ApplyMode, Return
<1>12. CASE Tick
  BY <1>1, <1>12 DEF Tick, Ready, PollDRIDevices, valVars, replyVars, callVars
<1>13. ASSUME NEW r \in Ask, SetDisplayResolution(r)
       PROVE  CallInv'
  BY <1>1, <1>13 DEF SetDisplayResolution, Ready, Return, GetSupportedNumConnector, vars,
                     callVars
<1>14. CASE GetNumConnector
  BY <1>1, <1>14 DEF GetNumConnector, Ready, GetSupportedNumConnector, callVars
<1>15. ASSUME NEW w \in Wid, Connect(w) \/ Disconnect(w)
       PROVE  CallInv'
  BY <1>1, <1>15 DEF Connect, Disconnect, vars, replyVars, callVars
<1>16. ASSUME NEW i \in 0..NumConnectors, AskResolutions(i)
       PROVE  CallInv'
  BY <1>1, <1>16 DEF AskResolutions, Ready, GetSupportedModes, valVars, replyVars, callVars
<1>17. QED
  BY <1>1, <1>2, <1>3, <1>4, <1>5, <1>6, <1>7, <1>8, <1>9, <1>10, <1>11, <1>12, <1>13,
     <1>14, <1>15, <1>16 DEF VNext, VHandler, Inner

LEMMA BootInvNext == TypeOK /\ BootInv /\ [VNext]_vvars => BootInv'
<1>1. SUFFICES ASSUME TypeOK, BootInv, [VNext]_vvars PROVE BootInv'
  OBVIOUS
<1>2. BootPhase'
  BY <1>1, BootPhaseNext DEF BootInv
(* Steps that leave the start and the pictures alone. *)
<1>3. ASSUME UNCHANGED <<bound, booting, todo>>, picture' = picture \/ bound,
             pc' = pc \/ (bound /\ pc' # "activate") \/ (pc = "setup" /\ pc' = "range")
                      \/ (pc = "range" /\ pc' = "setup")
      PROVE  BootInv'
  BY <1>1, <1>2, <1>3 DEF BootInv
<1>4. CASE UNCHANGED vvars
  BY <1>3, <1>4 DEF vvars, vars, valVars, sinkVars, scanoutVars
<1>5. CASE (SetupRead \/ SetupRange) /\ UNCHANGED valVars
  BY <1>3, <1>5 DEF SetupRead, SetupRange, valVars, sinkVars, scanoutVars
<1>6. CASE BootActivate /\ UNCHANGED valVars
  <2>1. PICK c \in todo : /\ \E ok \in BOOLEAN : SetActiveMode(c, maxSize[c], ok)
                          /\ todo' = todo \ {c}
    BY <1>6 DEF BootActivate
  <2>2. c \in Crtc
    BY <1>1, <2>1 DEF TypeOK
  <2>3. \A d \in Crtc : picture'[d] = picture[d] \/ picture'[d] = Dark \/ d = c
    BY <2>1, <2>2, SetActiveModePicture
  <2>4. \A d \in todo' : picture'[d] = Dark
    BY <1>1, <2>1, <2>3 DEF BootInv, TypeOK
  <2>5. /\ pc = "activate" /\ pc' = pc /\ booting' = booting /\ bound' = bound
    BY <1>6 DEF BootActivate, valVars, sinkVars
  <2>6. booting /\ ~bound
    BY <1>1, <2>5 DEF BootInv
  <2>7. QED
    BY <1>2, <2>4, <2>5, <2>6 DEF BootInv
<1>7. CASE BootDone /\ UNCHANGED valVars
  BY <1>1, <1>2, <1>7 DEF BootDone, BootInv, valVars, sinkVars
<1>8. CASE (CountConnector \/ FindDisplay \/ NoDisplay) /\ UNCHANGED valVars
  <2>1. bound
    BY <1>1, <1>8 DEF BootInv, BootPhase, CountConnector, FindDisplay, NoDisplay
  <2>2. QED
    BY <1>3, <1>8, <2>1 DEF CountConnector, FindDisplay, NoDisplay, valVars, sinkVars
<1>9. CASE Kernel /\ UNCHANGED valVars
  BY <1>3, <1>9 DEF Kernel, Plug, Unplug, OtherEvent, valVars, sinkVars, scanoutVars
<1>10. CASE BindSinks
  BY <1>1, <1>2, <1>10 DEF BindSinks, BootInv, vars, scanoutVars
<1>11. CASE DeviceUpdated
  <2>1. /\ pc = "setup" /\ pc' = (IF booting THEN "activate" ELSE "idle")
        /\ UNCHANGED <<bound, booting, todo, picture>>
    BY <1>11 DEF DeviceUpdated, SetupDone, sinkVars, scanoutVars
  <2>2. QED
    BY <1>1, <1>2, <2>1 DEF BootInv
<1>12. CASE Counted \/ CallChangeMode \/ ModeChanged
  <2>1. bound
    BY <1>1, <1>12 DEF BootInv, BootPhase, Counted, CountDone, CallChangeMode, ModeChanged
  <2>2. QED
    BY <1>3, <1>12, <2>1 DEF Counted, CountDone, CallChangeMode, ChangeMode, ModeChanged,
                             ApplyMode, valVars, sinkVars
<1>13. CASE Tick \/ GetNumConnector
  BY <1>3, <1>13 DEF Tick, PollDRIDevices, GetNumConnector, GetSupportedNumConnector, Ready,
                     valVars, sinkVars
<1>14. ASSUME NEW r \in Ask, SetDisplayResolution(r)
       PROVE  BootInv'
  BY <1>3, <1>14 DEF SetDisplayResolution, GetSupportedNumConnector, Ready, vars, sinkVars
<1>15. ASSUME NEW w \in Wid, Connect(w) \/ Disconnect(w)
       PROVE  BootInv'
  BY <1>3, <1>15 DEF Connect, Disconnect, Ready, vars
<1>16. ASSUME NEW i \in 0..NumConnectors, AskResolutions(i)
       PROVE  BootInv'
  BY <1>3, <1>16 DEF AskResolutions, Ready, GetSupportedModes, valVars, sinkVars
<1>17. QED
  BY <1>1, <1>4, <1>5, <1>6, <1>7, <1>8, <1>9, <1>10, <1>11, <1>12, <1>13, <1>14, <1>15,
     <1>16
     DEF VNext, VHandler, Inner

-----------------------------------------------------------------------------
(* The pictures, as they map.                                              *)

LEMMA PictureOnIs ==
    ASSUME NEW p \in Path
    PROVE  /\ PictureOn(p) = IF FallbackCrtc(p + 1) \in Crtc
                             THEN picture[FallbackCrtc(p + 1)] ELSE Dark
           /\ PictureOn(p)' = IF FallbackCrtc(p + 1) \in Crtc
                              THEN picture'[FallbackCrtc(p + 1)] ELSE Dark
  BY FallbackFixed DEF PictureOn, Output

LEMMA ShownSame ==
    ASSUME picture' = picture
    PROVE  [p \in Path |-> PictureOn(p)]' = [p \in Path |-> PictureOn(p)]
  BY PictureOnIs

(* A CRTC is painted: the display whose output it is, is. *)
LEMMA RepaintMaps ==
    ASSUME Disjoint, NEW c \in Crtc, NEW k \in Connector, FallbackCrtc(k) = c,
           NEW s, Repaint(c, s, {})
    PROVE  k - 1 \in Path /\ Abs!Repaint(k - 1, s)
<1>1. k \in Nat /\ k - 1 \in Path /\ (k - 1) + 1 = k
  BY CardAssumption DEF Connector, Path
<1>2. PICK lost \in Collateral(c) :
        picture' = [d \in Crtc |-> IF d = c THEN s ELSE IF d \in lost THEN Dark ELSE picture[d]]
  BY DEF Repaint
<1>3. lost \subseteq Crtc \ {c} /\ (sound => lost = {})
  BY <1>2 DEF Collateral
<1> DEFINE gone == {q \in Path \ {k - 1} : FallbackCrtc(q + 1) \in lost}
<1>4. gone \in Abs!Others(k - 1)
  BY <1>3 DEF Abs!Others
<1>5. ASSUME NEW q \in Path
      PROVE  PictureOn(q)' = IF q = k - 1 THEN s ELSE IF q \in gone THEN Dark ELSE PictureOn(q)
  <2>1. q + 1 \in Connector /\ (q = k - 1 <=> q + 1 = k)
    BY <1>1, CardAssumption DEF Connector, Path
  <2>2. CASE q + 1 = k
    BY <1>2, <2>1, <2>2, PictureOnIs
  <2>3. CASE q + 1 # k
    <3>1. FallbackCrtc(q + 1) # c
      BY <2>1, <2>3, NotACrtc DEF Disjoint
    <3>2. QED
      BY <1>2, <1>3, <2>1, <2>3, <3>1, PictureOnIs
  <2>4. QED
    BY <2>2, <2>3
<1>6. [q \in Path |-> PictureOn(q)]' =
        [q \in Path |-> IF q = k - 1 THEN s ELSE IF q \in gone THEN Dark
                        ELSE [p \in Path |-> PictureOn(p)][q]]
  BY <1>5
<1>7. QED
  BY <1>1, <1>4, <1>6 DEF Abs!Repaint

(* setActiveMode, seen from the displays.  A CRTC without a connector is   *)
(* not programmed; one with a connector is that display's output.          *)
LEMMA SetActiveModeMaps ==
    ASSUME Disjoint, TypeOK, RouteInv, NEW c \in Crtc, NEW s, NEW ok \in BOOLEAN,
           SetActiveMode(c, s, ok)
    PROVE  \/ ~ok /\ UNCHANGED scanoutVars
           \/ ~ok /\ HeapCorrupted
           \/ \E k \in Connector :
                 /\ FallbackCrtc(k) = c /\ k - 1 \in Path /\ s \in Size
                 /\ (ok /\ Abs!Painted(k - 1, s)) \/ (~ok /\ Abs!Lost(k - 1))
<1>1. CASE connectors[c] = {} \/ Unsupported(c, s)
  BY <1>1 DEF SetActiveMode
<1>2. CASE connectors[c] # {} /\ ~Unsupported(c, s)
  <2>1. PICK k \in connectors[c] : TRUE
    BY <1>2
  <2>2. k \in Connector /\ FallbackCrtc(k) = c
    BY <2>1, ConnectorsType, RecordedIsFallback
  <2>3. s \in Size
    BY <1>2, SupportedIsSize
  <2>8. Robbed(c, ConnIds(c)) = {}
    <3>1. ASSUME NEW j \in connectors[c] PROVE kroute[j] \notin Crtc \ {c}
      BY <3>1, ConnectorsType, RecordedIsFallback, NotACrtc DEF RouteInv, KernelRoutes
    <3>2. QED
      BY <3>1 DEF Robbed, ConnIds
  <2>4. \/ ok /\ (Shown(c, s, {}) \/ Refused(c))
        \/ ~ok /\ (NoBuffer(c) \/ HeapCorrupted)
    BY <1>2, <2>8 DEF SetActiveMode
  <2>5. Shown(c, s, {}) \/ Refused(c) => k - 1 \in Path /\ Abs!Painted(k - 1, s)
    BY <2>2, RepaintMaps DEF Shown, Refused, Abs!Painted
  <2>6. NoBuffer(c) => k - 1 \in Path /\ Abs!Lost(k - 1)
    BY <2>2, RepaintMaps DEF NoBuffer, Abs!Lost
  <2>7. QED
    BY <2>2, <2>3, <2>4, <2>5, <2>6
<1>3. QED
  BY <1>1, <1>2

-----------------------------------------------------------------------------
(* Every step is a step of DisplayControl, or none of it.                  *)

RefineInv == VInv /\ RouteInv /\ CallInv /\ BootInv

(* A step that touches neither the start, the call nor the pictures. *)
LEMMA StutterMaps ==
    ASSUME UNCHANGED <<bound, scanoutVars, call, asked>>
    PROVE  UNCHANGED Abs!dvars
  BY ShownSame DEF Abs!dvars, scanoutVars

LEMMA SetupRangeMaps ==
    ASSUME SetupRange, UNCHANGED valVars, alive
    PROVE  [Abs!Next]_Abs!dvars
<1>1. UNCHANGED <<bound, call, asked, picture, sound>>
  BY DEF SetupRange, valVars, sinkVars, replyVars
<1>2. CASE alive' = alive
  BY <1>1, <1>2, StutterMaps DEF scanoutVars
<1>3. CASE alive' # alive
  <2>1. alive' = FALSE
    BY <1>3 DEF SetupRange
  <2>2. Abs!Crash
    BY <1>1, <2>1, ShownSame DEF Abs!Crash
  <2>3. QED
    BY <2>2 DEF Abs!Next
<1>4. QED
  BY <1>2, <1>3

(* The constructor lights a display that is dark, within the maximum in    *)
(* one dimension.                                                          *)
LEMMA BootActivateMaps ==
    ASSUME Disjoint, RefineInv, BootActivate, UNCHANGED valVars, alive
    PROVE  [Abs!Next]_Abs!dvars
<1>1. PICK c \in todo, ok \in BOOLEAN : SetActiveMode(c, maxSize[c], ok)
  BY DEF BootActivate
<1>2. /\ c \in Crtc /\ picture[c] = Dark /\ ~bound
      /\ maxSize[c].w <= InitialMode.w \/ maxSize[c].h <= InitialMode.h
  BY <1>1 DEF RefineInv, VInv, TypeOK, BootInv, CapOneDimension, BootActivate
<1>3. UNCHANGED <<bound, call, asked>>
  BY DEF valVars, sinkVars, replyVars
<1>4. CASE UNCHANGED scanoutVars
  BY <1>3, <1>4, StutterMaps
<1>5. CASE HeapCorrupted
  BY <1>3, <1>5, ShownSame DEF HeapCorrupted, Abs!Crash, Abs!Next
<1>6. ASSUME NEW k \in Connector, FallbackCrtc(k) = c, k - 1 \in Path, maxSize[c] \in Size,
             Abs!Painted(k - 1, maxSize[c]) \/ Abs!Lost(k - 1)
      PROVE  [Abs!Next]_Abs!dvars
  <2>1. (k - 1) + 1 = k
    BY CardAssumption DEF Connector
  <2>2. [p \in Path |-> PictureOn(p)][k - 1] = Dark
    BY <1>2, <1>6, <2>1, PictureOnIs
  <2>3. Abs!Light(k - 1, maxSize[c])
    BY <1>2, <1>3, <1>6, <2>2 DEF Abs!Light
  <2>4. QED
    BY <1>2, <1>6, <2>3 DEF Abs!Next
<1>7. QED
  BY <1>1, <1>2, <1>4, <1>5, <1>6, SetActiveModeMaps DEF RefineInv, VInv

(* changeMode returns.  It worked on the display of the call's path. *)
LEMMA ModeChangedMaps ==
    ASSUME Disjoint, RefineInv, ModeChanged, alive
    PROVE  [Abs!Next]_Abs!dvars
<1>1. PICK ok \in BOOLEAN : ApplyMode(ok) /\ Return(~ok)
  BY DEF ModeChanged
<1>2. call = "change" /\ pc = "apply" /\ req = asked /\ asked \in Ask
  BY <1>1 DEF ModeChanged, ApplyMode, RefineInv, CallInv, VInv, AskedValid, Request, Ask
<1>3. call' = "none" /\ bound' = bound
  BY <1>1 DEF ModeChanged, Return, sinkVars
<1>4. SUFFICES \/ ~ok /\ UNCHANGED scanoutVars
               \/ ~ok /\ HeapCorrupted
               \/ /\ asked.path \in Path
                  /\ (ok /\ Abs!Painted(asked.path, asked.win)) \/ (~ok /\ Abs!Lost(asked.path))
  <2>1. ~ok /\ UNCHANGED scanoutVars => Abs!Return(asked)
    BY <1>2, <1>3, ShownSame DEF Abs!Return, scanoutVars
  <2>2. ~ok /\ HeapCorrupted => Abs!Return(asked)
    BY <1>2, <1>3, ShownSame DEF Abs!Return, HeapCorrupted
  <2>3. asked.path \in Path /\ ok /\ Abs!Painted(asked.path, asked.win) => Abs!Return(asked)
    BY <1>2, <1>3 DEF Abs!Return
  <2>4. asked.path \in Path /\ ~ok /\ Abs!Lost(asked.path) => Abs!Return(asked)
    BY <1>2, <1>3 DEF Abs!Return
  <2>5. QED
    BY <1>2, <2>1, <2>2, <2>3, <2>4 DEF Abs!Next
<1>5. CASE target = NoCrtc
  BY <1>1, <1>5 DEF ApplyMode
<1>6. CASE target # NoCrtc
  <2> DEFINE p == req.path + 1
  <2>1. p \in Connector /\ target \in Crtc /\ FallbackCrtc(p) = target
    BY <1>2, <1>6, NotACrtc DEF RefineInv, VInv, TypeOK, RouteInv, TargetGiven, GivenCrtcs
  <2>2. SetActiveMode(target, req.win, ok)
    BY <1>1, <1>6 DEF ApplyMode
  <2>3. ASSUME NEW k \in Connector, FallbackCrtc(k) = target
        PROVE  k - 1 = asked.path
    <3>1. k = p /\ asked.path \in 0..NumConnectors
      BY <1>2, <2>1, <2>3, NotACrtc DEF Disjoint, Ask
    <3>2. QED
      BY <1>2, <3>1, CardAssumption
  <2>4. QED
    BY <1>2, <2>1, <2>2, <2>3, SetActiveModeMaps DEF RefineInv, VInv
<1>7. QED
  BY <1>5, <1>6

LEMMA StepMaps == ASSUME Disjoint PROVE RefineInv /\ [VNext]_vvars => [Abs!Next]_Abs!dvars
<1>1. SUFFICES ASSUME RefineInv, [VNext]_vvars PROVE [Abs!Next]_Abs!dvars
  OBVIOUS
<1>2. ASSUME UNCHANGED <<bound, scanoutVars, call, asked>>
      PROVE  [Abs!Next]_Abs!dvars
  BY <1>2, StutterMaps
<1>3. CASE UNCHANGED vvars
  BY <1>2, <1>3 DEF vvars, vars, valVars, sinkVars, replyVars
<1>4. CASE alive /\ SetupRange /\ UNCHANGED valVars
  BY <1>4, SetupRangeMaps
<1>5. CASE alive /\ BootActivate /\ UNCHANGED valVars
  BY <1>1, <1>5, BootActivateMaps
<1>6. CASE (SetupRead \/ BootDone \/ CountConnector \/ FindDisplay \/ NoDisplay \/ Kernel)
           /\ UNCHANGED valVars
  BY <1>2, <1>6 DEF SetupRead, BootDone, CountConnector, FindDisplay, NoDisplay, Kernel, Plug,
                    Unplug, OtherEvent, valVars, sinkVars, replyVars
<1>7. CASE alive /\ BindSinks
  <2>1. ~bound /\ bound' = TRUE /\ UNCHANGED <<picture, sound, alive, call, asked>>
    BY <1>7 DEF BindSinks, vars, scanoutVars, replyVars
  <2>2. Abs!Start
    BY <2>1, ShownSame DEF Abs!Start
  <2>3. QED
    BY <1>7, <2>2 DEF Abs!Next
<1>8. CASE DeviceUpdated
  BY <1>2, <1>8 DEF DeviceUpdated, SetupDone, sinkVars, replyVars
<1>9. CASE alive /\ Counted
  <2>1. UNCHANGED <<bound, scanoutVars>> /\ pc = "count"
    BY <1>9 DEF Counted, CountDone, sinkVars
  <2>2. CASE call = "resolution" /\ call' = "none"
    <3>1. asked \in Ask
      BY <1>1, <1>9, <2>2 DEF Counted, Return, RefineInv, VInv, AskedValid, Request, Ask
    <3>2. Abs!Return(asked)
      BY <2>1, <2>2, <3>1, ShownSame DEF Abs!Return, scanoutVars
    <3>3. QED
      BY <1>9, <3>1, <3>2 DEF Abs!Next
  <2>3. CASE call = "resolution" /\ call' # "none"
    BY <1>9, <2>1, <2>3, ShownSame DEF Counted, Return, Abs!dvars, scanoutVars
  <2>4. CASE call # "resolution"
    <3>1. call = "connectors" /\ call' = "none"
      BY <1>1, <1>9, <2>1, <2>4 DEF RefineInv, CallInv, Counted, Return
    <3>2. QED
      BY <2>1, <3>1, ShownSame DEF Abs!dvars, scanoutVars
  <2>5. QED
    BY <2>2, <2>3, <2>4
<1>10. CASE CallChangeMode
  BY <1>2, <1>10 DEF CallChangeMode, ChangeMode, valVars, sinkVars, replyVars
(* An event without a node, or an index beyond the list, is a crash. *)
<1>11. ASSUME alive, UNCHANGED <<valVars, picture, sound>>, alive' = alive \/ alive' = FALSE
       PROVE  [Abs!Next]_Abs!dvars
  <2>1. UNCHANGED <<bound, call, asked>>
    BY <1>11 DEF valVars, sinkVars, replyVars
  <2>2. alive' = FALSE => Abs!Crash
    BY <1>11, <2>1, ShownSame DEF Abs!Crash
  <2>3. QED
    BY <1>2, <1>11, <2>1, <2>2 DEF Abs!Next, scanoutVars
<1>12. CASE alive /\ Tick
  BY <1>11, <1>12 DEF Tick, PollDRIDevices
<1>13. ASSUME alive, NEW i \in 0..NumConnectors, AskResolutions(i)
       PROVE  [Abs!Next]_Abs!dvars
  BY <1>11, <1>13 DEF AskResolutions, GetSupportedModes
<1>14. CASE alive /\ ModeChanged
  BY <1>1, <1>14, ModeChangedMaps
<1>15. ASSUME alive, NEW r \in Ask, SetDisplayResolution(r)
       PROVE  [Abs!Next]_Abs!dvars
  <2>1. UNCHANGED <<bound, scanoutVars>> /\ bound /\ call = "none"
    BY <1>15 DEF SetDisplayResolution, GetSupportedNumConnector, Ready, vars, sinkVars
  <2>2. CASE IsValidMode(r.win)
    <3>1. Abs!Call(r)
      BY <1>15, <2>1, <2>2, ShownSame
         DEF SetDisplayResolution, Abs!Call, IsValidMode, Within, scanoutVars
    <3>2. QED
      BY <1>15, <3>1 DEF Abs!Next
  <2>3. CASE ~IsValidMode(r.win)
    BY <1>15, <2>1, <2>3, ShownSame DEF SetDisplayResolution, Return, Abs!dvars, scanoutVars
  <2>4. QED
    BY <2>2, <2>3
<1>16. CASE GetNumConnector
  <2>1. /\ UNCHANGED <<bound, scanoutVars, asked>>
        /\ call = "none" /\ call' = "connectors"
    BY <1>16 DEF GetNumConnector, GetSupportedNumConnector, Ready, sinkVars
  <2>2. QED
    BY <2>1, ShownSame DEF Abs!dvars, scanoutVars
<1>17. ASSUME NEW w \in Wid, Connect(w) \/ Disconnect(w)
       PROVE  [Abs!Next]_Abs!dvars
  BY <1>2, <1>17 DEF Connect, Disconnect, vars, replyVars
<1>18. QED
  BY <1>1, <1>3, <1>4, <1>5, <1>6, <1>7, <1>8, <1>9, <1>10, <1>14, <1>15, <1>16, <1>17,
     <1>12, <1>13 DEF VNext, VHandler, Inner

LEMMA InitMaps == VInit => Abs!Init
<1>1. SUFFICES ASSUME VInit PROVE Abs!Init
  OBVIOUS
<1>2. [p \in Path |-> PictureOn(p)] = [p \in Path |-> Dark]
  BY <1>1, PictureOnIs DEF VInit, Init, ScanoutInit
<1>3. QED
  BY <1>1, <1>2 DEF VInit, Init, ScanoutInit, Abs!Init

(* Through plug, unplug, late and lost events, failed allocations and      *)
(* calls in any order: an output's picture is set at start, once, within   *)
(* the maximum in one dimension, or by the one call that names its path,   *)
(* in the size asked for; the call leaves every other output alone unless  *)
(* an allocation has failed.                                               *)
THEOREM ImplementsDisplays ==
    ASSUME Pinned, Disjoint
    PROVE  VSpec => ImplementsDisplayControl
<1>1. VInit => CallInv /\ BootInv
  BY DEF VInit, Init, ScanoutInit, CallInv, BootInv, BootPhase
<1>2. VInv => TypeOK
  BY DEF VInv
<1>3. BootInv => BootPhase
  BY DEF BootInv
<1>4. VSpec => []RefineInv
  BY <1>1, <1>2, <1>3, CallInvNext, BootInvNext, VInvAlways, VRouteAlways, PTL
     DEF VSpec, RefineInv
<1>5. QED
  BY <1>4, InitMaps, StepMaps, PTL DEF VSpec, ImplementsDisplayControl, Abs!Spec
=============================================================================
