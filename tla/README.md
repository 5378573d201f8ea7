# Verification of the Raspberry Pi video output adaptation layer

TLA+ models of `videooutput-adaptation-layer-rpi`, TLC runs that check them on
small cards, and TLAPS proofs for cards of any size. Paths such as
`driElements.cpp:254` are below `src/src/val/` unless they say otherwise.

## 1. The system

The library lets `videooutputd` set display modes and bind video planes through
the Linux DRM interface. It is single threaded: everything runs in the GLib main
loop of the process. What runs concurrently is the kernel: displays are plugged
and unplugged, and the handles, ids and routes of DRM objects change, between
any two calls into it.

| Component | State it keeps | Operations | Talks to | What is hard |
|---|---|---|---|---|
| `DrmCrtc::createScanoutFb`, `bo_create`, `bo_destroy` | `boHandle`, `scanout_fbId` of each CRTC | allocate, release, add and remove framebuffer | kernel (GEM handles, framebuffers) | released before the new one exists; records go stale on failure; names are reused |
| `DriDevice`, `DRIElements`, `DrmConnector` | connectors (cached modes, `crtc_id`), CRTCs (`connectors`, `max`, `min`), `mConfiguredMode` | constructor, `updateDevice`/`setupDevice`, `findCrtc`, `setActiveMode`, `changeMode`, `getSupportedNumConnector`, `getModeRange` | kernel; calls back `val_video_impl::updatePlanes` | every look at a connector is a fresh read of the kernel; CRTCs shared between connectors |
| `UDev` (`deviceDiscovery.cpp`) | the monitor socket | timer every 250 ms, one event per tick | kernel; `updateDevice` | events lost, late, or of other nodes |
| `val_video_impl` | `logicalPlanes`, `videoSinks` | constructor, `updatePlanes`, `connect`, `disconnect`, `applyScaling`, `setDisplayResolution`, `getParam` | `DRIElements` | bound once, used for ever; check-then-use of plugged displays |
| `getSupportedModes` / `getSupportedResolutions` | none | pure list function | connector cache | `unique` on an unsorted list; the cache may be old |
| `bo_create` pixel layout | none | offsets and pitches per format | – | arithmetic on odd sizes |
| `loadResources`, `hasDumbBuff` | `mDeviceList`, `mPrimaryDev`, descriptors | list and open the cards, choose one | kernel, udev | every failure ends the loop and leaves the card listed; the card is chosen by hash order |
| `DeviceCapability` | maximum, minimum, plane names | parse a JSON file | – | partial files, 16-bit conversion |
| `VAL::getInstance`, `val_impl` | the instance, the two implementation pointers | `getInstance`, `initialize`, `deinitialize` | the above | a constructor that throws half way; pointers not cleared, descriptors not closed |
| settings stub, EDID parser, tables, logging, test program | none | – | – | – |

What makes each part correct:

* **Scanout buffers**: nothing leaks on any path; a CRTC shows only its own
  framebuffer; a mode set on one CRTC leaves the others alone.
* **Device**: only known causes bring the process down; the two route maps agree;
  a mode change reaches the display of its path and no other; no CRTC loses its
  connector, or its picture, to another; ranges respect the configured maximum;
  the cache follows the display.
* **Video calls**: sinks name planes of their own and a CRTC that drives a
  connector, as far as the card lets them; the range of a logical plane follows
  its display; the value returned tells what happened.
* **Library**: whatever order it is initialized and deinitialized in, and
  wherever that fails, no timer calls a deleted object; asking a card for dumb
  buffers never throws out of the timer for the card in use; the configured
  maximum is kept.

## 2. Modules

```
  Scanout  <---- implemented by ----  ScanoutFb  <--- MCScanoutFb
     ^                                    ^---------- ScanoutFbProofs
     | extends
  DriElements                         PixelLayout  <--- MCPixelLayout
     ^    ^-------- DriElementsProofs      ^----------- PixelLayoutProofs
     | extends             ^
  ValVideo  <--- MCValVideo|          Loading   DeviceCapability
   | ^    ^ ^--- MCShared  |               ^        ^
   | |    |                |               | extends|
   | |    '-------- ValVideoProofs    ValLifecycle  <--- MCValLifecycle
   | |                     ^               ^------------ ValLifecycleProofs
   | |               RangeProofs
   | |                     ^
   | |          DisplayControlProofs
   | | extends
   | Scaling  <--- MCScaling
   implements
   |
   v
  DisplayControl
```

**`Scanout`** is the abstract specification of mode setting: which picture of
this process each CRTC shows. A mode set has four outcomes: `Shown`, `Refused`
(the kernel refuses the mode: the old picture is already gone), `NoBuffer`
(allocation failed: the old picture is gone, and from now on `sound` is false),
`HeapCorrupted`. Once unsound, a mode set may darken other CRTCs too. The CRTCs
the kernel turns off because a mode set takes their connectors are an argument
of `Shown`: connectors are not known here.

**`ScanoutFb`** is the detailed one. `boHandle` and `scanout_fbId` are the two
fields of `DrmCrtc`; `heap` (live `struct bo` and the handle in each),
`handles`, `fbs` and `scan` are what those names refer to. One action per call,
since nothing interleaves inside: `SetMode` (release, allocate, record, set),
`CreateFails` (release, then `bo_create` or `drmModeAddFB2` fails; the record
keeps the names just released, as in the code), `DoubleFree` (the stale record
is released again at an address where nothing lives: undefined behaviour, after
which the model says nothing). A stale record whose address or id has been
reused is released like any other, which hits whoever owns it now.

**`DriElements`** follows `DRIElements` connector by connector. `pc` and `at`
say which handler is under way and where its loop is:

| code | actions |
|---|---|
| constructor | `Init` (after `loadResources`), set-up, `BootActivate` for each CRTC, `BootDone` |
| `updateDevice`, `setupDevice` | `SetupRead` (`isPlugged`, `findCrtc`, `setCrtcId`), `SetupRange` (second read in `getModeRange`, `connectors`, `max`, `min`), `SetupDone` (callback) |
| `setActiveMode` | operator `SetActiveMode`, ends in an outcome of `Scanout` |
| `changeMode` | `ChangeMode`, `FindDisplay`/`NoDisplay`, `ApplyMode` |
| `getSupportedNumConnector` | `GetSupportedNumConnector`, `CountConnector`, `CountDone` |
| `pollDRIDevices` | `PollDRIDevices`: of the card, of another, without a node (`std::string` of a null pointer: the process ends), or not received |
| `getSupportedModes` | `GetSupportedModes`: a read, but of an index nobody checks |
| kernel | `Plug`, `Unplug`, `OtherEvent`, `Notify`, `Reroute` |

`ReadConnector` is `isPlugged`, which replaces the cached object each time. A
display is its mode list, the empty one meaning unplugged; `kroute` is the CRTC
of a connector's current encoder, `cmodes` what the process last read. `FindCrtc`
is what `findCrtc` finds when the kernel gives every encoder asked for; on a
connector of `Flaky` it may not, and then `Misread` says what else `findCrtc`
comes to (the fallback in spite of a route, or one without that encoder).
`Robbed` are the other CRTCs a mode set takes the last connector from: the kernel
turns them off. The history variables `met` (what kernel and callers did that the
code does not survive) and `missed` (an event lost, or an encoder not given, with
no event of the card pending since) are used by properties only.

**`ValVideo`** adds `val_video_impl` on top: every action is one of
`DriElements` together with what it does to the sinks and planes. `BindSinks` is
the constructor after `DRIElements`; `DeviceUpdated` is the callback;
`SetDisplayResolution`, `Counted`, `CallChangeMode`, `ModeChanged` are
`setDisplayResolution` from `isValidMode` to its return, between whose steps only
the kernel moves; `GetNumConnector`, `Connect`, `Disconnect`, `Tick` the rest.
`GetSupportedResolutions` is what `getSupportedResolutions` would return in a
state: the connector as last read, without adjacent duplicates (`SupportedModes`)
and without what `isValidMode` refuses. `IsValidMode` has both bounds, the
configured maximum and the minimum (`MinMode`).

**`DisplayControl`** is the abstract specification of the public calls: what a
caller may rely on about pictures, where every display has a CRTC of its own. It
knows no connectors, CRTCs, hotplug or buffers. An output gets a picture at start
(`Light`, at most one, which exceeds the configured maximum in one dimension at
most) or by `Call` and `Return` of the request that names it; nothing else
changes a picture of that output or of another, whatever is plugged in or out of
it. What the call returns is no part of the promise: it says the opposite of what
happened (run `reply`). As in `Scanout`, a failed allocation ends the promise
about the others (`sound`). `ValVideo` maps to it by `PictureOn`: the output of a
path is the CRTC `findCrtc` falls back to.

**`PixelLayout`** is `bo_create` for every group of pixel formats: bits per pixel
(`Bpp`), the height of the one dumb buffer (`VirtualHeight`), and pitch and
offset of each plane (`Planes`), in unsigned arithmetic that wraps at `Word`.
What the kernel knows of the formats and checks in `drmModeAddFB2` (`Info`,
`Samples`, `RowOf`, `RowsOf`, `End`) is external and is what the properties compare
with. It counts samples at an odd edge in full, and some kernels refuse such sizes;
`Divides` says that there are none.

**`Scaling`** adds `applyScaling`, for sinks that are connected, not connected
or not there, and regions on both sides of the heights it refuses. The kernel
may refuse a plane it knows, and always refuses the plane 0 of a sink without
one.

**`Loading`** is `loadResources` as a relation: `LoadResources` holds every way
the loop can end, a level per card, over the orders in which udev may list the
nodes. `Chosen` is what `begin()` of the unordered map may give after
`hasDumbBuff`; `LoadThrows` says when the constructor throws.

**`DeviceCapability`** is what one file gives: `ParseResolution` and
`ParsePlanes` key by key with their defaults, `Cut` for `static_cast<uint16_t>`.

**`ValLifecycle`** is the process around the video objects:

| code | actions |
|---|---|
| `VAL::getInstance` | `GetInstance` |
| `val_impl::initialize` | `Initialize`, ending in `Initialized`, `InitializeThrows` (in `loadResources` or `hasDumbBuff`) or `UDevThrows` |
| `val_impl::deinitialize` and the destructors | `Deinitialize`, `Delete` |
| `pollDRIDevices`, `updateDevice`, `hasDumbBuff` | `Tick`, `NamelessTick` (an event of a device without a node) |

Of each object it keeps what can go wrong over several of them: the timer, the
UDev, the cards listed, the card chosen and the cards asked for dumb buffers. `up`
and `proper` are history variables that say whether the caller alternates.
What an object does while it is alive is `ValVideo`, whose constants are the
chosen card and the capabilities read here.

Each module keeps, next to the definition it varies and marked "a variant a run
must reject", a few plausible wrong forms of that definition (a dropped guard, an
off-by-one, a missing release). Nothing uses them; they record which mistake each
property finds.

## 3. Runs

| run (cfg) | checks | instance | what it shows |
|---|---|---|---|
| `scanout` (MCScanoutFb) | `NoOrphans`, `ScanoutOwned`, `Exclusive`, `ImplementsScanout` | 2 CRTCs, 3 addresses, handles and ids, 2 sizes | no leak, no foreign picture, records exclusive until a failure, refinement of `Scanout` |
| `shared_encoders` (MCShared) | `TypeOK`, `VTypeOK`, `NoSteal`, `SinkCurrent`, `TwiceOnlyIfShared`, `OthersKept` | 2 connectors whose encoders drive two of 3 CRTCs, 2 logical planes, a plane of both CRTCs | a record holds one connector; no connector is stolen and no neighbour goes dark; how wrong the sinks become when connectors move, and when two sinks get one plane |
| `displays` (MCDisplays) | `CrashCause`, `RouteInverse`, `DisplayAddressed`, `ImplementsDisplayControl` | 2 connectors, 2 CRTCs, crossed encoders, an encoder not given, events without a node, a display taller than the maximum | what brings the process down; the route maps agree; paths reach their display; no picture comes, changes or goes but by start, or by the call that names its output |
| `plane_range` (MCPlaneRange) | `CapOneDimension`, `OffersCurrent`, `RangeCurrent`, `CatchUp`, `RangeTaken`, `MaxFollows` | 1 connector with 2 encoders, neither sure to be given; displays smaller, taller and larger than the maximum, a minimum, socket of 1 | ranges capped, never refused, and following the display, as the cache does; between calls neither offers nor plane ranges are stale |
| `library` (MCValLifecycle) | `TypeOK`, `TickSafe`, `ProperIsSafe`, `OnlyOtherCardThrows`, `MaximumHonoured` | 3 calls of `initialize`, 3 cards in 4 orders, 4 files, words of 2 bits | timers and pointers over several objects; when an event of a card ends the process; the file's maximum |
| `pixel_layout` (MCPixelLayout) | `PlanesInside`, `PlanesApart` | 8 format groups, odd and even sizes, heights to 50, a word of 128 | planes inside the buffer, as long as the kernel wants them, and apart |

Six runs end in a violation: they check what a comment or a message of the
repository says, against what the code does.

| run (cfg) | property | what the code does |
|---|---|---|
| `offers` (MCOffers) | `OffersUnique` | `driElements.cpp:550` says "unique wxh values"; a preferred mode that is not the largest is listed twice |
| `shared_path` (MCSharedPath) | `DisplayAddressed` | with both connectors on one CRTC, a mode for one path is set on the other display |
| `pool_short` (MCPoolShort) | `PlaneExclusive` | `getPlanes` lists a shared plane once per active CRTC, so two sinks get it, not "one per logical planes" |
| `reply` (MCReply) | `FalseMeansFailed` | `setDisplayResolution` returns false exactly when the mode was set |
| `scaling` (MCScaling) | `TrueMeansScaled` | `applyScaling` logs "Failed to apply scaling for plane" and returns true |
| `secondary` (MCSecondary) | `PathAccepted` | with the secondary display alone its path is refused as out of range |

**Bounds.** Two connectors and two CRTCs are the Raspberry Pi 4, and the least
for a display path, a route or a buffer to belong to the wrong one. One name
more than CRTCs is the least for a freed address, handle or id either to be
reused or to stay free. A socket of one event (`MaxQueue`) makes every loss
happen; the proofs hold for any. Sizes are small numbers: only how they compare
with the configured maximum in each dimension matters, and there is one size for
each case (smaller, equal, taller, larger). Where the second display makes the
states many, there is one kind of display: in `displays` one whose best mode is
beyond the maximum in one dimension, with a second mode that fits; in
`shared_encoders` one of a single size. A third CRTC no encoder drives gives a
plane that is never in the pool; `Flaky` is one connector, so that the other shows
what holds when nothing fails. For the layouts a word of 128 puts
products on both sides of the wrap; the proof holds for 2^32. Three calls of
`initialize` (`MaxInit`) let one that throws come between two that do not; a
render-only card first, second or absent, and a further card that sets modes,
are the ways `begin()` can choose well or badly; sizes below, at, above and
negative against a word of four are the cases of the cut.
`CHECK_DEADLOCK` is off where a crash, or undefined behaviour, ends the model, or
where callers may simply stop.

**Fairness.** A handler under way runs on: weak fairness of the handlers. The
timer is a GLib source of default priority that always re-arms; calls of the
same priority may come first but not for ever: strong fairness of the tick. The
kernel, callers and allocations have none. `CatchUp` and `MaxFollows` are
conditional on the display settling and on `~missed`: an event lost with no
other event of the card pending is never made up for, since the code never looks
again by itself; an encoder not given to set-up likewise leaves the connector as it
was until the next event.

## 4. Proofs

`ScanoutFbProofs`: `IInv` strengthens `NoOrphans`, `ScanoutOwned` and
`Exclusive` by `TypeOK` and `RecordPaired` (a record has both names or none,
without which releasing one could skip the other). From it follow `TypeCorrect`,
`NothingLeaks`, `ScansOutItsOwn`, `RecordsExclusive`, and `RefinesScanout`: the initial states
map to initial states, every step to an outcome of `Scanout` or a stutter.

`DriElementsProofs`: `TypeCorrect` needs `AtConnector` (while `getModeRange`
runs, the connector and its CRTC are real; the count is behind the loop).
`CrashesHaveCauses`, for any card, names the four ways down: an unplug between the
two reads of a connector in `setupDevice`, an event without a node, an index beyond
the list passed to `getSupportedModes`, and what follows a failed allocation. It
needs that between the two reads the display is there or was unplugged, and that an
event without a node in the queue was sent. `NeverExceedsBoth` rests on the lemma
`CappedFits` about the clamp.

`RoutesAgree` and `ProgramsItsDisplay` assume `Pinned`: the routes at boot are
those `findCrtc` would choose (true of vc4, whose HDMI encoders have one CRTC
each), and the second one `Disjoint`: no two connectors are given one CRTC. The
invariant `RouteInv` says that the kernel's route, the connector's `crtc_id` and
the CRTC's record then all name the CRTC `findCrtc` falls back to. The run
`shared_path` shows what happens without them.

`NeverSteals` is about cards with shared encoders too. It holds where `Pinned` does,
and where `Unshared` does: a connector may boot on another CRTC than `findCrtc` would
choose, if no other connector boots on that CRTC or would be given it, and every
encoder is given. `RouteInv` is then false, since a connector moves: from the CRTC it
booted on to the one it falls back to, once it has lost its encoder. `StealInv(r)`,
for the route `r` found at boot, says where each connector can be (`Home` until it
has `Moved`), that records name only connectors that are or were at home there, and
that a mode set under way aims at the CRTC its connector was given. The boot route is
not kept in a variable, so the invariant proved is that there is one
(`StealInvSome`). `OthersStay` follows: where no connector is taken the kernel turns
no other CRTC off (`RobsNone`), so until an allocation fails a mode set changes no
picture but its own.

`ValVideoProofs`: `StepIsInner` shows that each step of `ValVideo` is a step of
`DriElements` or leaves it alone (given that a call which passed `isValidMode`
keeps its arguments), so `CallsAreInner`, `CallsAddNoCause` (the causes of
`CrashCause` are all there are through the public calls too), and
`RangeAlwaysTaken`: the `||` in the guard of `updatePlanes` never refuses a
range, because no range exceeds the maximum in both dimensions. `VTypeCorrect` is
type correctness. The rest holds for any card, shared encoders and planes included:

* `SinksStayCurrent`: sinks are bound once, and routes move under them. `TwoCrtcs(r)`
  says that a connector is only ever given, recorded under or routed to the CRTC it
  booted on (`r`) or the one its encoders fall back to; `SinkInv(r)` adds the CRTC of
  each sink. So a sink and its connector name different CRTCs only if one of the two
  is the fallback, and a sink without a connector has a plane that another CRTC with
  a connector can use (which is how it came into the pool).
* `TwiceOnlyForShared`: an entry of the pool is a CRTC and a plane, and its place is
  its own, so two sinks with one plane took it from two CRTCs, each with a connector.
* `OffersAlwaysCurrent`: `FreshInv` says that after start the cache of a connector
  differs from the kernel only while an event of the card is pending, or missed, or
  the handler has not come to that connector; `std::unique` and `isValidMode` then
  only drop places from the same list (`UniqueKeepsSizes`, from the least place of
  each size).

`RangeProofs`: `RangeAlwaysCurrent`, for cards that are `Pinned` and `Disjoint`. A
mode change writes the range of its CRTC as well, so "the range of a CRTC is that
of its display" is not invariant; it holds during set-up for the connectors the
loop has passed, and until the sinks are bound (`CrtcRanges`), and outside set-up
the planes have it (`PlaneRanges`). `ConnInv` ties a sink's connector to its CRTC,
`Driven` excludes the connector that set-up skips because its encoder has no CRTC,
`BootPhase` that a call comes before the sinks are bound, and `FreshInv` turns what
was read into what is plugged.

`DisplayControlProofs`: `ImplementsDisplays`, `ValVideo` implements
`DisplayControl`, for the same cards. `CallInv` says which handler runs for which
call and that `changeMode` works on the arguments of that call; `BootInv` that a
CRTC still to be activated is dark, so that `Light` lights each display once.
`RepaintMaps` turns a repaint of `Scanout` into one of the abstract displays
(`Disjoint`: one CRTC, one display), `SetActiveModeMaps` the four outcomes of a
mode set into those of `Light` and `Return`, where `RouteInv` says that the CRTC
programmed is the output of the path asked for, and `StepMaps` goes through the
actions, most of which stutter.

`ValLifecycleProofs`: `LInv` adds to the type invariant that objects come in
order (`Unmade`), that a timer's object and UDev are alive (`TimerInv`), that for
a caller who alternates the pointer names the one object alive (`PointerInv`),
that the chosen card was asked for dumb buffers when it was chosen (`PrimaryInv`,
without which an event could throw for it too), and that the capabilities are those
of the file (`FileInv`). Hence `TicksAreSafe`, `AlternatingIsSafe`,
`OnlyOthersThrow`; `MaximumAlwaysHonoured` rests on `CutShrinks`: a number that is
not negative only gets smaller by the cut. A negative one may become the largest
there is, which is the bound (`Limit`) the property then has.

`PixelLayoutProofs`: `MadeInv` says how the last buffer came about. The kernel
refuses a buffer that wraps, so the rows of the first plane do not (`NoWrap`);
`TwoPlanesFit` and `ThreePlanesFit` then compare multiples of a pitch. Hence
`AddFbAccepts` and `PlanesNeverOverlap`, for formats of several planes with sizes of
which three times the height and twice a row are below the word (`Modest`), as the
16-bit sizes of display modes are, and where the samples divide the picture
(`Divides`); for the formats of one plane, the library's among them, `AddFbAccepts`
holds at any size, and two planes are apart at odd sizes too. The conditions are
needed: at an odd width half a pitch (`buffer.cpp:260`) may be a byte short of the
samples of a row, and at an odd height the virtual height (`buffer.cpp:214`) has no
room for the last row of samples. The library asks for one plane only.

Assumptions on constants are the named `ASSUME`s of the modules: CRTC ids are
positive and ordered as in `crtcList`; sizes are pairs of positive numbers and
include the configured maximum; a plugged display has at least one mode.

Only model-checked: `CatchUp` and `MaxFollows`, since liveness is out of the
prover's reach. Their safety cores, that between calls nothing is stale unless an
event is pending or lost, are the theorems `OffersAlwaysCurrent` and
`RangeAlwaysCurrent`. Every other property of a passing run is a theorem.

## 5. Simplifications

* Modes are compared by size; refresh rates are never asked for
  (`vRefresh` is always 0). A mode's name is its size, as for progressive modes.
* `createScanoutFb` followed by `drmModeSetCrtc` is one step: the objects belong
  to the process's own file, and the kernel's answer to a mode set (`Refused`)
  includes a display unplugged meanwhile.
* Connectors, encoders, CRTCs and planes of the card do not change; encoder
  masks are constants. The firmware's routes before start are `BootRoute`.
* When a mode set takes the last connector of another CRTC, that CRTC goes dark; one
  that keeps another connector goes on showing its picture.
* In `DriElements`, `ValVideo` and `Scaling` the card is there and fully loaded:
  there is one device, `mPrimaryDev`. How it came about, and what a card that is
  not leads to, is `Loading` and `ValLifecycle`.
* `initialize` is one step of `ValLifecycle`: the main loop does not run inside.
* The names of an event's device and the refresh rate of a capability file decide
  nothing and are left out.
* `getParam` of `VAL_CTRL_DRM_RESOURCES` and `getVideoPlanes` only read and have no
  action; `getSupportedResolutions` has one for its index (`AskResolutions`), and what
  it returns is an operator.

## 6. Not modelled, and why

* The settings stub, and the calls that do nothing and return a fixed answer.
* The EDID parser, `geModeRange`, `setPlane` and `getPlaneBase`: nothing in the
  library calls them.
* Constant tables, logging and the manual test program: no state of the library.
* Objects without a card beyond their making: `mDeviceList[mPrimaryDev]` then makes
  an empty device, on which every call finds nothing, as with no connector.
* A kernel that gives null for a connector, CRTC or plane it listed a moment
  before, other than the connector `DrmConnector`'s constructor checks: the process
  ends at that line whatever the state is.
* Leaks that only grow: `conn_ids`, the sinks, the udev context and the descriptors
  of each object, and with the descriptors which opener of a card is its DRM master
  and may set modes.

The comment at `driElements.cpp:386` ("create a new Fb if current fb size is
different") does not describe the code, which makes a new one each time, as
`ScanoutFb` does.

The hazards of the code, each with the properties that cover it, are listed with
their lines in `PROJECT.json`.
