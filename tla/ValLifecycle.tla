---------------------------- MODULE ValLifecycle ----------------------------
(***************************************************************************)
(* VAL::getInstance and val_impl: the one instance with its capabilities,  *)
(* and the video objects that initialize makes and deinitialize deletes.   *)
(*                                                                         *)
(* A video object (val_video_impl with its DRIElements) owns a UDev, whose *)
(* GLib timer goes on until the object is deleted.  Callers may call in    *)
(* any order, and call again after initialize has thrown.  (Nothing ever   *)
(* closes the cards an object opened; their descriptors are left out.)     *)
(***************************************************************************)
EXTENDS Loading, DeviceCapability

CONSTANTS
    Files,    \* device capability files
    NoFile,   \* there is no instance yet
    MaxInit   \* bound: calls of initialize

ASSUME LifecycleAssumption ==
    Files \subseteq File /\ NoFile \notin Files /\ MaxInit \in Nat

VARIABLES
    file,     \* the file the instance was made from
    mDevCap,  \* what it has read there
    made,     \* calls of initialize so far
    video,    \* the pointer: 0, or the object it names, deleted or not
    state,    \* of each object: "none", "alive", "deleted"; "failed": it threw
    level,    \* how far each object loaded each card
    primary,  \* mPrimaryDev of each object
    checked,  \* cards of each object with hasDumbBuffChecked
    timers,   \* objects whose poll timer is attached
    udevs,    \* objects whose UDev has not been deleted
    process,  \* "running", "undefined"; an exception left the timer's callback:
              \* "fatal", or "nameless" at an event without device node
    up,       \* initialize has returned, and deinitialize not been called
    proper    \* initialize was called when not up, deinitialize when up

instanceVars == <<file, mDevCap>>
objectVars   == <<state, level, primary, checked, timers, udevs>>
usageVars    == <<up, proper>>
vars == <<instanceVars, made, video, objectVars, process, usageVars>>

Object == 1..MaxInit
NoObject == 0

TypeOK ==
    /\ file \in Files \cup {NoFile}
    /\ mDevCap \in Capability
    /\ made \in 0..MaxInit
    /\ video \in Object \cup {NoObject}
    /\ state \in [Object -> {"none", "alive", "deleted", "failed"}]
    /\ level \in [Object -> [Card -> Level]]
    /\ primary \in [Object -> Card \cup {NoCard}]
    /\ checked \in [Object -> SUBSET Card]
    /\ timers \subseteq Object
    /\ udevs \subseteq Object
    /\ process \in {"running", "fatal", "nameless", "undefined"}
    /\ up \in BOOLEAN
    /\ proper \in BOOLEAN

Init ==
    /\ file = NoFile
    /\ mDevCap = [max |-> DefaultMax, min |-> DefaultMin, planes |-> DefaultPlanes]
    /\ made = 0
    /\ video = NoObject
    /\ state = [o \in Object |-> "none"]
    /\ level = [o \in Object |-> [n \in Card |-> "absent"]]
    /\ primary = [o \in Object |-> NoCard]
    /\ checked = [o \in Object |-> {}]
    /\ timers = {}
    /\ udevs = {}
    /\ process = "running"
    /\ up = FALSE
    /\ proper = TRUE

-----------------------------------------------------------------------------
(* VAL::getInstance makes the instance once; val_impl reads the file.      *)
GetInstance(f) ==
    /\ file = NoFile
    /\ file' = f /\ mDevCap' = Parsed(f)
    /\ UNCHANGED <<made, video, objectVars, process, usageVars>>

(* How initialize may end.  The constructor comes to its end: the card is  *)
(* chosen and set up, then the timer attached.                             *)
Initialized(o, lv, choice) ==
    /\ state' = [state EXCEPT ![o] = "alive"]
    /\ level' = [level EXCEPT ![o] = lv]
    /\ primary' = [primary EXCEPT ![o] = choice.primary]
    /\ checked' = [checked EXCEPT ![o] = choice.checked]
    /\ timers' = timers \cup {o}
    /\ udevs' = udevs \cup {o}
    /\ video' = o
    /\ up' = TRUE /\ proper' = (proper /\ ~up)
    /\ UNCHANGED <<instanceVars, process>>

(* The constructor throws after the UDev was made: no destructor of        *)
(* DRIElements runs, and the pointer keeps what it had.                    *)
InitializeThrows(o, lv) ==
    /\ LoadThrows(lv)
    /\ state' = [state EXCEPT ![o] = "failed"]
    /\ level' = [level EXCEPT ![o] = lv]
    /\ udevs' = udevs \cup {o}
    /\ proper' = (proper /\ ~up)
    /\ UNCHANGED <<instanceVars, video, primary, checked, timers, process, up>>

(* The constructor of UDev throws: no udev, or no monitor. *)
UDevThrows(o) ==
    /\ state' = [state EXCEPT ![o] = "failed"]
    /\ proper' = (proper /\ ~up)
    /\ UNCHANGED <<instanceVars, video, level, primary, checked, timers, udevs, process, up>>

(* val_impl::initialize makes the next object. *)
Initialize(o) ==
    /\ file # NoFile /\ o = made + 1 /\ made' = o
    /\ \/ \E lv \in LoadResources :
             \/ \E choice \in Chosen(lv) : Initialized(o, lv, choice)
             \/ InitializeThrows(o, lv)
       \/ UDevThrows(o)

(* Variants a run must reject: the timer not removed; the destructor of    *)
(* the base class run instead.                                             *)
DeleteKeepingTimer(o) ==
    /\ state' = [state EXCEPT ![o] = "deleted"]
    /\ udevs' = udevs \ {o}
    /\ UNCHANGED <<level, primary, checked, timers>>
DeleteBase(o) == UNCHANGED objectVars

(* ~DRIElements removes the timer and deletes the UDev; ~DriDevice does    *)
(* not close the card.                                                     *)
Delete(o) ==
    /\ state' = [state EXCEPT ![o] = "deleted"]
    /\ timers' = timers \ {o} /\ udevs' = udevs \ {o}
    /\ UNCHANGED <<level, primary, checked>>

(* The pointer is deleted and keeps its value. *)
Deinitialize ==
    /\ file # NoFile
    /\ IF video = NoObject THEN UNCHANGED <<objectVars, process>>
       ELSE IF state[video] = "alive" THEN Delete(video) /\ UNCHANGED process
       ELSE process' = "undefined" /\ UNCHANGED objectVars
    /\ up' = FALSE /\ proper' = (proper /\ up)
    /\ UNCHANGED <<instanceVars, made, video>>

(* A timer of the main loop takes an event of card n: updateDevice.  A     *)
(* listed card is asked for dumb buffers the first time.                   *)
Tick(o, n) ==
    /\ o \in timers
    /\ IF o \notin udevs THEN process' = "undefined" /\ UNCHANGED checked
       ELSE /\ n \in Listed(level[o]) /\ n \notin checked[o]
            /\ IF HasDumbBuff(level[o], n)
               THEN checked' = [checked EXCEPT ![o] = @ \cup {n}] /\ UNCHANGED process
               ELSE process' = "fatal" /\ UNCHANGED checked
    /\ UNCHANGED <<instanceVars, made, video, state, level, primary, timers, udevs, usageVars>>

(* An event may be of a device without a node, such as a connector; a      *)
(* std::string is made of the null pointer.                                *)
NamelessTick(o) ==
    /\ o \in timers
    /\ process' = IF o \in udevs THEN "nameless" ELSE "undefined"
    /\ UNCHANGED <<instanceVars, made, video, objectVars, usageVars>>

Next ==
    /\ process = "running"
    /\ \/ \E f \in Files : GetInstance(f)
       \/ \E o \in Object : Initialize(o)
       \/ Deinitialize
       \/ \E o \in Object, n \in Card : Tick(o, n)
       \/ \E o \in Object : NamelessTick(o)

Spec == Init /\ [][Next]_vars

-----------------------------------------------------------------------------
(* A timer never outlives the object it calls, nor that object's UDev,     *)
(* whatever order initialize and deinitialize are called in.               *)
TickSafe ==
    process = "running" => \A o \in timers : state[o] = "alive" /\ o \in udevs

(* Who calls initialize only when not up and deinitialize only when up     *)
(* never meets undefined behaviour, though the pointers are not cleared,   *)
(* and only the object now up polls for events, whatever initialize threw. *)
ProperIsSafe ==
    proper => /\ process # "undefined"
              /\ \A o \in Object : state[o] = "alive" \/ o \in timers => up /\ video = o

(* hasDumbBuff throws out of the timer's callback only for a card that the *)
(* object now polling did not choose: its own was asked at start, and what *)
(* a card answers does not change.  So it never does where, as             *)
(* driElements.cpp:156 has it, "RPI has Single card".  (The events without *)
(* a node, which end the process on any machine, are NamelessTick's.)      *)
OnlyOtherCardThrows ==
    process = "fatal" =>
        \E o \in Object :
            /\ state[o] = "alive" /\ primary[o] # NoCard
            /\ \E n \in Listed(level[o]) \ {primary[o]} : ~HasDumbBuff(level[o], n)

(* The cut to 16 bits can only lower a maximum, unless the file has a      *)
(* negative number: that may become the largest there is.  A file without  *)
(* a usable maximum has the default.                                       *)
Limit(n) == IF n >= 0 THEN n ELSE UWord - 1
FileMax == IF file.max = Unusable THEN DefaultMax ELSE file.max

(* Whatever the file says, and though each resolution falls back to its    *)
(* default on its own, no size is valid that is beyond the maximum it      *)
(* gives, in either dimension.                                             *)
MaximumHonoured ==
    file # NoFile =>
        \A s \in Resolution :
            IsValidMode(mDevCap, s) => s.w <= Limit(FileMax.w) /\ s.h <= Limit(FileMax.h)
=============================================================================
