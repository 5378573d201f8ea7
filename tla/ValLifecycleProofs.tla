------------------------- MODULE ValLifecycleProofs -------------------------
(* Proofs about ValLifecycle, and the modules it is made of.               *)
EXTENDS ValLifecycle, TLAPS

-----------------------------------------------------------------------------
(* The capability file.                                                    *)

(* A number cut to a word is one, and is no greater than it was. *)
LEMMA CutType == ASSUME NEW n \in Int PROVE Cut(n) \in Uint16
BY CapabilityAssumption DEF Cut, Uint16

LEMMA CutShrinks == ASSUME NEW n \in Nat PROVE Cut(n) <= n
<1>1. n = (UWord * (n \div UWord)) + (n % UWord) /\ n \div UWord >= 0
  BY CapabilityAssumption
<1>2. UWord * (n \div UWord) >= 0
  BY <1>1, CapabilityAssumption
<1>3. QED
  BY <1>1, <1>2, CapabilityAssumption DEF Cut

LEMMA ParsedType == ASSUME NEW f \in File PROVE Parsed(f) \in Capability
<1>1. \A d \in Resolution, r \in {Unusable} \cup [w : Int, h : Int] :
          ParseResolution(d, r) \in Resolution
  BY CutType DEF ParseResolution, Resolution
<1>2. ParsePlanes(f.planes) \in SUBSET PlaneName
  BY CapabilityAssumption DEF ParsePlanes, File
<1>3. QED
  BY <1>1, <1>2, CapabilityAssumption DEF Parsed, File, Capability

-----------------------------------------------------------------------------
(* The inductive invariant.                                                *)

(* Objects come into being in order. *)
Unmade ==
    \A o \in Object : o > made =>
        state[o] = "none" /\ o \notin timers

(* A timer is attached last and removed first. *)
TimerInv == \A o \in timers : state[o] = "alive" /\ o \in udevs

(* For a caller who alternates, the pointer names the object when there is *)
(* one alive, and there is one when up.                                    *)
PointerInv ==
    proper => /\ process # "undefined"
              /\ \A o \in Object : state[o] = "alive" => up /\ video = o
              /\ up => video \in Object /\ state[video] = "alive"

(* The card of an object was asked for dumb buffers when it was chosen. *)
PrimaryInv ==
    \A o \in Object : state[o] = "alive" =>
        \/ primary[o] = NoCard /\ Listed(level[o]) = {}
        \/ /\ HasDumbBuff(level[o], primary[o])
           /\ primary[o] \in checked[o] /\ primary[o] \in Card

(* The capabilities are those of the file. *)
FileInv == file # NoFile => mDevCap = Parsed(file)

LInv == TypeOK /\ Unmade /\ TimerInv /\ PointerInv /\ PrimaryInv /\ FileInv
        /\ OnlyOtherCardThrows

LEMMA LInit == Init => LInv
<1> SUFFICES ASSUME Init PROVE LInv
  OBVIOUS
<1> USE DEF Init, Object, NoObject
<1>1. TypeOK
  <2>1. mDevCap \in Capability
    BY CapabilityAssumption DEF Capability
  <2>2. level \in [Object -> [Card -> Level]]
    BY DEF Level
  <2>3. made \in 0..MaxInit /\ file \in Files \cup {NoFile}
    BY LifecycleAssumption
  <2>4. QED
    BY <2>1, <2>2, <2>3 DEF TypeOK
<1>2. Unmade /\ TimerInv /\ PointerInv /\ PrimaryInv /\ FileInv /\ OnlyOtherCardThrows
  BY DEF Unmade, TimerInv, PointerInv, PrimaryInv, FileInv, OnlyOtherCardThrows
<1>3. QED
  BY <1>1, <1>2 DEF LInv

(* The choice of the constructor. *)
LEMMA ChosenType ==
    ASSUME NEW lv \in LoadResources, NEW choice \in Chosen(lv)
    PROVE  /\ choice.primary \in Card \cup {NoCard} /\ choice.checked \in SUBSET Card
           /\ \/ choice.primary = NoCard /\ Listed(lv) = {}
              \/ /\ HasDumbBuff(lv, choice.primary)
                 /\ choice.primary \in choice.checked /\ choice.primary \in Card
BY DEF Chosen, Listed

-----------------------------------------------------------------------------
(* One step each.                                                          *)

LEMMA GetInstanceStep == ASSUME LInv, NEW f \in Files, GetInstance(f) PROVE LInv'
<1> USE DEF LInv, GetInstance, objectVars, usageVars
<1>1. TypeOK'
  BY ParsedType, LifecycleAssumption DEF TypeOK
<1>2. FileInv'
  BY DEF FileInv
<1>3. QED
  BY <1>1, <1>2 DEF Unmade, TimerInv, PointerInv, PrimaryInv, OnlyOtherCardThrows

LEMMA InitializedStep ==
    ASSUME LInv, process = "running", NEW o \in Object, o = made + 1, made' = o,
           NEW lv \in LoadResources, NEW choice \in Chosen(lv), Initialized(o, lv, choice)
    PROVE  LInv'
<1> USE DEF LInv, Initialized, Object, NoObject, instanceVars
<1>1. lv \in [Card -> Level]
  BY DEF LoadResources
<1>2. TypeOK'
  BY <1>1, ChosenType, LifecycleAssumption DEF TypeOK
<1>3. Unmade' /\ TimerInv'
  <2>1. made \in Nat /\ \A p \in Object : p > o => p > made /\ p # o
    BY LifecycleAssumption DEF TypeOK
  <2>2. Unmade'
    BY <2>1 DEF TypeOK, Unmade
  <2>3. TimerInv'
    BY DEF TypeOK, TimerInv
  <2>4. QED
    BY <2>2, <2>3
<1>4. PointerInv'
  BY DEF TypeOK, PointerInv
<1>5. PrimaryInv'
  BY ChosenType DEF TypeOK, PrimaryInv
<1>6. FileInv' /\ OnlyOtherCardThrows'
  BY DEF FileInv, OnlyOtherCardThrows
<1>7. QED
  BY <1>2, <1>3, <1>4, <1>5, <1>6

LEMMA InitializeThrowsStep ==
    ASSUME LInv, process = "running", NEW o \in Object, o = made + 1, made' = o,
           NEW lv \in LoadResources, InitializeThrows(o, lv)
    PROVE  LInv'
<1> USE DEF LInv, InitializeThrows, Object, NoObject, instanceVars
<1>1. lv \in [Card -> Level]
  BY DEF LoadResources
<1>2. TypeOK'
  BY <1>1, LifecycleAssumption DEF TypeOK
<1>3. Unmade' /\ TimerInv'
  BY LifecycleAssumption DEF TypeOK, Unmade, TimerInv
<1>4. PointerInv' /\ PrimaryInv'
  BY DEF TypeOK, PointerInv, PrimaryInv
<1>5. FileInv' /\ OnlyOtherCardThrows'
  BY DEF FileInv, OnlyOtherCardThrows
<1>6. QED
  BY <1>2, <1>3, <1>4, <1>5

LEMMA UDevThrowsStep ==
    ASSUME LInv, process = "running", NEW o \in Object, o = made + 1, made' = o, UDevThrows(o)
    PROVE  LInv'
<1> USE DEF LInv, UDevThrows, Object, NoObject, instanceVars
<1>1. TypeOK'
  BY LifecycleAssumption DEF TypeOK
<1>2. Unmade' /\ TimerInv'
  BY LifecycleAssumption DEF TypeOK, Unmade, TimerInv
<1>3. PointerInv' /\ PrimaryInv'
  BY DEF TypeOK, PointerInv, PrimaryInv
<1>4. FileInv' /\ OnlyOtherCardThrows'
  BY DEF FileInv, OnlyOtherCardThrows
<1>5. QED
  BY <1>1, <1>2, <1>3, <1>4

LEMMA DeinitializeStep == ASSUME LInv, process = "running", Deinitialize PROVE LInv'
<1> USE DEF LInv, Deinitialize, Object, NoObject, instanceVars, objectVars
<1>1. TypeOK'
  BY DEF TypeOK, Delete
<1>2. Unmade' /\ TimerInv'
  BY DEF TypeOK, Unmade, TimerInv, Delete
<1>3. PointerInv'
  <2> SUFFICES ASSUME proper' PROVE PointerInv'
    BY DEF PointerInv
  <2>1. proper /\ up
    OBVIOUS
  <2>2. video \in Object /\ state[video] = "alive"
    BY <2>1 DEF PointerInv
  <2>3. Delete(video) /\ process' = process
    BY <2>2
  <2>4. \A o \in Object : state[o] = "alive" => video = o
    BY <2>1 DEF PointerInv
  <2>5. \A o \in Object : state'[o] # "alive"
    BY <2>3, <2>4 DEF Delete, TypeOK
  <2>6. QED
    BY <2>3, <2>5 DEF PointerInv
<1>4. PrimaryInv'
  BY DEF TypeOK, PrimaryInv, Delete
<1>5. FileInv' /\ OnlyOtherCardThrows'
  BY DEF FileInv, OnlyOtherCardThrows
<1>6. QED
  BY <1>1, <1>2, <1>3, <1>4, <1>5

(* Only a card that was not chosen can lack dumb buffers here. *)
LEMMA TickStep ==
    ASSUME LInv, process = "running", NEW o \in Object, NEW n \in Card, Tick(o, n)
    PROVE  LInv'
<1> USE DEF LInv, Tick, instanceVars, usageVars
<1>1. o \in udevs /\ state[o] = "alive"
  BY DEF TimerInv
<1>2. TypeOK'
  <2>1. checked' \in [Object -> SUBSET Card]
    BY <1>1 DEF TypeOK
  <2>2. process' \in {"running", "fatal"}
    BY <1>1
  <2>3. QED
    BY <2>1, <2>2 DEF TypeOK
<1>3. Unmade' /\ TimerInv' /\ FileInv'
  BY <1>1 DEF Unmade, TimerInv, FileInv
<1>4. PointerInv' /\ PrimaryInv'
  BY <1>1 DEF TypeOK, PointerInv, PrimaryInv
<1>5. OnlyOtherCardThrows'
  <2>1. process' = "fatal" => n \in Listed(level[o]) /\ ~HasDumbBuff(level[o], n)
    BY <1>1
  <2>2. n \in Listed(level[o]) => /\ primary[o] # NoCard
                                  /\ HasDumbBuff(level[o], primary[o])
    BY <1>1, LoadingAssumption DEF PrimaryInv
  <2>3. QED
    BY <1>1, <2>1, <2>2 DEF OnlyOtherCardThrows
<1>6. QED
  BY <1>2, <1>3, <1>4, <1>5

LEMMA NamelessTickStep == ASSUME LInv, NEW o \in Object, NamelessTick(o) PROVE LInv'
<1> USE DEF LInv, NamelessTick, instanceVars, objectVars, usageVars
<1>1. o \in udevs /\ process' = "nameless"
  BY DEF TimerInv
<1>2. TypeOK'
  BY <1>1 DEF TypeOK
<1>3. PointerInv'
  BY <1>1 DEF PointerInv
<1>4. QED
  BY <1>1, <1>2, <1>3 DEF Unmade, TimerInv, PrimaryInv, FileInv, OnlyOtherCardThrows

LEMMA LNext == LInv /\ [Next]_vars => LInv'
<1> SUFFICES ASSUME LInv, [Next]_vars PROVE LInv'
  OBVIOUS
<1>1. CASE Next
  <2>1. CASE \E f \in Files : GetInstance(f)
    BY <2>1, GetInstanceStep
  <2>2. CASE \E o \in Object : Initialize(o)
    BY <1>1, <2>2, InitializedStep, InitializeThrowsStep, UDevThrowsStep DEF Initialize, Next
  <2>3. CASE Deinitialize
    BY <1>1, <2>3, DeinitializeStep DEF Next
  <2>4. CASE \E o \in Object, n \in Card : Tick(o, n)
    BY <1>1, <2>4, TickStep DEF Next
  <2>5. CASE \E o \in Object : NamelessTick(o)
    BY <2>5, NamelessTickStep
  <2>6. QED
    BY <1>1, <2>1, <2>2, <2>3, <2>4, <2>5 DEF Next
<1>2. CASE UNCHANGED vars
  BY <1>2 DEF vars, instanceVars, objectVars, usageVars, LInv, TypeOK, Unmade, TimerInv,
     PointerInv, PrimaryInv, FileInv, OnlyOtherCardThrows
<1>3. QED
  BY <1>1, <1>2

LEMMA LAlways == Spec => []LInv
BY LInit, LNext, PTL DEF Spec

-----------------------------------------------------------------------------
(* Type correctness, for any cards, files and number of calls. *)
THEOREM TypeCorrect == Spec => []TypeOK
<1>1. LInv => TypeOK
  BY DEF LInv
<1>2. QED
  BY <1>1, LAlways, PTL

(* No timer outlives its object, in whatever order callers call. *)
THEOREM TicksAreSafe == Spec => []TickSafe
<1>1. LInv => TickSafe
  BY DEF LInv, TimerInv, TickSafe
<1>2. QED
  BY <1>1, LAlways, PTL

(* Callers who alternate initialize and deinitialize meet no undefined     *)
(* behaviour, and one object at most polls.                                *)
THEOREM AlternatingIsSafe == Spec => []ProperIsSafe
<1>1. LInv => ProperIsSafe
  BY DEF LInv, TimerInv, PointerInv, ProperIsSafe
<1>2. QED
  BY <1>1, LAlways, PTL

(* No event throws out of the timer's callback but that of a card listed   *)
(* beside the chosen one, and an event without a node (NamelessTick).      *)
THEOREM OnlyOthersThrow == Spec => []OnlyOtherCardThrows
<1>1. LInv => OnlyOtherCardThrows
  BY DEF LInv
<1>2. QED
  BY <1>1, LAlways, PTL

(* Whatever the file says, no size beyond its maximum is valid; a negative *)
(* number bounds nothing.                                                  *)
THEOREM MaximumAlwaysHonoured == Spec => []MaximumHonoured
<1>1. LInv => MaximumHonoured
  <2> SUFFICES ASSUME LInv, file # NoFile, NEW s \in Resolution, IsValidMode(mDevCap, s)
               PROVE  s.w <= Limit(FileMax.w) /\ s.h <= Limit(FileMax.h)
    BY DEF MaximumHonoured
  <2>1. file \in File /\ (file.max # Unusable => file.max \in [w : Int, h : Int])
    BY LifecycleAssumption DEF LInv, TypeOK, File
  <2>2. mDevCap.max = ParseResolution(DefaultMax, file.max)
    BY DEF LInv, FileInv, Parsed
  <2>3. s.w \in Uint16 /\ s.h \in Uint16 /\ s.w <= mDevCap.max.w /\ s.h <= mDevCap.max.h
    BY DEF IsValidMode, Resolution
  <2>4. CASE file.max = Unusable
    <3>1. /\ FileMax = DefaultMax /\ mDevCap.max = DefaultMax
          /\ DefaultMax.w \in Nat /\ DefaultMax.h \in Nat
      BY <2>2, <2>4, CapabilityAssumption DEF FileMax, ParseResolution, Resolution, Uint16
    <3>2. QED
      BY <2>3, <3>1 DEF Limit
  <2>5. CASE file.max # Unusable
    <3>1. ASSUME NEW n \in Int PROVE Cut(n) \in Uint16 /\ Cut(n) <= Limit(n)
      BY CutType, CutShrinks, CapabilityAssumption DEF Limit, Uint16
    <3>2. mDevCap.max = [w |-> Cut(file.max.w), h |-> Cut(file.max.h)] /\ FileMax = file.max
      BY <2>2, <2>5 DEF ParseResolution, FileMax
    <3>3. /\ Cut(file.max.w) \in Uint16 /\ Cut(file.max.w) <= Limit(file.max.w)
          /\ Cut(file.max.h) \in Uint16 /\ Cut(file.max.h) <= Limit(file.max.h)
      BY <2>1, <2>5, <3>1
    <3>4. Limit(file.max.w) \in Int /\ Limit(file.max.h) \in Int
      BY <2>1, <2>5, CapabilityAssumption DEF Limit
    <3>5. QED
      BY <2>3, <3>2, <3>3, <3>4 DEF Uint16
  <2>6. QED
    BY <2>4, <2>5
<1>2. QED
  BY <1>1, LAlways, PTL
=============================================================================
