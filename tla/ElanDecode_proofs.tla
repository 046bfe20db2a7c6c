--------------------------- MODULE ElanDecode_proofs ---------------------------
(***************************************************************************)
(* What reaches the input devices, for a touchpad of any number of slots   *)
(* and every packet.  The invariant is that of the decoder's loop: it has  *)
(* taken one finger record for each touched slot before the one it is at,  *)
(* the frame holds what those slots are to hold and nothing of the others, *)
(* and no area was missing so far.                                         *)
(***************************************************************************)
EXTENDS ElanDecode, TLAPS, FiniteSetTheorems

(* What decoding makes of one slot. *)
Decoded(d, r, s) ==
  IF s \in r.touched /\ InRange(Finger(r, s))
  THEN {ContactOf(d, Finger(r, s), AreaOf(r, Finger(r, s), s))} ELSE {}

Before(r, s) == {u \in r.touched : u < s}

LoopInv ==
  IsAbsolute(report) =>
    /\ frame.taken = Cardinality(Before(report, slot))
    /\ \A s \in Slots : frame.slots[s] = IF s < slot THEN Decoded(device, report, s)
                                                     ELSE {}
    /\ \A s \in Before(report, slot) :
         ~(InRange(Finger(report, s)) /\ AreaMissing(device, report, s))

DecodeInv == TypeOK /\ LoopInv

---------------------------------------------------------------------------
(* A packet holds a finger record for each of its touched slots, and       *)
(* areas for all slots where they stand apart.                             *)
LEMMA InPackets ==
  ASSUME NEW id, NEW areas, NEW r \in Packets(id, areas)
  PROVE  /\ r.id = id /\ r.areas \in areas
         /\ r.touched \in SUBSET Slots
         /\ r.fingers \in [1 .. Cardinality(r.touched) -> Fingers]
         /\ r.press \in Presses
<1>1. PICK t \in SUBSET Slots :
        r \in [id : {id}, touched : {t}, areas : areas, press : Presses,
               fingers : [1 .. Cardinality(t) -> Fingers]]
  BY DEF Packets
<1> QED BY <1>1

LEMMA PacketShape ==
  ASSUME NEW r \in Reports, IsAbsolute(r)
  PROVE  /\ r.touched \in SUBSET Slots /\ IsFiniteSet(r.touched)
         /\ r.fingers \in [1 .. Cardinality(r.touched) -> Fingers]
         /\ r.press \in Presses
         /\ r.id = "absolute2" => r.areas \in [Slots -> Areas]
<1>1. \/ r \in Packets("absolute", {NoReport.areas})
      \/ r \in Packets("absolute2", [Slots -> Areas])
  BY DEF Reports, IsAbsolute
<1>2. /\ r.touched \in SUBSET Slots
      /\ r.fingers \in [1 .. Cardinality(r.touched) -> Fingers]
      /\ r.press \in Presses
      /\ r.id = "absolute2" => r.areas \in [Slots -> Areas]
  <2>1. CASE r \in Packets("absolute", {NoReport.areas})
    BY <2>1, InPackets
  <2>2. CASE r \in Packets("absolute2", [Slots -> Areas])
    BY <2>2, InPackets
  <2> QED BY <1>1, <2>1, <2>2
<1>3. IsFiniteSet(Slots)
  BY ContactsAssumption, FS_Interval DEF Slots
<1> QED BY <1>2, <1>3, FS_Subset

(* How many of a packet's touched slots come before one: at first none,    *)
(* one more behind a touched slot, never more than there are slots, and    *)
(* before a touched slot fewer than there are records.                     *)
LEMMA CountBefore ==
  ASSUME NEW r, r.touched \in SUBSET Slots, IsFiniteSet(r.touched),
         NEW s \in 0 .. MaxContacts
  PROVE  /\ IsFiniteSet(Before(r, s)) /\ Cardinality(Before(r, s)) \in 0 .. s
         /\ s = 0 => Cardinality(Before(r, s)) = 0
         /\ Cardinality(Before(r, s + 1)) =
              IF s \in r.touched THEN Cardinality(Before(r, s)) + 1
                                 ELSE Cardinality(Before(r, s))
         /\ s \in r.touched =>
              Cardinality(Before(r, s)) + 1 \in 1 .. Cardinality(r.touched)
<1> USE ContactsAssumption DEF Slots, Before
<1>1. Before(r, s) \in SUBSET r.touched /\ Before(r, s) \in SUBSET (0 .. s - 1)
  OBVIOUS
<1>2. IsFiniteSet(Before(r, s)) /\ Cardinality(Before(r, s)) \in Nat
  BY <1>1, FS_Subset, FS_CardinalityType
<1>3. Cardinality(Before(r, s)) <= s
  <2>1. 0 \in Int /\ s - 1 \in Int
    OBVIOUS
  <2>2. IsFiniteSet(0 .. s - 1) /\ Cardinality(0 .. s - 1) = s
    BY <2>1, FS_Interval
  <2> QED BY <1>1, <2>2, FS_Subset
<1>4. Cardinality(Before(r, s + 1)) =
        IF s \in r.touched THEN Cardinality(Before(r, s)) + 1
                           ELSE Cardinality(Before(r, s))
  <2>1. CASE s \in r.touched
    <3>1. Before(r, s + 1) = Before(r, s) \cup {s} /\ s \notin Before(r, s)
      BY <2>1
    <3>2. Cardinality(Before(r, s) \cup {s}) = Cardinality(Before(r, s)) + 1
      BY <1>2, <3>1, FS_AddElement
    <3> QED BY <2>1, <3>1, <3>2
  <2>2. CASE s \notin r.touched
    <3>1. Before(r, s + 1) = Before(r, s)
      BY <2>2
    <3> QED BY <2>2, <3>1
  <2> QED BY <2>1, <2>2
<1>5. ASSUME s \in r.touched
      PROVE  Cardinality(Before(r, s)) + 1 \in 1 .. Cardinality(r.touched)
  <2>1. Before(r, s + 1) \in SUBSET r.touched
    OBVIOUS
  <2>2. Cardinality(Before(r, s + 1)) <= Cardinality(r.touched)
    BY <2>1, FS_Subset
  <2>3. Cardinality(r.touched) \in Nat
    BY FS_CardinalityType
  <2> QED BY <1>2, <1>4, <1>5, <2>2, <2>3
<1> QED BY <1>2, <1>3, <1>4, <1>5

(* Each touched slot has its record, with an area. *)
LEMMA FingerOf ==
  ASSUME NEW r \in Reports, IsAbsolute(r), NEW s \in r.touched
  PROVE  Finger(r, s) \in Fingers /\ AreaOf(r, Finger(r, s), s) \in Areas
<1>1. s \in Slots /\ s \in 0 .. MaxContacts
  BY PacketShape, ContactsAssumption DEF Slots
<1>2. Cardinality(Before(r, s)) + 1 \in 1 .. Cardinality(r.touched)
  BY <1>1, PacketShape, CountBefore
<1>3. Finger(r, s) \in Fingers
  BY <1>2, PacketShape DEF Finger, Before
<1> QED BY <1>1, <1>3, PacketShape, PacketsAssumption DEF AreaOf

(* A contact that is made of a finger within range is within range. *)
LEMMA ContactInRange ==
  ASSUME NEW d \in Devices, NEW f \in Fingers, InRange(f), NEW area \in Areas
  PROVE  /\ ContactOf(d, f, area) \in Contacts
         /\ ContactOf(d, f, area).minor <= ContactOf(d, f, area).major
<1> DEFINE major == area.x * AreaUnit(d.widthX)
           minor == area.y * AreaUnit(d.widthY)
<1>1. /\ f.x \in Nat /\ f.y \in Nat /\ f.pressure \in Nat
      /\ area.x \in Nat /\ area.y \in Nat
  BY PacketsAssumption
<1>2. AreaUnit(d.widthX) \in Nat /\ AreaUnit(d.widthY) \in Nat
  BY DevicesAssumption, RangesAssumption DEF AreaUnit, Highest
<1>3. major \in Nat /\ minor \in Nat
  BY <1>1, <1>2
<1>4. d.features \in BOOLEAN /\ d.adjustment \in Nat
  BY DevicesAssumption
<1> HIDE DEF major, minor
<1>5. /\ Highest(major, minor) \in Nat /\ Lowest(major, minor) \in Nat
      /\ Lowest(major, minor) <= Highest(major, minor)
  BY <1>3 DEF Highest, Lowest
<1>6. Lowest(f.pressure + d.adjustment, MaxPressure) \in 0 .. MaxPressure
  BY <1>1, <1>4, RangesAssumption DEF Lowest
<1>7. f.x \in 0 .. MaxX /\ MaxY - f.y \in 0 .. MaxY
  BY <1>1, RangesAssumption DEF InRange
<1>8. ContactOf(d, f, area) =
        [x |-> f.x, y |-> MaxY - f.y,
         pressure |-> Lowest(f.pressure + d.adjustment, MaxPressure),
         tool  |-> IF d.features THEN area.x ELSE 0,
         major |-> IF d.features THEN Highest(major, minor) ELSE 0,
         minor |-> IF d.features THEN Lowest(major, minor) ELSE 0]
  BY DEF ContactOf, major, minor
<1> QED BY <1>1, <1>5, <1>6, <1>7, <1>8 DEF Contacts

LEMMA ReleasedInRange == WithinRanges(Released)
BY DEF WithinRanges, Released

(* The loop at a touched slot is at that slot's record, which the packet   *)
(* has room for: it can only miss the area.                                *)
LEMMA AtRecord ==
  ASSUME DecodeInv, Turn(TRUE)
  PROVE  /\ report \in Reports /\ slot \in report.touched /\ slot \in Slots
         /\ NextFinger = Finger(report, slot)
         /\ Short <=> InRange(NextFinger) /\ AreaMissing(device, report, slot)
<1>1. /\ report \in Reports /\ IsAbsolute(report) /\ slot \in report.touched
      /\ slot \in Slots
  BY ContactsAssumption DEF DecodeInv, TypeOK, Turn, NoReport, Slots, IsAbsolute
<1>2. NextFinger = Finger(report, slot)
  BY <1>1 DEF DecodeInv, LoopInv, NextFinger, Finger, Before
<1>3. FingerDataOffset + FingerDataLen * (frame.taken + 1) <= device.reportLen
  <2>1. frame.taken \in Nat /\ frame.taken + 1 <= MaxContacts
    BY ContactsAssumption DEF DecodeInv, TypeOK, Turn
  <2> QED
    BY <2>1, DevicesAssumption, ContactsAssumption
       DEF DecodeInv, TypeOK, FingerDataOffset, FingerDataLen
<1>4. device.reportLen \in Nat /\ frame.taken \in Nat
  BY DevicesAssumption DEF DecodeInv, TypeOK
<1> QED BY <1>1, <1>2, <1>3, <1>4 DEF Short, FingerDataOffset, FingerDataLen

---------------------------------------------------------------------------
LEMMA DecodeInvInit == Init => DecodeInv
<1> SUFFICES ASSUME Init PROVE DecodeInv
  OBVIOUS
<1>1. ~IsAbsolute(NoReport)
  BY DEF IsAbsolute, NoReport
<1> QED
  BY <1>1, ReleasedInRange, ContactsAssumption
     DEF Init, DecodeInv, TypeOK, LoopInv, EmptyFrame, Buttons

(* Between two packets nothing is being decoded. *)
LEMMA DoneKeeps ==
  ASSUME Done
  PROVE  /\ report' = NoReport /\ ~IsAbsolute(report') /\ slot' \in 0 .. MaxContacts
         /\ frame'.taken \in 0 .. slot' /\ WithinRanges(frame'.slots)
         /\ frame' = [taken |-> frame'.taken, slots |-> frame'.slots]
<1>1. ~IsAbsolute(NoReport)
  BY DEF IsAbsolute, NoReport
<1> QED BY <1>1, ReleasedInRange, ContactsAssumption DEF Done, EmptyFrame

LEMMA BeginKeeps ==
  ASSUME DecodeInv, NEW r \in Reports, DecodeBegin(r), UNCHANGED device
  PROVE  DecodeInv'
<1>1. Cardinality(Before(r, 0)) = 0 /\ Before(r, 0) = {}
  <2>1. 0 \in 0 .. MaxContacts /\ IsAbsolute(r)
    BY ContactsAssumption DEF DecodeBegin
  <2>2. Before(r, 0) = {}
    BY <2>1, PacketShape DEF Before, Slots
  <2> QED BY <2>2, FS_EmptySet
<1>2. /\ report' = r /\ slot' = 0 /\ frame' = [taken |-> 0, slots |-> Released]
      /\ IsAbsolute(r) /\ UNCHANGED <<pad, stick, status, device>>
  BY DEF DecodeBegin, EmptyFrame
<1>3. TypeOK'
  BY <1>2, ReleasedInRange, ContactsAssumption DEF DecodeInv, TypeOK
<1>4. LoopInv'
  BY <1>1, <1>2, ContactsAssumption DEF LoopInv, Released, Slots
<1> QED BY <1>3, <1>4 DEF DecodeInv

(* What a packet without contacts, or a release, changes is not the loop's. *)
LEMMA IdleKeeps ==
  ASSUME DecodeInv, report = NoReport, UNCHANGED <<decoder, device>>,
         \/ \E r \in Reports : EmitTrackpoint(r) \/ EmitUnknown(r)
         \/ ReleaseInputs
  PROVE  DecodeInv'
<1>1. LoopInv'
  BY DEF DecodeInv, LoopInv, IsAbsolute, NoReport, decoder
<1>2. /\ WithinRanges(pad'.slots) /\ pad'.buttons \subseteq Buttons
      /\ pad'.hover \in BOOLEAN
      /\ pad' = [slots |-> pad'.slots, buttons |-> pad'.buttons, hover |-> pad'.hover]
  <2>1. CASE UNCHANGED pad
    BY <2>1 DEF DecodeInv, TypeOK
  <2>2. CASE pad' = [pad EXCEPT !.slots = Released, !.buttons = {}]
    BY <2>2, ReleasedInRange DEF DecodeInv, TypeOK
  <2> QED BY <2>1, <2>2 DEF EmitTrackpoint, EmitUnknown, ReleaseInputs
<1>3. stick' \subseteq Buttons /\ status' \in {0, EINVAL, ENODEV, EPROTO}
  <2>1. ASSUME NEW r \in Reports, EmitTrackpoint(r)
        PROVE  stick' \subseteq Buttons /\ status' \in {0, ENODEV}
    <3>1. r.id = "trackpoint"
      BY <2>1 DEF EmitTrackpoint
    <3>2. \/ r \in Packets("absolute", {NoReport.areas})
          \/ r \in Packets("absolute2", [Slots -> Areas])
          \/ r.press \in Presses
      BY DEF Reports
    <3>3. r.press \in Presses
      BY <3>2, InPackets
    <3> QED BY <2>1, <3>3, PacketsAssumption DEF EmitTrackpoint, DecodeInv, TypeOK
  <2>2. ASSUME NEW r \in Reports, EmitUnknown(r)
        PROVE  stick' \subseteq Buttons /\ status' = EPROTO
    BY <2>2 DEF EmitUnknown, DecodeInv, TypeOK
  <2>3. CASE ReleaseInputs
    BY <2>3 DEF ReleaseInputs, DecodeInv, TypeOK
  <2> QED BY <2>1, <2>2, <2>3
<1>4. TypeOK'
  BY <1>2, <1>3 DEF DecodeInv, TypeOK, decoder
<1> QED BY <1>1, <1>4 DEF DecodeInv

LEMMA SkipKeeps ==
  ASSUME DecodeInv, SkipSlot, UNCHANGED device
  PROVE  DecodeInv'
<1>1. /\ IsAbsolute(report) /\ slot < MaxContacts /\ slot \notin report.touched
      /\ slot' = slot + 1 /\ UNCHANGED <<pad, stick, status, report, frame, device>>
  BY DEF SkipSlot, Turn
<1>2. slot \in 0 .. MaxContacts /\ slot + 1 \in 0 .. MaxContacts /\ report \in Reports
  BY <1>1, ContactsAssumption DEF DecodeInv, TypeOK, NoReport, IsAbsolute
<1>3. Before(report, slot + 1) = Before(report, slot)
  BY <1>1, <1>2, PacketShape, ContactsAssumption DEF Before, Slots
<1>4. TypeOK'
  BY <1>1, <1>2, ContactsAssumption DEF DecodeInv, TypeOK
<1>5. LoopInv'
  <2>1. ASSUME NEW s \in Slots
        PROVE  frame.slots[s] = IF s < slot + 1 THEN Decoded(device, report, s) ELSE {}
    <3>1. CASE s = slot
      BY <1>1, <3>1, <1>2 DEF DecodeInv, LoopInv, Decoded
    <3>2. CASE s # slot
      <4>1. s < slot + 1 <=> s < slot
        BY <1>2, <3>2, ContactsAssumption DEF Slots
      <4> QED BY <1>1, <4>1 DEF DecodeInv, LoopInv
    <3> QED BY <3>1, <3>2
  <2> QED BY <1>1, <1>3, <2>1 DEF DecodeInv, LoopInv, Before
<1> QED BY <1>4, <1>5 DEF DecodeInv

LEMMA DecodeKeeps ==
  ASSUME DecodeInv, DecodeSlot, UNCHANGED device
  PROVE  DecodeInv'
<1> DEFINE f == Finger(report, slot)
           made == Decoded(device, report, slot)
<1>1. /\ IsAbsolute(report) /\ slot < MaxContacts /\ ~Short /\ Turn(TRUE)
      /\ slot' = slot + 1 /\ UNCHANGED <<pad, stick, status, report, device>>
  BY DEF DecodeSlot, Turn
<1>2. /\ report \in Reports /\ slot \in report.touched /\ slot \in Slots
      /\ NextFinger = f /\ ~(InRange(f) /\ AreaMissing(device, report, slot))
      /\ slot \in 0 .. MaxContacts /\ slot + 1 \in 0 .. MaxContacts
  BY <1>1, AtRecord, ContactsAssumption DEF Slots
<1>3. f \in Fingers /\ AreaOf(report, f, slot) \in Areas /\ device \in Devices
  BY <1>1, <1>2, FingerOf DEF DecodeInv, TypeOK
<1>4. /\ frame.slots \in [Slots -> SUBSET Contacts] /\ frame.slots[slot] = {}
      /\ frame.taken = Cardinality(Before(report, slot))
  BY <1>1, <1>2, ContactsAssumption DEF DecodeInv, LoopInv, TypeOK, WithinRanges, Slots
<1>5. frame' = [taken |-> frame.taken + 1, slots |-> [frame.slots EXCEPT ![slot] = made]]
  <2>1. frame' = [taken |-> frame.taken + 1,
                  slots |-> IF InRange(f)
                            THEN [frame.slots EXCEPT ![slot] =
                                    {ContactOf(device, f, AreaOf(report, f, slot))}]
                            ELSE frame.slots]
    BY <1>2 DEF DecodeSlot
  <2>2. CASE InRange(f)
    BY <1>2, <2>1, <2>2 DEF Decoded
  <2>3. CASE ~InRange(f)
    <3>1. made = {} /\ [frame.slots EXCEPT ![slot] = {}] = frame.slots
      BY <1>4, <2>3 DEF Decoded
    <3> QED BY <2>1, <2>3, <3>1
  <2> QED BY <2>2, <2>3
<1>6. made \in SUBSET Contacts /\ \A c, e \in made : c = e /\ c.minor <= c.major
  BY <1>3, ContactInRange DEF Decoded
<1>7. WithinRanges(frame'.slots)
  <2> HIDE DEF made
  <2>1. frame'.slots \in [Slots -> SUBSET Contacts]
    BY <1>4, <1>5, <1>6
  <2>2. ASSUME NEW s \in Slots, NEW c \in frame'.slots[s], NEW e \in frame'.slots[s]
        PROVE  c = e /\ c.minor <= c.major
    <3>1. CASE s = slot
      BY <1>2, <1>4, <1>5, <1>6, <2>2, <3>1
    <3>2. CASE s # slot
      BY <1>4, <1>5, <2>2, <3>2 DEF DecodeInv, TypeOK, WithinRanges
    <3> QED BY <3>1, <3>2
  <2> QED BY <2>1, <2>2 DEF WithinRanges
<1>8. TypeOK'
  <2>1. frame'.taken \in 0 .. slot'
    BY <1>1, <1>2, <1>5, ContactsAssumption DEF DecodeInv, TypeOK
  <2> QED BY <1>1, <1>2, <1>5, <1>7, <2>1 DEF DecodeInv, TypeOK
<1>9. LoopInv'
  <2>1. frame'.taken = Cardinality(Before(report, slot + 1))
    BY <1>1, <1>2, <1>4, <1>5, PacketShape, CountBefore
  <2>2. ASSUME NEW s \in Slots
        PROVE  frame'.slots[s] = IF s < slot + 1 THEN Decoded(device, report, s) ELSE {}
    <3>1. CASE s = slot
      BY <1>2, <1>4, <1>5, <3>1
    <3>2. CASE s # slot
      <4>1. s < slot + 1 <=> s < slot
        BY <1>2, <3>2, ContactsAssumption DEF Slots
      <4>2. frame'.slots[s] = frame.slots[s]
        BY <1>4, <1>5, <3>2
      <4> QED BY <1>1, <4>1, <4>2 DEF DecodeInv, LoopInv
    <3> QED BY <3>1, <3>2
  <2>3. ASSUME NEW s \in Before(report, slot + 1)
        PROVE  ~(InRange(Finger(report, s)) /\ AreaMissing(device, report, s))
    <3>1. s = slot \/ s \in Before(report, slot)
      BY <1>1, <1>2, PacketShape, ContactsAssumption DEF Before, Slots
    <3> QED BY <1>1, <1>2, <3>1 DEF DecodeInv, LoopInv
  <2> QED BY <1>1, <2>1, <2>2, <2>3 DEF LoopInv
<1> QED BY <1>8, <1>9 DEF DecodeInv

(* The end of a packet, with its frame emitted or dropped. *)
LEMMA EndKeeps ==
  ASSUME DecodeInv, EmitAbsolute \/ RejectPacket, UNCHANGED device
  PROVE  DecodeInv'
<1>1. Done /\ stick' = stick /\ status' \in {0, EINVAL}
  BY DEF EmitAbsolute, RejectPacket
<1>2. report.press \in [buttons : SUBSET Buttons, hover : BOOLEAN]
  BY PacketShape, PacketsAssumption
     DEF DecodeInv, TypeOK, EmitAbsolute, RejectPacket, Turn, NoReport, IsAbsolute
<1>3. \/ pad' = pad
      \/ pad' = [slots |-> frame.slots, buttons |-> report.press.buttons,
                 hover |-> report.press.hover]
  BY DEF EmitAbsolute, RejectPacket
<1>4. /\ WithinRanges(pad'.slots) /\ pad'.buttons \subseteq Buttons
      /\ pad'.hover \in BOOLEAN
      /\ pad' = [slots |-> pad'.slots, buttons |-> pad'.buttons, hover |-> pad'.hover]
  BY <1>2, <1>3 DEF DecodeInv, TypeOK
<1>5. TypeOK'
  BY <1>1, <1>4, DoneKeeps DEF DecodeInv, TypeOK
<1>6. LoopInv'
  BY <1>1, DoneKeeps DEF LoopInv
<1> QED BY <1>5, <1>6 DEF DecodeInv

THEOREM DecodeInvariant == Spec => []DecodeInv
<1>1. DecodeInv /\ [Next]_vars => DecodeInv'
  <2> SUFFICES ASSUME DecodeInv, [Next]_vars PROVE DecodeInv'
    OBVIOUS
  <2>1. CASE Report /\ UNCHANGED device
    BY <2>1, BeginKeeps, IdleKeeps DEF Report, EmitTrackpoint, EmitUnknown
  <2>2. CASE SkipSlot /\ UNCHANGED device
    BY <2>2, SkipKeeps
  <2>3. CASE DecodeSlot /\ UNCHANGED device
    BY <2>3, DecodeKeeps
  <2>4. CASE (EmitAbsolute \/ RejectPacket) /\ UNCHANGED device
    BY <2>4, EndKeeps
  <2>5. CASE ReleaseInputs /\ UNCHANGED device
    BY <2>5, IdleKeeps DEF ReleaseInputs
  <2>6. CASE UNCHANGED vars
    BY <2>6 DEF vars, decoder, DecodeInv, TypeOK, LoopInv, Before, Decoded
  <2> QED BY <2>1, <2>2, <2>3, <2>4, <2>5, <2>6 DEF Next
<1> QED BY <1>1, DecodeInvInit, PTL DEF Spec

(* What the touchpad and the TrackPoint are told stays within the ranges   *)
(* they have declared, and so does every frame on its way there: the bound *)
(* on x and y is checked before a contact is made of them.                 *)
THEOREM DecodeTypes == Spec => []TypeOK
BY DecodeInvariant, PTL DEF DecodeInv

---------------------------------------------------------------------------
(* A packet ends with the step that emits it, every slot decoded, or with  *)
(* the one that rejects it.                                                *)
LEMMA HowPacketsEnd ==
  ASSUME DecodeInv, [Next]_vars, IsAbsolute(report)
  PROVE  \/ SkipSlot \/ DecodeSlot \/ RejectPacket \/ EmitAbsolute
         \/ UNCHANGED vars
BY DEF Next, Report, ReleaseInputs, IsAbsolute, NoReport

LEMMA AllDecoded ==
  ASSUME DecodeInv, EmitAbsolute
  PROVE  /\ \A s \in Slots : frame.slots[s] = Decoded(device, report, s)
         /\ \A s \in report.touched :
              ~(InRange(Finger(report, s)) /\ AreaMissing(device, report, s))
<1>1. IsAbsolute(report) /\ slot = MaxContacts /\ report \in Reports
  BY DEF EmitAbsolute, DecodeInv, TypeOK, IsAbsolute, NoReport
<1>2. \A s \in Slots : s < slot
  BY <1>1, ContactsAssumption DEF Slots
<1>3. report.touched \subseteq Before(report, slot)
  BY <1>1, <1>2, PacketShape DEF Before
<1> QED BY <1>1, <1>2, <1>3 DEF DecodeInv, LoopInv

(* Whatever finger runs out of bytes, none of its packet is seen, and no   *)
(* packet is rejected that has all its areas.                              *)
THEOREM PacketsWhole == Spec => WholePackets
<1> DEFINE Ends == (status' # 0 <=> \E s \in report.touched :
                      /\ InRange(Finger(report, s))
                      /\ AreaMissing(device, report, s))
<1>1. ASSUME DecodeInv, [Next]_vars
      PROVE  /\ IsAbsolute(report) /\ ~(Finished /\ status' = 0)
                => UNCHANGED <<pad, stick>>
             /\ Finished => Ends
  <2>1. CASE ~IsAbsolute(report)
    BY <2>1 DEF Finished
  <2>2. CASE (SkipSlot \/ DecodeSlot \/ UNCHANGED vars) /\ IsAbsolute(report)
    <3>1. UNCHANGED <<pad, stick, report>>
      BY <2>2 DEF SkipSlot, DecodeSlot, vars, decoder
    <3> QED BY <3>1, <2>2 DEF Finished, IsAbsolute
  <2>3. CASE RejectPacket
    <3>1. UNCHANGED <<pad, stick>> /\ status' # 0
      BY <2>3 DEF RejectPacket, EINVAL
    <3>2. \E s \in report.touched :
            InRange(Finger(report, s)) /\ AreaMissing(device, report, s)
      BY <1>1, <2>3, AtRecord DEF RejectPacket
    <3> QED BY <3>1, <3>2
  <2>4. CASE EmitAbsolute
    <3>1. status' = 0 /\ Ends
      BY <1>1, <2>4, AllDecoded DEF EmitAbsolute
    <3>2. Finished
      BY <2>4, DoneKeeps DEF Finished, EmitAbsolute
    <3> QED BY <3>1, <3>2
  <2> QED BY <1>1, <2>1, <2>2, <2>3, <2>4, HowPacketsEnd
<1> QED BY <1>1, DecodeInvariant, PTL DEF Spec, WholePackets

(* On traces wide enough for the reduction, an area is the same number in  *)
(* C: nothing wraps.                                                       *)
LEMMA NoWrap ==
  ASSUME NEW d \in Devices, ~Narrow(d), NEW a \in Areas
  PROVE  /\ (a.x * (d.widthX - Reduce)) % CWord = a.x * AreaUnit(d.widthX)
         /\ (a.y * (d.widthY - Reduce)) % CWord = a.y * AreaUnit(d.widthY)
<1>1. /\ d.widthX - Reduce \in Nat /\ AreaUnit(d.widthX) = d.widthX - Reduce
      /\ d.widthY - Reduce \in Nat /\ AreaUnit(d.widthY) = d.widthY - Reduce
  BY DevicesAssumption, RangesAssumption DEF Narrow, AreaUnit, Highest
<1>2. a.x \in Nat /\ a.y \in Nat
  BY PacketsAssumption
<1>3. ASSUME NEW n \in Nat, n < CWord PROVE n % CWord = n
  BY <1>3 DEF CWord
<1>4. a.x * (d.widthX - Reduce) \in Nat /\ a.y * (d.widthY - Reduce) \in Nat
  BY <1>1, <1>2
<1>5. a.x * (d.widthX - Reduce) < CWord /\ a.y * (d.widthY - Reduce) < CWord
  BY <1>1, AreasAssumption
<1> QED BY <1>1, <1>3, <1>4, <1>5

LEMMA DecodesLikeC ==
  ASSUME NEW r \in Reports, IsAbsolute(r), NEW d \in Devices, ~Narrow(d),
         NEW s \in Slots, NEW before, ~(s \in r.touched /\ ~InRange(Finger(r, s)))
  PROVE  Decoded(d, r, s) = CSlot(d, r, s, before)
<1>1. CASE s \notin r.touched
  BY <1>1 DEF Decoded, CSlot
<1>2. CASE s \in r.touched
  <2> DEFINE f == Finger(r, s)
             area == AreaOf(r, f, s)
  <2>1. InRange(f) /\ f \in Fingers /\ area \in Areas
    BY <1>2, FingerOf
  <2>2. ~(f.x > MaxX \/ f.y > MaxY)
    BY <2>1, PacketsAssumption, RangesAssumption DEF InRange
  <2>3. /\ (area.x * (d.widthX - Reduce)) % CWord = area.x * AreaUnit(d.widthX)
        /\ (area.y * (d.widthY - Reduce)) % CWord = area.y * AreaUnit(d.widthY)
    BY <2>1, NoWrap
  <2>4. Decoded(d, r, s) = {ContactOf(d, f, area)}
    BY <1>2, <2>1 DEF Decoded
  <2> QED BY <1>2, <2>2, <2>3, <2>4 DEF CSlot, ContactOf
<1> QED BY <1>1, <1>2

(* The rewrite in Rust and its shim leave the touchpad as the emission in  *)
(* C would, but for fingers out of range and narrow traces.                *)
THEOREM EmissionLikeC == Spec => EmitsLikeC
<1> DEFINE Like == /\ \A s \in Slots :
                        IF s \in report.touched /\ ~InRange(Finger(report, s))
                        THEN pad'.slots[s] = {}
                        ELSE ~Narrow(device) =>
                               pad'.slots[s] = CSlot(device, report, s, pad.slots[s])
                   /\ pad'.buttons = report.press.buttons
                   /\ pad'.hover = report.press.hover
<1>1. ASSUME DecodeInv, [Next]_vars
      PROVE  Finished /\ status' = 0 => Like
  <2> SUFFICES ASSUME Finished, status' = 0 PROVE Like
    OBVIOUS
  <2>1. EmitAbsolute
    <3>1. ~SkipSlot /\ ~DecodeSlot /\ ~UNCHANGED vars
      BY DEF Finished, SkipSlot, DecodeSlot, vars, decoder, IsAbsolute
    <3>2. ~RejectPacket
      BY DEF RejectPacket, EINVAL
    <3> QED BY <1>1, <3>1, <3>2, HowPacketsEnd DEF Finished
  <2>2. /\ pad' = [slots |-> frame.slots, buttons |-> report.press.buttons,
                   hover |-> report.press.hover]
        /\ report \in Reports /\ IsAbsolute(report) /\ device \in Devices
    BY <1>1, <2>1 DEF EmitAbsolute, DecodeInv, TypeOK, IsAbsolute, NoReport
  <2>3. ASSUME NEW s \in Slots
        PROVE  pad'.slots[s] = Decoded(device, report, s)
    BY <1>1, <2>1, <2>2, AllDecoded
  <2>4. ASSUME NEW s \in Slots, ~(s \in report.touched /\ ~InRange(Finger(report, s))),
               ~Narrow(device)
        PROVE  pad'.slots[s] = CSlot(device, report, s, pad.slots[s])
    BY <2>2, <2>3, <2>4, DecodesLikeC
  <2>5. ASSUME NEW s \in Slots, s \in report.touched /\ ~InRange(Finger(report, s))
        PROVE  pad'.slots[s] = {}
    BY <2>3, <2>5 DEF Decoded
  <2> QED BY <2>2, <2>4, <2>5
<1> QED BY <1>1, DecodeInvariant, PTL DEF Spec, EmitsLikeC

===============================================================================
