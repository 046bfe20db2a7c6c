------------------------------ MODULE ElanDecode ------------------------------
(***************************************************************************)
(* Report packets on their way to the input devices: the decoder of the    *)
(* Rust core, one step for each turn of its loop over the slots, the C     *)
(* shim that emits its frames, and, as the reference, the emission in C    *)
(* that elan_i2c_core.c keeps beside them.                                 *)
(*                                                                         *)
(* A packet says which slots are touched and holds one record per touched  *)
(* slot, packed in the order of the slots; in high-precision packets the   *)
(* contact areas stand apart, by slot.  Offsets and lengths are the code's *)
(* bytes; coordinates are already assembled from theirs.                   *)
(***************************************************************************)
EXTENDS Integers, FiniteSets

CONSTANTS
  MaxContacts,   \* slots of the touchpad (five in the code)
  MaxX, MaxY,    \* the largest coordinates
  MaxPressure,   \* ETP_MAX_PRESSURE
  Reduce,        \* FINGER_WIDTH_REDUCE
  Devices,       \* what elan_probe found: see Init
  Fingers,       \* finger records of packets
  Areas,         \* contact areas of packets, [x, y] in traces
  Presses        \* buttons of packets, with the hover bit

VARIABLES
  device,  \* what emission knows of the device: elan_rs_report_context
  pad,     \* the touchpad's input device: slots, buttons, hover
  stick,   \* the TrackPoint's: buttons
  report,  \* the absolute packet being decoded, or NoReport
  slot,    \* the slot its loop is at
  frame,   \* the frame so far, with the finger records taken
  status   \* what became of the last report: 0 or a negative errno

decoder == <<report, slot, frame>>
vars == <<device, pad, stick, decoder, status>>

Slots == 0 .. MaxContacts - 1

FingerDataOffset == 4
FingerDataLen    == 5
MkDataOffset     == 33

\* An unsigned int of C, of 16 bits here: TLC's integers have 32.
CWord == 65536

EINVAL == -22
ENODEV == -19
EPROTO == -71

Buttons == {"left", "middle", "right"}

\* A slot holds a set of at most one contact.
Released   == [s \in Slots |-> {}]
EmptyFrame == [taken |-> 0, slots |-> Released]
NoReport == [id |-> "none", touched |-> {}, fingers |-> <<>>,
             areas |-> [s \in Slots |-> [x |-> 0, y |-> 0]],
             press |-> [buttons |-> {}, hover |-> FALSE]]

Highest(a, b) == IF a > b THEN a ELSE b
Lowest(a, b)  == IF a < b THEN a ELSE b

(* Saturating: a narrow trace has no area. *)
AreaUnit(width) == Highest(width - Reduce, 0)

---------------------------------------------------------------------------
ASSUME ContactsAssumption == MaxContacts \in Nat

ASSUME RangesAssumption ==
  MaxX \in Nat /\ MaxY \in Nat /\ MaxPressure \in Nat /\ Reduce \in Nat

(* The shortest report, 32 bytes of SMBus, has room for five fingers.  The *)
(* pressure adjustment is 0 or ETP_PRESSURE_OFFSET.                        *)
ASSUME DevicesAssumption ==
  \A d \in Devices :
     /\ d.reportLen \in Nat
     /\ d.reportLen >= FingerDataOffset + FingerDataLen * MaxContacts
     /\ d.features \in BOOLEAN /\ d.trackpoint \in BOOLEAN
     /\ d.widthX \in Nat /\ d.widthY \in Nat /\ d.adjustment \in Nat

ASSUME PacketsAssumption ==
  /\ Areas \subseteq [x : Nat, y : Nat]
  /\ Fingers \subseteq [x : Nat, y : Nat, pressure : Nat, area : Areas]
  /\ Presses \subseteq [buttons : SUBSET Buttons, hover : BOOLEAN]

(* An area counts traces in four bits, and the width of a trace is a share *)
(* of a coordinate of 16: their product is far from overflowing.           *)
ASSUME AreasAssumption ==
  \A d \in Devices, a \in Areas :
     a.x * AreaUnit(d.widthX) < CWord /\ a.y * AreaUnit(d.widthY) < CWord

Init ==
  /\ device \in Devices
  /\ pad = [slots |-> Released, buttons |-> {}, hover |-> FALSE]
  /\ stick = {} /\ status = 0
  /\ report = NoReport /\ slot = 0 /\ frame = EmptyFrame

---------------------------------------------------------------------------
(* The Rust core *)

IsAbsolute(r) == r.id \in {"absolute", "absolute2"}

(* Mutant: only x is looked at. *)
InRangeX(f) == f.x <= MaxX

InRange(f) == f.x <= MaxX /\ f.y <= MaxY

(* The contact a finger record and an area make.  The adjustment is not    *)
(* negative, so the pressure is clamped from above only.                   *)
ContactOf(d, f, area) ==
  LET major == area.x * AreaUnit(d.widthX)
      minor == area.y * AreaUnit(d.widthY)
  IN [x |-> f.x, y |-> MaxY - f.y,
      pressure |-> Lowest(f.pressure + d.adjustment, MaxPressure),
      tool  |-> IF d.features THEN area.x ELSE 0,
      major |-> IF d.features THEN Highest(major, minor) ELSE 0,
      minor |-> IF d.features THEN Lowest(major, minor) ELSE 0]

AreaOf(r, f, s) == IF r.id = "absolute2" THEN r.areas[s] ELSE f.area

(* The areas of a high-precision packet may lie behind its end. *)
AreaMissing(d, r, s) ==
  d.features /\ r.id = "absolute2" /\ MkDataOffset + s >= d.reportLen

(* decode_absolute, from the start of its loop *)
DecodeBegin(r) ==
  /\ IsAbsolute(r)
  /\ report' = r /\ slot' = 0 /\ frame' = EmptyFrame
  /\ UNCHANGED <<pad, stick, status>>

(* The finger record the loop has come to, and whether it, or its area,    *)
(* lies behind the end of the packet.                                      *)
NextFinger == report.fingers[frame.taken + 1]
Short ==
  \/ FingerDataOffset + FingerDataLen * (frame.taken + 1) > device.reportLen
  \/ InRange(NextFinger) /\ AreaMissing(device, report, slot)

Turn(touched) ==
  IsAbsolute(report) /\ slot < MaxContacts /\ (slot \in report.touched <=> touched)

SkipSlot ==
  /\ Turn(FALSE) /\ slot' = slot + 1
  /\ UNCHANGED <<pad, stick, status, report, frame>>

(* Mutant: a finger out of range does not move on to the next record. *)
DecodeSlotStuck ==
  LET f == NextFinger IN
  /\ Turn(TRUE) /\ ~Short
  /\ frame' = IF InRange(f)
              THEN [taken |-> frame.taken + 1,
                    slots |-> [frame.slots EXCEPT ![slot] =
                                 {ContactOf(device, f, AreaOf(report, f, slot))}]]
              ELSE frame
  /\ slot' = slot + 1
  /\ UNCHANGED <<pad, stick, status, report>>

DecodeSlot ==
  LET f == NextFinger IN
  /\ Turn(TRUE) /\ ~Short
  /\ frame' = [taken |-> frame.taken + 1,
               slots |-> IF InRange(f)
                         THEN [frame.slots EXCEPT ![slot] =
                                 {ContactOf(device, f, AreaOf(report, f, slot))}]
                         ELSE frame.slots]
  /\ slot' = slot + 1
  /\ UNCHANGED <<pad, stick, status, report>>

Done == report' = NoReport /\ slot' = 0 /\ frame' = EmptyFrame

---------------------------------------------------------------------------
(* The shim: elan_rs_emit_report, for a report elan_isr has read *)

(* Mutant: what was decoded before the error is emitted. *)
RejectPacketPartly ==
  /\ Turn(TRUE) /\ Short
  /\ status' = EINVAL /\ Done
  /\ pad' = [slots |-> frame.slots, buttons |-> report.press.buttons,
             hover |-> report.press.hover]
  /\ UNCHANGED stick

(* The decoder has returned an error: the frame is dropped. *)
RejectPacket ==
  /\ Turn(TRUE) /\ Short
  /\ status' = EINVAL /\ Done
  /\ UNCHANGED <<pad, stick>>

EmitAbsolute ==
  /\ IsAbsolute(report) /\ slot = MaxContacts
  /\ status' = 0 /\ Done
  /\ pad' = [slots |-> frame.slots, buttons |-> report.press.buttons,
             hover |-> report.press.hover]
  /\ UNCHANGED stick

EmitTrackpoint(r) ==
  /\ r.id = "trackpoint"
  /\ IF device.trackpoint THEN status' = 0 /\ stick' = r.press.buttons
                          ELSE status' = ENODEV /\ UNCHANGED stick
  /\ UNCHANGED <<pad, decoder>>

EmitUnknown(r) ==
  r.id = "unknown" /\ status' = EPROTO /\ UNCHANGED <<pad, stick, decoder>>

(* Packets: one finger record per touched slot. *)
Packets(id, areas) ==
  UNION {[id : {id}, touched : {t}, areas : areas, press : Presses,
          fingers : [1 .. Cardinality(t) -> Fingers]] : t \in SUBSET Slots}

Reports ==
  Packets("absolute", {NoReport.areas}) \cup Packets("absolute2", [Slots -> Areas])
    \cup [id : {"trackpoint", "unknown"}, touched : {{}}, fingers : {<<>>},
          areas : {NoReport.areas}, press : Presses]

Report == \E r \in Reports :
  report = NoReport /\ (DecodeBegin(r) \/ EmitTrackpoint(r) \/ EmitUnknown(r))

(* elan_release_inputs, at the start of a recovery; hover is left alone.   *)
(* The recovery has disabled the interrupt, which waits for its handler:   *)
(* no packet is being decoded (InterruptExcluded of ElanDriver).           *)
ReleaseInputs ==
  /\ report = NoReport
  /\ pad' = [pad EXCEPT !.slots = Released, !.buttons = {}]
  /\ stick' = {}
  /\ UNCHANGED <<decoder, status>>

Next ==
  /\ \/ Report \/ SkipSlot \/ DecodeSlot \/ RejectPacket \/ EmitAbsolute
     \/ ReleaseInputs
  /\ UNCHANGED device

Spec == Init /\ [][Next]_vars

---------------------------------------------------------------------------
(* The emission in C *)

(* The record of a touched slot: one for each touched slot before it. *)
Finger(r, s) == r.fingers[Cardinality({u \in r.touched : u < s}) + 1]

(* elan_report_contact returns at a contact out of range: the slot stays. *)
CSlot(d, r, s, before) ==
  LET f    == Finger(r, s)
      area == AreaOf(r, f, s)
      areaX == (area.x * (d.widthX - Reduce)) % CWord
      areaY == (area.y * (d.widthY - Reduce)) % CWord
  IN IF s \notin r.touched THEN {}
     ELSE IF f.x > MaxX \/ f.y > MaxY THEN before
     ELSE {[x |-> f.x, y |-> MaxY - f.y,
            pressure |-> Lowest(f.pressure + d.adjustment, MaxPressure),
            tool  |-> IF d.features THEN area.x ELSE 0,
            major |-> IF d.features THEN Highest(areaX, areaY) ELSE 0,
            minor |-> IF d.features THEN Lowest(areaX, areaY) ELSE 0]}

---------------------------------------------------------------------------
(* Properties *)

Contacts == [x : 0 .. MaxX, y : 0 .. MaxY, pressure : 0 .. MaxPressure,
             tool : Nat, major : Nat, minor : Nat]

(* At most one contact for each slot, within the ranges elan_setup_input   *)
(* has declared.                                                           *)
WithinRanges(slots) ==
  /\ slots \in [Slots -> SUBSET Contacts]
  /\ \A s \in Slots : \A c, e \in slots[s] : c = e /\ c.minor <= c.major

(* What reaches the input devices, and the frame on its way there, is      *)
(* within their ranges.                                                    *)
TypeOK ==
  /\ device \in Devices
  /\ WithinRanges(pad.slots) /\ WithinRanges(frame.slots)
  /\ pad = [slots |-> pad.slots, buttons |-> pad.buttons, hover |-> pad.hover]
  /\ frame = [taken |-> frame.taken, slots |-> frame.slots]
  /\ pad.buttons \subseteq Buttons /\ pad.hover \in BOOLEAN
  /\ stick \subseteq Buttons
  /\ report = NoReport \/ (report \in Reports /\ IsAbsolute(report))
  /\ slot \in 0 .. MaxContacts /\ frame.taken \in 0 .. slot
  /\ status \in {0, EINVAL, ENODEV, EPROTO}

Narrow(d) == d.widthX < Reduce \/ d.widthY < Reduce

Finished == IsAbsolute(report) /\ ~IsAbsolute(report')

(* For every packet it accepts, the Rust core and its shim leave the       *)
(* touchpad as the emission in C would have, whatever it held before, but  *)
(* for two cases: a slot whose finger is out of range is released, where C *)
(* leaves it held; and on traces narrower than FINGER_WIDTH_REDUCE the     *)
(* area is 0, where C wraps.                                               *)
EmitsLikeC ==
  [][Finished /\ status' = 0 =>
       /\ \A s \in Slots :
            IF s \in report.touched /\ ~InRange(Finger(report, s))
            THEN pad'.slots[s] = {}
            ELSE ~Narrow(device) =>
                   pad'.slots[s] = CSlot(device, report, s, pad.slots[s])
       /\ pad'.buttons = report.press.buttons
       /\ pad'.hover = report.press.hover]_vars

(* A packet is emitted whole or not at all: one that runs out of bytes at  *)
(* a later finger leaves the fingers before it as they were, and is        *)
(* rejected only for an area behind the end of the packet.                 *)
WholePackets ==
  [][/\ IsAbsolute(report) /\ ~(Finished /\ status' = 0) => UNCHANGED <<pad, stick>>
     /\ Finished =>
          (status' # 0 <=> \E s \in report.touched :
             /\ InRange(Finger(report, s))
             /\ AreaMissing(device, report, s))]_vars

=============================================================================
