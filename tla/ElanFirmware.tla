----------------------------- MODULE ElanFirmware -----------------------------
(***************************************************************************)
(* The firmware update of the elan_i2c driver, from the update_fw store to *)
(* its result: the checks of the file, the protocol of each transport that *)
(* unlocks the flash of the controller, the pages with their retries, the  *)
(* comparison of checksums and what is done in either outcome.             *)
(*                                                                         *)
(* A step is one command with its answer.  Any transfer may fail, and the  *)
(* controller may refuse what it is asked; `faulted' remembers it.  How    *)
(* the store excludes other users of the controller, the interrupt line    *)
(* and the wait at the end of the update are in ElanDriver.                *)
(*                                                                         *)
(* No page carries its number: the controller is taken to count them from  *)
(* the first one it is sent, as the driver does.                           *)
(***************************************************************************)
EXTENDS Integers

CONSTANTS
  Devices,    \* the controllers: see DeviceType
  WriteTries  \* ETP_RETRY_COUNT

(* base is the size of the program in units of 64 bytes, as the table of   *)
(* elan_get_fwinfo has it for the controller's type, 0 for an unknown one; *)
(* app is where its loader ends and the application begins.                *)
DeviceType == [bus : {"i2c", "smbus"}, ic : {"old", "0D", "14_15"}, iap : Nat,
               base : Nat, app : Nat]

(* elan_get_fwinfo: newer controllers take larger pages. *)
PageSize(d) == IF d.ic = "14_15" /\ d.iap >= 2 THEN 8
               ELSE IF d.ic # "old" /\ d.iap >= 1 THEN 2 ELSE 1

(* Mutant: the page count is not divided for the largest pages. *)
ValidPagesUndivided(d) ==
  IF PageSize(d) = 8 THEN d.base ELSE d.base \div PageSize(d)

ValidPages(d) == d.base \div PageSize(d)

(* The first page that holds some of the application. *)
AppPage(d) == d.app \div PageSize(d)

(* The signature ends the file the size check asks for. *)
FileUnits(d) == d.base

ASSUME DevicesAssumption ==
  /\ Devices \subseteq DeviceType
  /\ \A d \in Devices : /\ d.base % PageSize(d) = 0
                        /\ d.base = 0 \/ d.app < d.base
ASSUME TriesAssumption == WriteTries \in Nat \ {0}

VARIABLES
  device,    \* the controller this driver is bound to
  at,        \* label of the store
  fileUnits, \* size of the firmware file, in units of 64 bytes
  start,     \* its IAP start address, in the same units
  page,      \* next page to write
  tries,     \* attempts left for it
  result,    \* what the last store returned
  restarted, \* it has ended with a controller that was initialized
  faulted,   \* in this call a transfer failed or the controller refused
  loader,    \* the controller runs its boot loader: IAP_MODE
  key,       \* the loader has accepted the flash key
  sized,     \* the loader has been told the page size (IAP_TYPE)
  flash      \* per page: "new" (the last store's file), "old" or "bad"

chip == <<loader, key, sized>>
file == <<fileUnits, start>>
outcome == <<result, restarted>>
vars == <<device, at, file, page, tries, outcome, faulted, chip, flash>>

Prepare == {"get_mode", "reset", "key", "password", "check", "size",
            "unlock", "read_key"}
Labels  == Prepare \cup {"idle", "write", "settle", "finish", "checksum",
                         "reinit", "abort"}

I2c      == device.bus = "i2c"
Larger   == PageSize(device) > 1
Pages    == 0 .. ValidPages(device) - 1
AppPages == {p \in Pages : p >= AppPage(device)}

---------------------------------------------------------------------------

Init ==
  /\ device \in Devices
  /\ at = "idle" /\ result = "none" /\ restarted = FALSE /\ faulted = FALSE
  /\ fileUnits = 0 /\ start = 0 /\ page = 0 /\ tries = WriteTries
  /\ loader = FALSE /\ key = FALSE /\ sized = FALSE
  /\ flash = [p \in Pages |-> "old"]

Goto(from, to) == at = from /\ at' = to /\ UNCHANGED <<device, file, outcome>>

(* A step that leaves the loop over the pages alone. *)
Command(from, to) == Goto(from, to) /\ UNCHANGED <<page, tries, flash>>

Fine     == UNCHANGED faulted
Blame(b) == faulted' = IF b THEN TRUE ELSE faulted

---------------------------------------------------------------------------
(* elan_sysfs_update_fw *)

Accepted(units, signed) ==
  ValidPages(device) # 0 /\ units >= FileUnits(device) /\ signed

(* An unknown controller, a short or unsigned file, a signal while waiting *)
(* for sysfs_mutex: nothing has been sent to the controller.               *)
Reject ==
  /\ at = "idle"
  /\ result' = "rejected"
  /\ UNCHANGED <<device, at, file, page, tries, restarted, faulted, chip, flash>>

(* The file is the last one, or another: then no page is new.  Nothing     *)
(* checks its start address; one behind the flash leaves nothing to write. *)
SameFile == UNCHANGED <<file, flash>>

OtherFile ==
  /\ fileUnits' \in 0 .. FileUnits(device) + 1
  /\ start' \in 0 .. FileUnits(device)
  /\ flash' = [p \in Pages |-> IF flash[p] = "new" THEN "old" ELSE flash[p]]

(* Mutant: a start within a page begins with the next one. *)
FirstPageUp == (start + PageSize(device) - 1) \div PageSize(device)

(* boot_page_count: the page the start address lies in. *)
FirstPage == start \div PageSize(device)

Begin ==
  /\ at = "idle" /\ at' = "get_mode"
  /\ UNCHANGED <<device, chip>>
  /\ SameFile \/ OtherFile
  /\ \E signed \in BOOLEAN : Accepted(fileUnits', signed)
  /\ page' = FirstPage' /\ tries' = WriteTries
  /\ result' = "none" /\ restarted' = FALSE /\ faulted' = FALSE

(* Where the preparation leads. *)
Loop == IF page < ValidPages(device) THEN "write" ELSE "settle"

---------------------------------------------------------------------------
(* prepare_fw_update *)

(* A controller in its loader is reset first on I2C, and needs no password *)
(* on SMBus.  There a short answer reads as zeroes, which is MAIN_MODE.    *)
GetMode ==
  /\ \/ I2c /\ Command("get_mode", IF loader THEN "reset" ELSE "key")
     \/ ~I2c /\ loader /\ Command("get_mode", "unlock")
     \/ ~I2c /\ Command("get_mode", "key")
  /\ Fine /\ UNCHANGED chip

(* iap_reset; the loader stays or starts the touchpad, locked again.  On   *)
(* SMBus it comes last, and readies an unlocked loader for the pages.      *)
IapReset ==
  /\ loader' \in BOOLEAN /\ sized' = FALSE
  /\ key' \in IF I2c THEN {FALSE} ELSE {FALSE, key}

ResetLoader ==
  /\ Command("reset", IF I2c THEN "key" ELSE Loop)
  /\ IapReset
  /\ Blame(~I2c /\ ~(loader' /\ key'))

(* The first flash key: on I2C it makes the touchpad start its loader. *)
SetKey ==
  /\ Command("key", IF I2c THEN "check" ELSE "password")
  /\ IF I2c THEN loader' \in {TRUE, loader} /\ Blame(~loader')
            ELSE UNCHANGED loader /\ Fine
  /\ UNCHANGED <<key, sized>>

(* SMBus: the password does so, and is read back. *)
WritePassword ==
  /\ Command("password", "read_key")
  /\ loader' \in {TRUE, loader} /\ Blame(~loader')
  /\ UNCHANGED <<key, sized>>

(* Mutant: the mode is not looked at again. *)
CheckModeMissing ==
  /\ Command("check", IF Larger THEN "size" ELSE "unlock")
  /\ Fine /\ UNCHANGED chip

CheckMode ==
  /\ loader /\ Command("check", IF Larger THEN "size" ELSE "unlock")
  /\ Fine /\ UNCHANGED chip

(* elan_read_write_iap_type: read back until the loader has taken it. *)
SetPageSize ==
  /\ Command("size", "unlock")
  /\ sized' = TRUE
  /\ Fine /\ UNCHANGED <<loader, key>>

Unlock ==
  /\ Command("unlock", IF I2c THEN "read_key" ELSE "reset")
  /\ key' \in BOOLEAN /\ Blame(~key')
  /\ UNCHANGED <<loader, sized>>

(* On I2C the flash key is read back, on SMBus the password. *)
ReadKey ==
  /\ \/ I2c /\ key /\ Command("read_key", Loop)
     \/ ~I2c /\ loader /\ Command("read_key", "unlock")
  /\ Fine /\ UNCHANGED chip

(* What is read back is not what is wanted. *)
Refused ==
  /\ \/ ~loader /\ Command("check", "abort")
     \/ I2c /\ ~key /\ Command("read_key", "abort")
     \/ ~I2c /\ ~loader /\ Command("read_key", "abort")
  /\ Fine /\ UNCHANGED chip

PrepareUpdate == \/ GetMode \/ ResetLoader \/ SetKey \/ WritePassword
                 \/ CheckMode \/ SetPageSize \/ Unlock \/ ReadKey \/ Refused

---------------------------------------------------------------------------
(* elan_write_fw_block over the pages *)

(* The controller programs what it is sent: in its loader, unlocked, and   *)
(* told of larger pages, which SMBus does not do (nor carry: its two       *)
(* transfers of half a page hold 32 bytes each).                           *)
Writable == loader /\ key /\ (Larger => sized)

Programmed == IF Writable THEN {"new", "bad"} ELSE {flash[page]}

NextPage ==
  /\ IF page + 1 < ValidPages(device)
     THEN at' = "write" /\ page' = page + 1
     ELSE at' = "settle" /\ UNCHANGED page
  /\ tries' = WriteTries

(* No error: on I2C the loader has verified the page against the checksum  *)
(* sent with it.  On SMBus none is sent, and a short answer reads as       *)
(* zeroes, which is no error.                                              *)
WritePage ==
  /\ at = "write"
  /\ \E c \in Programmed :
        /\ I2c => c = "new"
        /\ flash' = [flash EXCEPT ![page] = c]
        /\ Blame(Writable /\ c # "new")
  /\ NextPage
  /\ UNCHANGED <<device, file, outcome, chip>>

(* Mutant: a page that failed for the last time is skipped. *)
WritePageSkips ==
  /\ at = "write"
  /\ \E c \in Programmed \cup {flash[page]} :
        flash' = [flash EXCEPT ![page] = c]
  /\ IF tries > 1 THEN UNCHANGED <<at, page>> /\ tries' = tries - 1
                  ELSE NextPage
  /\ faulted' = TRUE
  /\ UNCHANGED <<device, file, outcome, chip>>

(* A transfer fails or the loader reports an error, whatever has become of *)
(* the page.                                                               *)
PageFails(again, left) ==
  /\ at = "write"
  /\ \E c \in Programmed \cup {flash[page]} :
        flash' = [flash EXCEPT ![page] = c]
  /\ IF again THEN UNCHANGED at ELSE at' = "abort"
  /\ tries' = left
  /\ faulted' = TRUE
  /\ UNCHANGED <<device, file, page, outcome, chip>>

WritePageFailsOnce    == PageFails(tries >= 0, tries - 1)  \* Mutant: once more
WritePageFailsForever == PageFails(TRUE, tries)  \* Mutant: no count of attempts
WritePageFails        == PageFails(tries > 1, tries - 1)

---------------------------------------------------------------------------
(* The end of __elan_update_firmware and elan_update_firmware *)

(* The controller resets itself after the last page. *)
Settle ==
  /\ Command("settle", IF I2c THEN "finish" ELSE "checksum")
  /\ loader' \in BOOLEAN /\ key' = FALSE /\ sized' = FALSE
  /\ Fine

(* The reset may not have happened yet when an older interrupt has ended   *)
(* the wait for it.                                                        *)
FinishUpdate ==
  /\ Command("finish", "checksum")
  /\ loader' \in {loader, FALSE}
  /\ Fine /\ UNCHANGED <<key, sized>>

Whole == \A p \in AppPages : flash[p] = "new"

(* Mutant: the checksums are not compared. *)
CompareChecksumMissing ==
  /\ Command("checksum", "reinit")
  /\ Fine /\ UNCHANGED chip

(* The controller sums up its application, the driver what it has sent.    *)
(* Sums of different contents are taken to differ, but if the loader was   *)
(* written, too, nobody knows what the controller has summed up.           *)
CompareChecksum ==
  /\ \/ Whole /\ Command("checksum", "reinit")
     \/ /\ ~Whole \/ FirstPage < AppPage(device)
        /\ Command("checksum", "abort")
  /\ Fine /\ UNCHANGED chip

TransferFails ==
  /\ \E l \in Prepare \cup {"finish", "checksum"} : Command(l, "abort")
  /\ faulted' = TRUE
  /\ UNCHANGED chip

Return(from, r) ==
  /\ at = from /\ at' = "idle" /\ result' = r
  /\ UNCHANGED <<device, file, page, tries, faulted, flash>>

(* Mutant: the controller is initialized without a reset. *)
ReinitializeNoReset ==
  /\ Return("reinit", "ok")
  /\ restarted' \in BOOLEAN
  /\ UNCHANGED chip

(* elan_initialize and elan_query_device_info; neither outcome is seen.    *)
(* The first resets the controller, and one that has then answered it has  *)
(* left its loader.                                                        *)
Reinitialize ==
  /\ Return("reinit", "ok")
  /\ restarted' \in BOOLEAN
  /\ loader' \in IF restarted' THEN {FALSE} ELSE {loader, FALSE}
  /\ UNCHANGED <<key, sized>>

(* The reset may fail, which is not seen either. *)
Abort ==
  /\ Return("abort", "failed") /\ UNCHANGED restarted
  /\ IapReset \/ UNCHANGED chip

Step == \/ PrepareUpdate \/ WritePage \/ WritePageFails \/ Settle
        \/ FinishUpdate \/ CompareChecksum \/ TransferFails
        \/ Reinitialize \/ Abort

Next == Reject \/ Begin \/ Step

Spec == Init /\ [][Next]_vars

---------------------------------------------------------------------------
(* Safety *)

TypeOK ==
  /\ device \in Devices /\ at \in Labels
  /\ fileUnits \in Nat /\ start \in Nat /\ page \in Nat /\ tries \in 0 .. WriteTries
  /\ result \in {"none", "ok", "failed", "rejected"}
  /\ restarted \in BOOLEAN /\ faulted \in BOOLEAN
  /\ loader \in BOOLEAN /\ key \in BOOLEAN /\ sized \in BOOLEAN
  /\ flash \in [Pages -> {"old", "new", "bad"}]

(* No page is read from behind the end of the file, whose size was checked *)
(* against the signature's address, and none is written past the flash,    *)
(* whatever start address the file names.                                  *)
ReadsInFile ==
  at = "write" => /\ page \in Pages
                  /\ (page + 1) * PageSize(device) <= fileUnits

(* On I2C a page is only sent to a loader that has accepted the key and    *)
(* the page size, whatever mode an earlier failed update has left it in.   *)
WritesUnlocked == at = "write" /\ I2c => Writable

(* On I2C the loop leaves no bad page behind it: each was accepted before  *)
(* the next is sent, and the end is reached only with all of them.         *)
PagesInOrder ==
  I2c => \A p \in {q \in Pages : q >= FirstPage} :
           (at = "write" /\ p < page) \/ at \in {"settle", "finish", "checksum"}
           => flash[p] = "new"

(* An update fails only if a transfer failed or the controller refused, if *)
(* its pages do not fit the transport or if the file names another start   *)
(* than the controller has: an update that failed can be repeated with     *)
(* success, from whatever mode and content it left behind.                 *)
FailsForCause ==
  result = "failed" /\ (I2c \/ ~Larger) /\ start = device.app => faulted

(* Success means a controller that can be used: its application is whole,  *)
(* although the file's start address is unchecked (one behind the page the *)
(* application begins in is found out by the checksums), and it has left   *)
(* its loader, although the wait for that can end early on I2C and is      *)
(* missing on SMBus, unless it could not be initialized.                   *)
SuccessIsUsable ==
  result = "ok" => /\ Whole /\ FirstPage <= AppPage(device)
                   /\ restarted => ~loader

Content == IF \A p \in AppPages : flash[p] = "old" THEN "old"
           ELSE IF Whole THEN "new" ELSE "mixed"

(* The update keeps what the store promises to its caller. *)
Contract == INSTANCE FirmwareContract WITH
  call <- IF at = "idle" THEN "ready" ELSE "busy", content <- Content

KeepsContract == Contract!Spec

---------------------------------------------------------------------------
(* A store that has begun runs on: every wait in it has an end. *)
LiveSpec == Spec /\ WF_vars(Step)

(* The store returns, however often transfers fail. *)
UpdateReturns == at # "idle" ~> at = "idle"

=============================================================================
