-------------------------- MODULE ElanFirmware_proofs --------------------------
(***************************************************************************)
(* The firmware update keeps its contract for every controller, file and   *)
(* number of attempts.  The invariant says what each label knows: of the   *)
(* loader while it is unlocked, of the pages while they are written, and   *)
(* of both as long as no transfer has failed.                              *)
(***************************************************************************)
EXTENDS ElanFirmware, TLAPS

(* The pages fit the transport. *)
Fits == I2c \/ ~Larger

Writing == {"write", "settle", "finish", "checksum"}

(* What the loop goes through, and what it leaves out. *)
SentPages == {p \in Pages : p >= FirstPage}

(* A store that has begun has an image to write, and the file holds it. *)
Begun ==
  /\ at # "idle" => /\ ValidPages(device) # 0
                    /\ fileUnits >= FileUnits(device)
                    /\ result = "none"
  /\ at \in Prepare => page = FirstPage
  /\ at = "write" => page \in SentPages
  /\ at \in Prepare \cup {"write"} => tries # 0

(* Which steps only one transport has, and what the I2C protocol has       *)
(* verified of the loader.                                                 *)
Unlocking ==
  /\ at \in {"check", "size", "finish"} => I2c
  /\ at = "password" => ~I2c
  /\ I2c => /\ at \in {"size", "unlock", "read_key"} => loader
            /\ at \in {"unlock", "read_key"} => (Larger => sized)
            /\ at = "write" => Writable

Written(p) == at = "write" => p < page

(* Where nothing has failed the loader and the pages are as they should be. *)
UnfaultedLoader ==
  Fits /\ ~faulted =>
    /\ start = device.app => at # "abort"
    /\ I2c /\ at = "check" => loader
    /\ I2c /\ at = "read_key" => key
    /\ ~I2c /\ at = "read_key" => loader
    /\ at = "write" => Writable

UnfaultedPages ==
  Fits /\ ~faulted /\ at \in Writing =>
    \A p \in SentPages : Written(p) => flash[p] = "new"

(* Nothing before the file's first page holds what is in the file. *)
SkippedNotNew == \A p \in Pages : p < FirstPage => flash[p] # "new"

FirmwareInv ==
  /\ TypeOK /\ Begun /\ Unlocking /\ UnfaultedLoader /\ UnfaultedPages
  /\ PagesInOrder /\ SkippedNotNew /\ FailsForCause /\ SuccessIsUsable
  /\ at = "reinit" => Whole

---------------------------------------------------------------------------
(* elan_get_fwinfo: the pages lie in a file that passed the size check,    *)
(* and the application has one of them.                                    *)
LEMMA Layout ==
  ASSUME NEW d \in Devices
  PROVE  /\ ValidPages(d) \in Nat /\ AppPage(d) \in Nat /\ d.app \in Nat
         /\ PageSize(d) \in Nat
         /\ ValidPages(d) # 0 => AppPage(d) < ValidPages(d)
         /\ \A p \in Nat : p < ValidPages(d) => (p + 1) * PageSize(d) <= d.base
         /\ \A u \in Nat : u \div PageSize(d) \in Nat
<1>1. /\ d.base \in Nat /\ d.app \in Nat
      /\ d.base % PageSize(d) = 0 /\ (d.base = 0 \/ d.app < d.base)
  BY DevicesAssumption DEF DeviceType
<1>2. CASE PageSize(d) = 1
  BY <1>1, <1>2 DEF ValidPages, AppPage
<1>3. CASE PageSize(d) = 2
  BY <1>1, <1>3 DEF ValidPages, AppPage
<1>4. CASE PageSize(d) = 8
  BY <1>1, <1>4 DEF ValidPages, AppPage
<1> QED BY <1>2, <1>3, <1>4 DEF PageSize

(* Where the loop starts is a page number. *)
LEMMA FirstPageType ==
  ASSUME TypeOK
  PROVE  /\ FirstPage \in Nat /\ AppPage(device) \in Nat /\ ValidPages(device) \in Nat
         /\ SentPages = {p \in Nat : p >= FirstPage /\ p < ValidPages(device)}
         /\ start = device.app => FirstPage = AppPage(device) /\ SentPages = AppPages
<1>1. /\ FirstPage \in Nat /\ AppPage(device) \in Nat /\ ValidPages(device) \in Nat
      /\ start = device.app => FirstPage = AppPage(device)
  BY Layout DEF TypeOK, FirstPage, AppPage
<1> QED BY <1>1 DEF SentPages, AppPages, Pages

(* The controller does not change, and with it nothing derived from it.    *)
(* The file only changes when a store begins.                              *)
LEMMA SameDevice ==
  ASSUME [Next]_vars
  PROVE  /\ device' = device
         /\ I2c' = I2c /\ Larger' = Larger /\ Fits' = Fits
         /\ Pages' = Pages /\ AppPages' = AppPages
         /\ ValidPages(device)' = ValidPages(device)
         /\ AppPage(device)' = AppPage(device)
         /\ FileUnits(device)' = FileUnits(device)
         /\ ~Begin => UNCHANGED file
         /\ UNCHANGED file => UNCHANGED <<fileUnits, start, FirstPage, SentPages>>
<1>1. device' = device
  BY DEF Next, Reject, Begin, Step, PrepareUpdate, GetMode, ResetLoader, SetKey,
     WritePassword, CheckMode, SetPageSize, Unlock, ReadKey, Refused, WritePage,
     WritePageFails, PageFails, Settle, FinishUpdate, CompareChecksum,
     TransferFails, Reinitialize, Abort, Command, Goto, Return, vars
<1>2. ~Begin => UNCHANGED file
  BY DEF Next, Reject, Step, PrepareUpdate, GetMode, ResetLoader, SetKey,
     WritePassword, CheckMode, SetPageSize, Unlock, ReadKey, Refused, WritePage,
     WritePageFails, PageFails, Settle, FinishUpdate, CompareChecksum,
     TransferFails, Reinitialize, Abort, Command, Goto, Return, vars
<1>3. UNCHANGED file => start' = start /\ fileUnits' = fileUnits
  BY DEF file
<1>4. UNCHANGED file => FirstPage' = FirstPage
  BY <1>1, <1>3 DEF FirstPage, PageSize
<1>5. UNCHANGED file => SentPages' = SentPages
  BY <1>1, <1>4 DEF SentPages, Pages, ValidPages, PageSize
<1> QED
  BY <1>1, <1>2, <1>3, <1>4, <1>5 DEF I2c, Larger, Fits, Pages, AppPages,
     ValidPages, AppPage, FileUnits, PageSize

(* A command outside the loop leaves file, pages and attempts alone. *)
LEMMA CommandKeeps ==
  ASSUME FirmwareInv, [Next]_vars, at \notin {"idle", "write"},
         at' \in Labels \ {"idle"},
         UNCHANGED <<device, file, outcome, page, tries, flash>>,
         faulted' \in BOOLEAN, faulted' = FALSE => faulted = FALSE,
         loader' \in BOOLEAN, key' \in BOOLEAN, sized' \in BOOLEAN,
         at' \in Prepare \cup {"write"} => at \in Prepare,
         at' = "write" => page < ValidPages(device),
         at' \in Writing \ {"write"}
           => at \in Writing \/ (at \in Prepare /\ page >= ValidPages(device)),
         at' = "reinit" => Whole,
         Unlocking', UnfaultedLoader'
  PROVE  FirmwareInv'
<1>0. /\ TypeOK /\ Begun /\ UnfaultedPages /\ PagesInOrder
      /\ SkippedNotNew /\ SuccessIsUsable /\ FailsForCause
      /\ result' = result /\ restarted' = restarted
      /\ UNCHANGED <<fileUnits, start, FirstPage, SentPages>>
  BY SameDevice DEF FirmwareInv, outcome
<1> USE SameDevice
<1>1. TypeOK'
  BY <1>0 DEF TypeOK
<1>2. Begun'
  BY <1>0, FirstPageType DEF TypeOK, Begun
<1>3. SkippedNotNew'
  BY <1>0 DEF SkippedNotNew
<1>4. FailsForCause' /\ SuccessIsUsable' /\ (at' = "reinit" => Whole')
  BY <1>0 DEF Begun, FailsForCause, SuccessIsUsable, Whole
<1>5. at \in Prepare => \A p \in SentPages : ~(p < page)
  BY <1>0, FirstPageType DEF Begun
<1>6. at \in Prepare /\ page >= ValidPages(device) => SentPages = {}
  BY <1>0, FirstPageType DEF Begun
<1>7. PagesInOrder'
  BY <1>0, <1>5, <1>6 DEF PagesInOrder, SentPages, Writing
<1>8. UnfaultedPages'
  BY <1>0, <1>5, <1>6 DEF UnfaultedPages, Written, Writing
<1> QED BY <1>1, <1>2, <1>3, <1>4, <1>7, <1>8 DEF FirmwareInv

(* Every step but those of the loop over the pages is such a command, or   *)
(* begins or ends the store.                                               *)
LEMMA CommandStep ==
  ASSUME FirmwareInv, [Next]_vars,
         PrepareUpdate \/ Settle \/ FinishUpdate \/ CompareChecksum
         \/ TransferFails
  PROVE  FirmwareInv'
<1> USE SameDevice DEF Command, Goto, Labels, Prepare, Writing
<1>0. /\ TypeOK /\ Unlocking /\ UnfaultedLoader
      /\ page \in Nat /\ ValidPages(device) \in Nat
      /\ \/ Loop = "write" /\ page < ValidPages(device)
         \/ Loop = "settle" /\ page >= ValidPages(device)
  BY FirstPageType DEF FirmwareInv, TypeOK, Loop
<1>1. CASE GetMode
  <2>1. Unlocking'
    BY <1>0, <1>1 DEF GetMode, Fine, chip, TypeOK, Unlocking, Writable
  <2>2. UnfaultedLoader'
    BY <1>0, <1>1 DEF GetMode, Fine, chip, TypeOK, Unlocking, UnfaultedLoader, Fits, Writable
  <2> QED BY <1>0, <1>1, <2>1, <2>2, CommandKeeps DEF GetMode, Fine, chip, TypeOK
<1>2. CASE ResetLoader
  <2>1. Unlocking'
    BY <1>0, <1>2 DEF ResetLoader, IapReset, Blame, TypeOK, Unlocking, Writable
  <2>2. UnfaultedLoader'
    BY <1>0, <1>2 DEF ResetLoader, IapReset, Blame, TypeOK, Unlocking, UnfaultedLoader, Fits, Writable
  <2> QED BY <1>0, <1>2, <2>1, <2>2, CommandKeeps DEF ResetLoader, IapReset, Blame, TypeOK
<1>3. CASE SetKey
  <2>1. Unlocking'
    BY <1>0, <1>3 DEF SetKey, Blame, Fine, TypeOK, Unlocking, Writable
  <2>2. UnfaultedLoader'
    BY <1>0, <1>3 DEF SetKey, Blame, Fine, TypeOK, Unlocking, UnfaultedLoader, Fits, Writable
  <2> QED BY <1>0, <1>3, <2>1, <2>2, CommandKeeps DEF SetKey, Blame, Fine, TypeOK
<1>4. CASE WritePassword
  <2>1. Unlocking'
    BY <1>0, <1>4 DEF WritePassword, Blame, TypeOK, Unlocking, Writable
  <2>2. UnfaultedLoader'
    BY <1>0, <1>4 DEF WritePassword, Blame, TypeOK, Unlocking, UnfaultedLoader, Fits, Writable
  <2> QED BY <1>0, <1>4, <2>1, <2>2, CommandKeeps DEF WritePassword, Blame, TypeOK
<1>5. CASE CheckMode
  <2>1. Unlocking'
    <3>1. /\ loader' = loader /\ sized' = sized /\ key' = key /\ I2c /\ loader
          /\ at' = IF Larger THEN "size" ELSE "unlock"
      BY <1>0, <1>5 DEF CheckMode, chip, Unlocking
    <3>2. CASE Larger
      BY <3>1, <3>2 DEF Unlocking
    <3>3. CASE ~Larger
      <4>1. at' = "unlock"
        BY <3>1, <3>3
      <4>2. ~Larger'
        BY <3>3
      <4>3. I2c'
        BY <3>1
      <4>4. loader'
        BY <3>1
      <4> QED BY <4>1, <4>2, <4>3, <4>4 DEF Unlocking
    <3> QED BY <3>2, <3>3
  <2>2. UnfaultedLoader'
    BY <1>0, <1>5 DEF CheckMode, Fine, chip, TypeOK, Unlocking, UnfaultedLoader, Fits, Writable
  <2> QED BY <1>0, <1>5, <2>1, <2>2, CommandKeeps DEF CheckMode, Fine, chip, TypeOK
<1>6. CASE SetPageSize
  <2>1. Unlocking'
    BY <1>0, <1>6 DEF SetPageSize, Fine, TypeOK, Unlocking, Writable
  <2>2. UnfaultedLoader'
    BY <1>0, <1>6 DEF SetPageSize, Fine, TypeOK, Unlocking, UnfaultedLoader, Fits, Writable
  <2> QED BY <1>0, <1>6, <2>1, <2>2, CommandKeeps DEF SetPageSize, Fine, TypeOK
<1>7. CASE Unlock
  <2>1. Unlocking'
    BY <1>0, <1>7 DEF Unlock, Blame, TypeOK, Unlocking, Writable
  <2>2. UnfaultedLoader'
    BY <1>0, <1>7 DEF Unlock, Blame, TypeOK, Unlocking, UnfaultedLoader, Fits, Writable
  <2> QED BY <1>0, <1>7, <2>1, <2>2, CommandKeeps DEF Unlock, Blame, TypeOK
<1>8. CASE ReadKey
  <2>1. Unlocking'
    BY <1>0, <1>8 DEF ReadKey, Fine, chip, TypeOK, Unlocking, Writable
  <2>2. UnfaultedLoader'
    BY <1>0, <1>8 DEF ReadKey, Fine, chip, TypeOK, Unlocking, UnfaultedLoader, Fits, Writable
  <2> QED BY <1>0, <1>8, <2>1, <2>2, CommandKeeps DEF ReadKey, Fine, chip, TypeOK
<1>9. CASE Refused
  <2>1. Unlocking'
    BY <1>0, <1>9 DEF Refused, Fine, chip, TypeOK, Unlocking, Writable
  <2>2. UnfaultedLoader'
    BY <1>0, <1>9 DEF Refused, Fine, chip, TypeOK, Unlocking, UnfaultedLoader, Fits, Writable
  <2> QED BY <1>0, <1>9, <2>1, <2>2, CommandKeeps DEF Refused, Fine, chip, TypeOK
<1>10. CASE Settle
  <2>1. Unlocking'
    BY <1>0, <1>10 DEF Settle, Fine, TypeOK, Unlocking, Writable
  <2>2. UnfaultedLoader'
    BY <1>0, <1>10 DEF Settle, Fine, TypeOK, Unlocking, UnfaultedLoader, Fits, Writable
  <2> QED BY <1>0, <1>10, <2>1, <2>2, CommandKeeps DEF Settle, Fine, TypeOK
<1>11. CASE FinishUpdate
  <2>1. Unlocking'
    BY <1>0, <1>11 DEF FinishUpdate, Fine, TypeOK, Unlocking, Writable
  <2>2. UnfaultedLoader'
    BY <1>0, <1>11 DEF FinishUpdate, Fine, TypeOK, Unlocking, UnfaultedLoader, Fits, Writable
  <2> QED BY <1>0, <1>11, <2>1, <2>2, CommandKeeps DEF FinishUpdate, Fine, TypeOK
<1>12. CASE CompareChecksum
  <2>1. Unlocking'
    BY <1>0, <1>12 DEF CompareChecksum, Fine, chip, TypeOK, Unlocking, Writable
  <2>2. UnfaultedLoader'
    <3>1. Fits /\ ~faulted /\ start = device.app
            => Whole /\ ~(FirstPage < AppPage(device))
      BY <1>0, <1>12, FirstPageType DEF FirmwareInv, UnfaultedPages,
         CompareChecksum, Whole, Written
    <3> QED BY <1>0, <1>12, <3>1 DEF CompareChecksum, Fine, chip, UnfaultedLoader
  <2> QED BY <1>0, <1>12, <2>1, <2>2, CommandKeeps DEF CompareChecksum, Fine, chip, TypeOK
<1>13. CASE TransferFails
  <2>1. Unlocking'
    BY <1>0, <1>13 DEF TransferFails, chip, TypeOK, Unlocking, Writable
  <2>2. UnfaultedLoader'
    BY <1>0, <1>13 DEF TransferFails, chip, TypeOK, Unlocking, UnfaultedLoader, Fits, Writable
  <2> QED BY <1>0, <1>13, <2>1, <2>2, CommandKeeps DEF TransferFails, chip, TypeOK
<1> QED
  BY <1>1, <1>2, <1>3, <1>4, <1>5, <1>6, <1>7, <1>8, <1>9, <1>10, <1>11, <1>12, <1>13 DEF PrepareUpdate

---------------------------------------------------------------------------
(* The beginning, the pages and the end of the store. *)
LEMMA LoopStep ==
  ASSUME FirmwareInv, [Next]_vars, WritePage \/ WritePageFails
  PROVE  FirmwareInv'
<1> USE SameDevice
<1>0. /\ TypeOK /\ Begun /\ Unlocking /\ UnfaultedLoader /\ UnfaultedPages
      /\ PagesInOrder /\ SkippedNotNew /\ FailsForCause /\ SuccessIsUsable
      /\ at = "write"
      /\ UNCHANGED <<device, file, fileUnits, start, result, restarted, loader, key, sized,
                    FirstPage, SentPages>>
  BY DEF FirmwareInv, WritePage, WritePageFails, PageFails, chip, outcome
<1>1. /\ page \in SentPages /\ page \in Nat /\ page < ValidPages(device)
      /\ page \in Pages
      /\ ValidPages(device) \in Nat /\ FirstPage \in Nat
      /\ \A p \in SentPages : p \in Nat /\ p < ValidPages(device)
                              /\ p \in Pages /\ p >= FirstPage
      /\ \A p \in Nat : p < ValidPages(device) /\ p >= FirstPage
                        => p \in SentPages
  BY <1>0, FirstPageType DEF Begun, SentPages, Pages
<1>2. PICK c \in {"old", "new", "bad"} :
        /\ flash' = [flash EXCEPT ![page] = c]
        /\ WritePage => /\ I2c => c = "new"
                        /\ Blame(Writable /\ c # "new")
                        /\ c \in Programmed
  BY <1>0, <1>1 DEF WritePage, WritePageFails, PageFails, Programmed, TypeOK
<1>3. /\ flash' \in [Pages -> {"old", "new", "bad"}]
      /\ flash'[page] = c
      /\ \A p \in Pages \ {page} : flash'[p] = flash[p]
  BY <1>0, <1>1, <1>2 DEF TypeOK
<1>4. SkippedNotNew' /\ SuccessIsUsable'
  <2>1. SkippedNotNew'
    <3>1. \A p \in Pages : p < FirstPage => p # page
      BY <1>1 DEF SentPages
    <3>2. Pages' = Pages /\ FirstPage' = FirstPage
      BY <1>0
    <3> QED BY <1>0, <1>3, <3>1, <3>2 DEF SkippedNotNew
  <2>2. SuccessIsUsable'
    BY <1>0 DEF Begun, SuccessIsUsable
  <2> QED BY <2>1, <2>2
<1>5. CASE WritePage
  <2>1. /\ at' \in {"write", "settle"} /\ page' \in Nat
        /\ at' = "write" => page' = page + 1 /\ page' < ValidPages(device)
        /\ at' = "settle" => page + 1 >= ValidPages(device)
        /\ tries' = WriteTries
    BY <1>0, <1>1, <1>5 DEF WritePage, NextPage
  <2>9. faulted' \in BOOLEAN /\ (faulted' = FALSE => faulted = FALSE)
    <3>1. faulted' = TRUE \/ faulted' = faulted
      BY <1>2, <1>5 DEF Blame
    <3> QED BY <1>0, <3>1 DEF TypeOK
  <2>2. TypeOK'
    BY <1>0, <1>3, <2>1, <2>9, TriesAssumption DEF TypeOK, Labels
  <2>3. Begun'
    BY <1>0, <1>1, <2>1, TriesAssumption DEF Begun, Prepare
  <2>4. Unlocking' /\ UnfaultedLoader'
    BY <1>0, <2>1, <2>9 DEF Unlocking, UnfaultedLoader, Writable, Fits
  <2>5. \A p \in SentPages : Written(p)' => p = page \/ Written(p)
    BY <1>0, <1>1, <2>1 DEF Written
  <2>6. UnfaultedPages'
    <3>1. Fits /\ ~faulted' => c = "new"
      BY <1>0, <1>2, <1>5, <2>9 DEF UnfaultedLoader, Blame
    <3> QED BY <1>0, <1>1, <1>3, <2>1, <2>5, <2>9, <3>1 DEF UnfaultedPages, Writing
  <2>7. PagesInOrder'
    <3>1. SUFFICES ASSUME I2c, NEW p \in SentPages, at' = "write" => p < page'
                   PROVE  flash'[p] = "new"
      BY <1>0, <2>1 DEF PagesInOrder, SentPages
    <3>2. p = page \/ p < page
      BY <1>1, <2>1, <3>1
    <3>3. CASE p = page
      <4>1. c = "new"
        BY <1>2, <1>5, <3>1
      <4> QED BY <1>3, <3>3, <4>1
    <3>4. CASE p < page
      <4>1. flash[p] = "new"
        BY <1>0, <3>1, <3>4 DEF PagesInOrder, SentPages
      <4>2. p \in Nat /\ p \in Pages
        BY <1>1
      <4>3. p # page
        BY <1>1, <3>4, <4>2
      <4> QED BY <1>3, <4>1, <4>2, <4>3
    <3> QED BY <3>2, <3>3, <3>4
  <2>8. FailsForCause' /\ at' # "reinit"
    BY <1>0, <2>1 DEF Begun, FailsForCause
  <2> QED BY <1>4, <2>2, <2>3, <2>4, <2>6, <2>7, <2>8 DEF FirmwareInv
<1>6. CASE WritePageFails
  <2>1. /\ (at' = "write" /\ tries > 1) \/ at' = "abort"
        /\ page' = page /\ tries' = tries - 1 /\ faulted' = TRUE
    BY <1>0, <1>6 DEF WritePageFails, PageFails
  <2>2. TypeOK'
    <3>1. tries \in Nat /\ tries <= WriteTries /\ WriteTries \in Nat
      BY <1>0, TriesAssumption DEF TypeOK
    <3>2. tries # 0
      BY <1>0 DEF Begun
    <3> QED BY <1>0, <1>3, <2>1, <3>1, <3>2 DEF TypeOK, Labels
  <2>3. Begun'
    <3>1. tries \in Nat
      BY <1>0, TriesAssumption DEF TypeOK
    <3> QED BY <1>0, <1>1, <2>1, <3>1 DEF Begun, Prepare
  <2>4. Unlocking' /\ UnfaultedLoader' /\ UnfaultedPages'
    BY <1>0, <2>1 DEF Unlocking, UnfaultedLoader, UnfaultedPages, Writable, Fits
  <2>5. PagesInOrder'
    <3>1. \A p \in SentPages : p < page => p # page /\ p \in Pages
      BY <1>1
    <3> QED BY <1>0, <1>3, <2>1, <3>1 DEF PagesInOrder, SentPages
  <2>6. FailsForCause' /\ at' # "reinit"
    BY <1>0, <2>1 DEF Begun, FailsForCause
  <2> QED BY <1>4, <2>2, <2>3, <2>4, <2>5, <2>6 DEF FirmwareInv
<1> QED BY <1>5, <1>6

LEMMA BeginStep ==
  ASSUME FirmwareInv, [Next]_vars, Begin
  PROVE  FirmwareInv'
<1> USE SameDevice
<1>0. TypeOK /\ Begun /\ SkippedNotNew /\ at = "idle" /\ FileUnits(device) \in Nat
  BY DevicesAssumption DEF FirmwareInv, Begin, TypeOK, FileUnits, DeviceType
<1>1. /\ at' = "get_mode" /\ page' = FirstPage' /\ tries' = WriteTries
      /\ result' = "none" /\ restarted' = FALSE /\ faulted' = FALSE
      /\ fileUnits' >= FileUnits(device) /\ ValidPages(device) # 0
      /\ UNCHANGED <<loader, key, sized>>
  BY DEF Begin, Accepted, chip
<1>2. /\ fileUnits' \in Nat /\ start' \in Nat
      /\ flash' \in [Pages -> {"old", "new", "bad"}]
  <2>1. CASE SameFile
    BY <1>0, <2>1 DEF SameFile, file, TypeOK
  <2>2. CASE OtherFile
    BY <1>0, <2>2 DEF OtherFile, TypeOK
  <2> QED BY <2>1, <2>2 DEF Begin
<1>3. SkippedNotNew'
  <2>1. CASE SameFile
    BY <1>0, <2>1 DEF SameFile, SkippedNotNew
  <2>2. CASE OtherFile
    <3>1. \A p \in Pages : flash'[p] # "new"
      BY <2>2 DEF OtherFile
    <3> QED BY <3>1 DEF SkippedNotNew
  <2> QED BY <2>1, <2>2 DEF Begin
<1>4. TypeOK'
  <2>1. FirstPage' \in Nat
    BY <1>0, <1>2, Layout DEF FirstPage, TypeOK, PageSize
  <2>2. tries' \in 0 .. WriteTries /\ page' \in Nat /\ at' \in Labels
    BY <1>1, <2>1, TriesAssumption DEF Labels, Prepare
  <2> QED BY <1>0, <1>1, <1>2, <2>2 DEF TypeOK
<1>5. Begun'
  BY <1>1, TriesAssumption DEF Begun, Prepare
<1> QED
  BY <1>1, <1>3, <1>4, <1>5 DEF FirmwareInv, Unlocking, UnfaultedLoader,
     UnfaultedPages, Writing, PagesInOrder, FailsForCause, SuccessIsUsable

(* What is whole was sent from the first page of the application on: none  *)
(* of its pages was left out.                                              *)
LEMMA WholeSent ==
  ASSUME FirmwareInv, ValidPages(device) # 0, Whole
  PROVE  FirstPage <= AppPage(device)
<1>1. /\ FirstPage \in Nat /\ AppPage(device) \in Nat
      /\ AppPage(device) \in AppPages /\ AppPage(device) \in Pages
  <2>1. TypeOK /\ device \in Devices
    BY DEF FirmwareInv, TypeOK
  <2>2. AppPage(device) \in Nat /\ ValidPages(device) \in Nat
        /\ AppPage(device) < ValidPages(device)
    BY <2>1, Layout
  <2>3. AppPage(device) \in Pages
    BY <2>2 DEF Pages
  <2> QED BY <2>1, <2>2, <2>3, FirstPageType DEF AppPages
<1>2. flash[AppPage(device)] = "new"
  BY <1>1 DEF Whole
<1> QED BY <1>1, <1>2 DEF FirmwareInv, SkippedNotNew

LEMMA StoreStep ==
  ASSUME FirmwareInv, [Next]_vars, ~Begin,
         Reject \/ Reinitialize \/ Abort \/ UNCHANGED vars
  PROVE  FirmwareInv'
<1> USE SameDevice
<1>0. /\ TypeOK /\ Begun /\ Unlocking /\ UnfaultedLoader /\ UnfaultedPages
      /\ PagesInOrder /\ SkippedNotNew /\ FailsForCause /\ SuccessIsUsable
      /\ UNCHANGED <<fileUnits, start, FirstPage, SentPages>>
  BY DEF FirmwareInv
<1>1. CASE UNCHANGED vars
  BY <1>0, <1>1 DEF vars, chip, outcome, FirmwareInv, TypeOK, Begun, Unlocking,
     UnfaultedLoader, UnfaultedPages, Written, PagesInOrder, SkippedNotNew,
     FailsForCause, SuccessIsUsable, Writable, Whole
<1>2. CASE Reject
  BY <1>0, <1>2 DEF Reject, chip, FirmwareInv, TypeOK, Begun, Unlocking,
     UnfaultedLoader, UnfaultedPages, Written, Writing, Prepare, PagesInOrder,
     SkippedNotNew, FailsForCause, SuccessIsUsable, Writable
<1>3. CASE Reinitialize
  <2>1. /\ at = "reinit" /\ at' = "idle" /\ result' = "ok" /\ restarted' \in BOOLEAN
        /\ loader' \in BOOLEAN /\ (restarted' => ~loader')
        /\ UNCHANGED <<page, tries, faulted, flash, key, sized>>
    BY <1>0, <1>3 DEF Reinitialize, Return, TypeOK
  <2>2. SuccessIsUsable'
    <3>1. Whole /\ FirstPage <= AppPage(device)
      BY <1>0, <2>1, WholeSent DEF FirmwareInv, Begun
    <3> QED BY <1>0, <2>1, <3>1 DEF SuccessIsUsable, Whole
  <2> QED
    BY <1>0, <2>1, <2>2 DEF FirmwareInv, TypeOK, Labels, Begun, Unlocking,
       UnfaultedLoader, UnfaultedPages, Writing, Prepare, PagesInOrder,
       SkippedNotNew, FailsForCause
<1>4. CASE Abort
  <2>1. /\ at = "abort" /\ at' = "idle" /\ result' = "failed"
        /\ UNCHANGED <<restarted, page, tries, faulted, flash>>
    BY <1>4 DEF Abort, Return
  <2>2. loader' \in BOOLEAN /\ key' \in BOOLEAN /\ sized' \in BOOLEAN
    BY <1>0, <1>4 DEF Abort, IapReset, chip, TypeOK
  <2>3. FailsForCause' /\ SuccessIsUsable'
    BY <1>0, <2>1 DEF UnfaultedLoader, FailsForCause, SuccessIsUsable, Fits, TypeOK
  <2> QED
    BY <1>0, <2>1, <2>2, <2>3 DEF FirmwareInv, TypeOK, Labels, Begun, Unlocking,
       UnfaultedLoader, UnfaultedPages, Writing, Prepare, PagesInOrder, SkippedNotNew
<1> QED BY <1>1, <1>2, <1>3, <1>4

(* The inductive invariant of the update. *)
THEOREM FirmwareInvariant == Spec => []FirmwareInv
<1>1. Init => FirmwareInv
  <2> SUFFICES ASSUME Init PROVE FirmwareInv
    OBVIOUS
  <2>1. TypeOK
    <3>1. tries \in 0 .. WriteTries /\ at \in Labels
      BY TriesAssumption DEF Init, Labels
    <3>2. flash \in [Pages -> {"old", "new", "bad"}]
      BY DEF Init
    <3> QED BY <3>1, <3>2 DEF Init, TypeOK
  <2> QED
    BY <2>1 DEF Init, FirmwareInv, Begun, Unlocking, UnfaultedLoader, UnfaultedPages,
       Writing, Prepare, PagesInOrder, SkippedNotNew, FailsForCause, SuccessIsUsable
<1>2. FirmwareInv /\ [Next]_vars => FirmwareInv'
  BY CommandStep, LoopStep, BeginStep, StoreStep DEF Next, Step
<1> QED BY <1>1, <1>2, PTL DEF Spec

---------------------------------------------------------------------------
(* Every variable of the update has its type: labels, counters, pages.     *)
THEOREM FirmwareTypeCorrect == Spec => []TypeOK
<1>1. FirmwareInv => TypeOK
  BY DEF FirmwareInv
<1> QED BY <1>1, FirmwareInvariant, PTL

(* Whatever the size of the pages, the loop reads no page from behind the  *)
(* end of the file and writes none past the flash.                         *)
THEOREM PagesReadInFile == Spec => []ReadsInFile
<1>1. ASSUME FirmwareInv, at = "write"
      PROVE  page \in Pages /\ (page + 1) * PageSize(device) <= fileUnits
  <2>1. /\ device \in Devices /\ fileUnits \in Nat /\ page \in Pages
        /\ fileUnits >= device.base
    BY <1>1 DEF FirmwareInv, TypeOK, Begun, SentPages, FileUnits
  <2>2. /\ page \in Nat /\ page < ValidPages(device) /\ PageSize(device) \in Nat
        /\ (page + 1) * PageSize(device) <= device.base
    BY <2>1, Layout DEF Pages
  <2>3. device.base \in Nat /\ (page + 1) * PageSize(device) \in Nat
    BY <2>1, <2>2, DevicesAssumption DEF DeviceType
  <2> QED BY <2>1, <2>2, <2>3
<1> QED BY <1>1, FirmwareInvariant, PTL DEF ReadsInFile

(* On I2C every page is sent to a loader that takes it.                    *)
THEOREM PagesWrittenUnlocked == Spec => []WritesUnlocked
<1>1. FirmwareInv => WritesUnlocked
  BY DEF FirmwareInv, Unlocking, WritesUnlocked
<1> QED BY <1>1, FirmwareInvariant, PTL

(* On I2C the loop leaves no bad page behind it.                           *)
THEOREM PagesWrittenInOrder == Spec => []PagesInOrder
<1>1. FirmwareInv => PagesInOrder
  BY DEF FirmwareInv
<1> QED BY <1>1, FirmwareInvariant, PTL

(* An update that is reported a success has sent every page of the         *)
(* application, wherever the file says they begin, and a controller that   *)
(* was initialized after it runs the application, not its loader.          *)
THEOREM SuccessLeavesUsable == Spec => []SuccessIsUsable
<1>1. FirmwareInv => SuccessIsUsable
  BY DEF FirmwareInv
<1> QED BY <1>1, FirmwareInvariant, PTL

(* An update from where the application begins, whose pages fit the        *)
(* transport, fails only for a cause.                                      *)
THEOREM UpdateFailsForCause == Spec => []FailsForCause
<1>1. FirmwareInv => FailsForCause
  BY DEF FirmwareInv
<1> QED BY <1>1, FirmwareInvariant, PTL

---------------------------------------------------------------------------
(* What is on the controller changes only with its pages.                  *)
LEMMA ContentKept ==
  ASSUME [Next]_vars, UNCHANGED flash
  PROVE  Content' = Content
BY SameDevice DEF Content, Whole

LEMMA ContentWritten ==
  ASSUME FirmwareInv, [Next]_vars, WritePage \/ WritePageFails
  PROVE  Content' \in {"mixed", "new"} \/ Content' = Content
<1>1. page \in Pages /\ flash \in [Pages -> {"old", "new", "bad"}]
  BY DEF FirmwareInv, TypeOK, Begun, WritePage, WritePageFails, PageFails, SentPages
<1>2. PICK c \in Programmed \cup {flash[page]} : flash' = [flash EXCEPT ![page] = c]
  BY DEF WritePage, WritePageFails, PageFails
<1>3. CASE c = flash[page]
  <2>1. flash' = flash
    BY <1>1, <1>2, <1>3
  <2> QED BY <2>1, ContentKept
<1>4. CASE page \notin AppPages
  <2>1. \A p \in AppPages : flash'[p] = flash[p]
    BY <1>1, <1>2, <1>4 DEF AppPages
  <2> QED BY <2>1, SameDevice DEF Content, Whole
<1>5. CASE c # flash[page] /\ page \in AppPages
  <2>1. c # "old" /\ flash'[page] = c
    BY <1>1, <1>2, <1>5 DEF Programmed
  <2>2. ~(\A p \in AppPages' : flash'[p] = "old")
    BY <1>5, <2>1, SameDevice
  <2> QED BY <2>2 DEF Content
<1> QED BY <1>3, <1>4, <1>5

(* A store begins with the content of the last one, or with none of its    *)
(* file on the controller.                                                 *)
LEMMA ContentBegun ==
  ASSUME FirmwareInv, [Next]_vars, Begin
  PROVE  Content' \in {Content, "old"}
<1>1. CASE UNCHANGED flash
  BY <1>1, ContentKept
<1>2. CASE flash' = [p \in Pages |-> IF flash[p] = "new" THEN "old" ELSE flash[p]]
  <2>1. \A p \in AppPages : /\ flash'[p] = "old" \/ flash[p] = "bad"
                            /\ flash[p] = "bad" => flash'[p] = "bad"
    BY <1>2 DEF FirmwareInv, TypeOK, AppPages
  <2>2. CASE \E p \in AppPages : flash[p] = "bad"
    <3>1. Content = "mixed"
      BY <2>2 DEF Content, Whole
    <3>2. Content' = "mixed"
      BY <2>1, <2>2, SameDevice DEF Content, Whole
    <3> QED BY <3>1, <3>2
  <2>3. CASE ~ \E p \in AppPages : flash[p] = "bad"
    BY <2>1, <2>3, SameDevice DEF Content
  <2> QED BY <2>2, <2>3
<1> QED BY <1>1, <1>2 DEF Begin, SameFile, OtherFile

(* The update implements what the store promises to its caller: success    *)
(* only with the whole image on the controller, rejection only with the    *)
(* controller untouched.                                                   *)
THEOREM UpdateKeepsContract == Spec => KeepsContract
<1>1. Init => Contract!Init
  BY DEF Init, Contract!Init, Content, AppPages
<1>2. FirmwareInv /\ [Next]_vars => [Contract!Next]_(Contract!vars)
  <2> SUFFICES ASSUME FirmwareInv, [Next]_vars
               PROVE  Contract!Next \/ UNCHANGED Contract!vars
    OBVIOUS
  <2>1. CASE UNCHANGED vars
    <3>1. Content' = Content
      BY <2>1, ContentKept DEF vars
    <3> QED BY <2>1, <3>1 DEF vars, outcome, Contract!vars
  <2>2. CASE Reject
    <3>1. Content' = Content
      BY <2>2, ContentKept DEF Reject
    <3> QED BY <2>2, <3>1 DEF Reject, Contract!Next, Contract!Reject
  <2>3. CASE Begin
    <3>1. at = "idle" /\ at' = "get_mode" /\ result' = "none"
      BY <2>3 DEF Begin
    <3> QED BY <2>3, <3>1, ContentBegun DEF Contract!Next, Contract!Begin
  <2>4. CASE PrepareUpdate \/ Settle \/ FinishUpdate \/ CompareChecksum \/ TransferFails
    <3>1. /\ at # "idle" /\ at' # "idle"
          /\ result' = result /\ flash' = flash
      BY <2>4 DEF outcome, Loop, PrepareUpdate, GetMode, ResetLoader, SetKey, WritePassword, CheckMode,
         SetPageSize, Unlock, ReadKey, Refused, Settle, FinishUpdate,
         CompareChecksum, TransferFails, Command, Goto, Prepare
    <3>2. Content' = Content
      BY <3>1, ContentKept
    <3> QED BY <3>1, <3>2 DEF Contract!vars
  <2>5. CASE WritePage \/ WritePageFails
    <3>1. at # "idle" /\ at' # "idle" /\ result' = result
      BY <2>5 DEF outcome, WritePage, WritePageFails, PageFails, NextPage
    <3>2. CASE Content' = Content
      BY <3>1, <3>2 DEF Contract!vars
    <3>3. CASE Content' \in {"mixed", "new"}
      BY <3>1, <3>3 DEF Contract!Next, Contract!Write
    <3> QED BY <2>5, <3>2, <3>3, ContentWritten
  <2>6. CASE Reinitialize
    <3>1. /\ at = "reinit" /\ at' = "idle" /\ result' = "ok" /\ flash' = flash
      BY <2>6 DEF Reinitialize, Return
    <3>2. AppPage(device) \in AppPages
      <4>1. device \in Devices /\ ValidPages(device) # 0
        BY <3>1 DEF FirmwareInv, TypeOK, Begun
      <4>2. AppPage(device) \in Nat /\ ValidPages(device) \in Nat
            /\ AppPage(device) < ValidPages(device)
        BY <4>1, Layout
      <4> QED BY <4>2 DEF AppPages, Pages
    <3>3. Content = "new"
      BY <3>1, <3>2 DEF FirmwareInv, Content, Whole
    <3>4. Content' = Content
      BY <3>1, ContentKept
    <3> QED BY <3>1, <3>3, <3>4 DEF Contract!Next, Contract!Succeed
  <2>7. CASE Abort
    <3>1. /\ at = "abort" /\ at' = "idle" /\ result' = "failed" /\ flash' = flash
      BY <2>7 DEF Abort, Return
    <3>2. Content' = Content
      BY <3>1, ContentKept
    <3> QED BY <3>1, <3>2 DEF Contract!Next, Contract!Fail
  <2> QED BY <2>1, <2>2, <2>3, <2>4, <2>5, <2>6, <2>7 DEF Next, Step
<1> QED
  BY <1>1, <1>2, FirmwareInvariant, PTL DEF Spec, KeepsContract, Contract!Spec

---------------------------------------------------------------------------
(* The store comes to an end: a bound on what it can still send goes down  *)
(* with every step.                                                        *)

(* How far a label is from the end of the store.  The transports reset,    *)
(* unlock and read back in different orders.                               *)
Distance(l) ==
  CASE l = "get_mode" -> 12
    [] l = "reset"    -> IF I2c THEN 11 ELSE 6
    [] l = "key"      -> 10
    [] l \in {"password", "check"} -> 9
    [] l = "size"     -> 8
    [] l = "unlock"   -> 7
    [] l = "read_key" -> IF I2c THEN 6 ELSE 8
    [] l = "write"    -> 5
    [] l = "settle"   -> 4
    [] l = "finish"   -> 3
    [] l = "checksum" -> 2
    [] l \in {"reinit", "abort"} -> 1
    [] OTHER -> 0

(* The attempts left to the pages from this one to the last. *)
Attempts ==
  IF at \in Prepare \cup {"write"} /\ page < ValidPages(device)
  THEN (ValidPages(device) - page - 1) * WriteTries + tries ELSE 0

Remaining == Distance(at) + Attempts

(* What no update exceeds, whatever fails. *)
Longest == 12 + ValidPages(device) * WriteTries

LEMMA OneLess ==
  ASSUME NEW n \in Nat \ {0}, NEW w \in Nat
  PROVE  n * w \in Nat /\ (n - 1) * w \in Nat /\ n * w = (n - 1) * w + w
OBVIOUS

LEMMA Fewer ==
  ASSUME NEW n \in Nat, NEW k \in Nat, k < n, NEW w \in Nat
  PROVE  /\ (n - k - 1) * w \in Nat
         /\ (n - k - 1) * w + w <= n * w
<1>1. n - k - 1 \in Nat /\ n = (n - k - 1) + (k + 1)
  OBVIOUS
<1>2. n * w = (n - k - 1) * w + (k + 1) * w
  BY <1>1
<1>3. (k + 1) * w = k * w + w /\ k * w \in Nat
  OBVIOUS
<1> QED BY <1>1, <1>2, <1>3

LEMMA DistanceRange ==
  ASSUME NEW l
  PROVE  Distance(l) \in 0 .. 12
BY DEF Distance

LEMMA AttemptsRange ==
  ASSUME FirmwareInv
  PROVE  /\ Attempts \in Nat /\ Attempts <= ValidPages(device) * WriteTries
         /\ page \in Nat
         /\ at = "write" => page < ValidPages(device) /\ tries \in 1 .. WriteTries
<1>1. /\ page \in Nat /\ ValidPages(device) \in Nat /\ WriteTries \in Nat
      /\ tries \in 0 .. WriteTries /\ ValidPages(device) * WriteTries \in Nat
  BY FirstPageType, TriesAssumption DEF FirmwareInv, TypeOK
<1>2. at = "write" => page < ValidPages(device) /\ tries \in 1 .. WriteTries
  BY <1>1, FirstPageType DEF FirmwareInv, Begun
<1>3. CASE at \in Prepare \cup {"write"} /\ page < ValidPages(device)
  <2>1. /\ (ValidPages(device) - page - 1) * WriteTries \in Nat
        /\ (ValidPages(device) - page - 1) * WriteTries + WriteTries
             <= ValidPages(device) * WriteTries
    BY <1>1, <1>3, Fewer
  <2> QED BY <1>1, <1>2, <1>3, <2>1 DEF Attempts
<1>4. CASE ~(at \in Prepare \cup {"write"} /\ page < ValidPages(device))
  BY <1>1, <1>2, <1>4 DEF Attempts
<1> QED BY <1>3, <1>4

(* A command leads on, with the attempts it found or none. *)
LEMMA CommandAdvances ==
  ASSUME FirmwareInv, FirmwareInv', [Next]_vars, at # "idle",
         UNCHANGED <<page, tries>>, Distance(at)' < Distance(at),
         at' \in Prepare \cup {"write"} => at \in Prepare \cup {"write"}
  PROVE  Remaining' < Remaining
<1>1. Attempts' = Attempts \/ Attempts' = 0
  BY SameDevice DEF Attempts
<1>2. Attempts \in Nat
  BY AttemptsRange
<1>3. Distance(at) \in Nat /\ Distance(at)' \in Nat
  <2>1. Distance(at) \in Nat
    BY DistanceRange
  <2> QED BY <2>1, DistanceRange DEF Distance
<1> QED BY <1>1, <1>2, <1>3 DEF Remaining

LEMMA PageAdvances ==
  ASSUME FirmwareInv, FirmwareInv', [Next]_vars, WritePage \/ WritePageFails
  PROVE  Remaining' < Remaining
<1> DEFINE n == ValidPages(device) - page - 1
<1>1. /\ at = "write" /\ page \in Nat /\ n \in Nat /\ tries \in 1 .. WriteTries
      /\ WriteTries \in Nat /\ ValidPages(device) \in Nat /\ page < ValidPages(device)
      /\ n * WriteTries \in Nat
  <2>1. at = "write"
    BY DEF WritePage, WritePageFails, PageFails
  <2>2. ValidPages(device) \in Nat /\ WriteTries \in Nat
    BY Layout, TriesAssumption DEF FirmwareInv, TypeOK
  <2> QED BY <2>1, <2>2, AttemptsRange, Fewer
<1>2. Remaining = 5 + n * WriteTries + tries
  BY <1>1 DEF Remaining, Distance, Attempts
<1>3. ValidPages(device)' = ValidPages(device)
  BY SameDevice
<1>4. CASE WritePage /\ at' = "write"
  <2>1. page' = page + 1 /\ tries' = WriteTries /\ page + 1 < ValidPages(device)
    BY <1>1, <1>4 DEF WritePage, NextPage
  <2>2. n # 0 /\ ValidPages(device)' - page' - 1 = n - 1
    BY <1>1, <1>3, <2>1
  <2>3. Remaining' = 5 + (n - 1) * WriteTries + WriteTries
    <3>1. Attempts' = (ValidPages(device)' - page' - 1) * WriteTries + tries'
      BY <1>3, <1>4, <2>1 DEF Attempts
    <3>2. Attempts' = (n - 1) * WriteTries + WriteTries
      BY <2>1, <2>2, <3>1
    <3>3. Distance(at)' = 5
      BY <1>4 DEF Distance
    <3>4. (n - 1) * WriteTries \in Nat
      BY <1>1, <2>2, OneLess
    <3> HIDE DEF n
    <3> QED BY <1>1, <3>2, <3>3, <3>4 DEF Remaining
  <2>4. n * WriteTries = (n - 1) * WriteTries + WriteTries
        /\ (n - 1) * WriteTries \in Nat
    BY <1>1, <2>2, OneLess
  <2> QED BY <1>1, <1>2, <2>3, <2>4
<1>5. CASE WritePageFails /\ at' = "write"
  <2>1. page' = page /\ tries' = tries - 1
    BY <1>5 DEF WritePageFails, PageFails
  <2>2. Remaining' = 5 + n * WriteTries + (tries - 1)
    <3>1. Attempts' = (ValidPages(device)' - page' - 1) * WriteTries + tries'
      BY <1>1, <1>3, <1>5, <2>1 DEF Attempts
    <3>2. Attempts' = n * WriteTries + (tries - 1)
      BY <1>3, <2>1, <3>1
    <3>3. Distance(at)' = 5
      BY <1>5 DEF Distance
    <3> HIDE DEF n
    <3> QED BY <1>1, <3>2, <3>3 DEF Remaining
  <2> QED BY <1>1, <1>2, <2>2
<1>6. CASE at' # "write"
  <2>1. at' \in {"settle", "abort"}
    BY <1>1, <1>6 DEF WritePage, WritePageFails, PageFails, NextPage
  <2>2. Remaining' <= 4
    BY <2>1 DEF Remaining, Distance, Attempts, Prepare
  <2>3. Remaining' \in Nat
    BY <2>1 DEF Remaining, Distance, Attempts, Prepare
  <2> QED BY <1>1, <1>2, <2>2, <2>3
<1> QED BY <1>4, <1>5, <1>6

(* Every other step leads to a label nearer to the end. *)
LEMMA StepLeadsOn ==
  ASSUME FirmwareInv, [Next]_vars, Step, ~WritePage, ~WritePageFails
  PROVE  /\ UNCHANGED <<page, tries>> /\ Distance(at)' < Distance(at)
         /\ at' \in Prepare \cup {"write"} => at \in Prepare \cup {"write"}
<1> DEFINE Leads(from, to) ==
             at \in from /\ at' \in to /\ UNCHANGED <<page, tries>>
<1> USE DEF Command, Goto
<1>1. I2c' = I2c
  BY SameDevice
<1>2. CASE GetMode
  <2>1. Leads({"get_mode"}, {"reset", "key", "unlock"})
    BY <1>2 DEF GetMode
  <2> QED BY <1>1, <2>1 DEF Distance, Prepare
<1>3. CASE ResetLoader
  <2>1. /\ I2c => Leads({"reset"}, {"key"})
        /\ ~I2c => Leads({"reset"}, {"write", "settle"})
    BY <1>3 DEF ResetLoader, Loop
  <2> QED BY <1>1, <2>1 DEF Distance, Prepare
<1>4. CASE SetKey
  <2>1. Leads({"key"}, {"check", "password"})
    BY <1>4 DEF SetKey
  <2> QED BY <1>1, <2>1 DEF Distance, Prepare
<1>5. CASE WritePassword
  <2>1. Leads({"password"}, {"read_key"})
    BY <1>5 DEF WritePassword
  <2> QED BY <1>1, <2>1 DEF Distance, Prepare
<1>6. CASE CheckMode
  <2>1. Leads({"check"}, {"size", "unlock"})
    BY <1>6 DEF CheckMode
  <2> QED BY <1>1, <2>1 DEF Distance, Prepare
<1>7. CASE SetPageSize
  <2>1. Leads({"size"}, {"unlock"})
    BY <1>7 DEF SetPageSize
  <2> QED BY <1>1, <2>1 DEF Distance, Prepare
<1>8. CASE Unlock
  <2>1. /\ I2c => Leads({"unlock"}, {"read_key"})
        /\ ~I2c => Leads({"unlock"}, {"reset"})
    BY <1>8 DEF Unlock
  <2> QED BY <1>1, <2>1 DEF Distance, Prepare
<1>9. CASE ReadKey
  <2>1. /\ I2c => Leads({"read_key"}, {"write", "settle"})
        /\ ~I2c => Leads({"read_key"}, {"unlock"})
    BY <1>9 DEF ReadKey, Loop
  <2> QED BY <1>1, <2>1 DEF Distance, Prepare
<1>10. CASE Refused \/ TransferFails
  <2>1. Leads(Prepare \cup {"finish", "checksum"}, {"abort"})
    BY <1>10 DEF Refused, TransferFails, Prepare
  <2> QED BY <1>1, <2>1 DEF Distance, Prepare
<1>11. CASE Settle \/ FinishUpdate
  <2>1. \/ Leads({"settle"}, {"finish", "checksum"})
        \/ Leads({"finish"}, {"checksum"})
    BY <1>11 DEF Settle, FinishUpdate
  <2> QED BY <1>1, <2>1 DEF Distance, Prepare
<1>12. CASE CompareChecksum
  <2>1. Leads({"checksum"}, {"reinit", "abort"})
    BY <1>12 DEF CompareChecksum
  <2> QED BY <1>1, <2>1 DEF Distance, Prepare
<1>13. CASE Reinitialize \/ Abort
  <2>1. Leads({"reinit", "abort"}, {"idle"})
    BY <1>13 DEF Reinitialize, Abort, Return
  <2> QED BY <1>1, <2>1 DEF Distance, Prepare
<1> QED
  BY <1>2, <1>3, <1>4, <1>5, <1>6, <1>7, <1>8, <1>9, <1>10, <1>11, <1>12, <1>13
  DEF Step, PrepareUpdate

(* An update that has begun has a bounded number of commands before it,    *)
(* and every step of it leaves fewer: no refusal or lost transfer makes    *)
(* the store start a page or a phase again.  What is left of UpdateReturns *)
(* is that the next step is taken.                                         *)
THEOREM UpdateIsFinite ==
  Spec => /\ [](Remaining \in 0 .. Longest)
          /\ [][at # "idle" => Remaining' < Remaining]_vars
<1> DEFINE Leads == at # "idle" => Remaining' < Remaining
<1>1. FirmwareInv => Remaining \in 0 .. Longest
  <2> SUFFICES ASSUME FirmwareInv PROVE Remaining \in 0 .. Longest
    OBVIOUS
  <2>1. ValidPages(device) * WriteTries \in Nat
    BY Layout, TriesAssumption DEF FirmwareInv, TypeOK
  <2> QED BY <2>1, DistanceRange, AttemptsRange DEF Remaining, Longest
<1>2. FirmwareInv /\ FirmwareInv' /\ [Next]_vars => [Leads]_vars
  <2> SUFFICES ASSUME FirmwareInv, FirmwareInv', Next, at # "idle"
               PROVE  Remaining' < Remaining
    OBVIOUS
  <2>1. Step
    BY DEF Next, Reject, Begin
  <2> QED BY <2>1, StepLeadsOn, CommandAdvances, PageAdvances
<1> QED BY <1>1, <1>2, FirmwareInvariant, PTL DEF Spec

=============================================================================
