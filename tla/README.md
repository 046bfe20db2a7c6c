# elan-guardian: a TLA+ verification development

elan-guardian keeps an ELAN touchpad on I2C or SMBus alive. Its kernel part is
a variant of the `elan_i2c` driver with a watchdog; its user-space part
watches the driver, rebinds it, records traces and diagnoses them. This
directory models the parts in which ordering, failure and concurrency decide
whether the program is right, checks them with TLC and proves the central
invariants with TLAPS.

Paths below are relative to the repository root.

## 1. Inventory

### Kernel driver: `kernel/rust-shim/upstream/elan_i2c_core.c`

State: `struct elan_tp_data` (`mode`, `in_fw_update`, `fw_completion`,
`max_/min_baseline`, `baseline_ready`, `watchdog_enabled`, `open_count`,
`report_errors`, `watchdog_recoveries`, `watchdog_work`, `sysfs_mutex`), the
disable depth of the interrupt line, and the controller's own mode and power.

| Operation | Code | Runs in |
| --- | --- | --- |
| report or read error | `elan_isr`, `elan_queue_watchdog` | threaded interrupt handler |
| automatic recovery | `elan_watchdog_work`, `elan_recover_locked` | system workqueue |
| requested recovery | `recover_store` | any process writing sysfs |
| calibrate, acquire baselines | `calibrate_store`, `acquire_store` | " |
| firmware update | `elan_update_firmware`, `elan_i2c_finish_fw_update` | " |
| show mode, min, max | `elan_sysfs_read_mode`, `min_show`, `max_show` | " |
| open, close | `elan_input_open`, `elan_input_close` | input users |
| suspend, resume | `elan_suspend`, `elan_resume` | the thread that suspends the system |
| probe, removal | `elan_probe` and its managed resources | driver core |

They interact through `sysfs_mutex` (taken by the work, every store and show
and by suspend, but not by resume, open, close or the handler), through
`disable_irq`/`enable_irq` (which wait for the handler), through
`cancel_work_sync` (which waits for the work) and through plain fields read
without any lock (`report_errors`, `open_count`, `in_fw_update`).

What is hard: six kinds of thread, three blocking primitives that wait for
each other, an error path after every transfer, and two orders of suspend.
What makes it correct: one command sequence at a time on the controller; every
disable of the interrupt undone exactly once; no automatic recovery of a
closed, suspended or removed device; a recovery that says it succeeded did;
nothing waits for ever.

### Patch `kernel/0001-...`: the in-tree variant of the same driver

The same code with `elan_suspend` in another order: it disables the interrupt
before it cancels the work and takes the mutex.

### Rust core `kernel/rust-shim/elan_core.rs` and its C shim

Pure: the watchdog policy, the order of recovery phases, and the decoder of
report packets, whose frames the shim turns into input events.

### Transports `elan_i2c_i2c.c`, `elan_i2c_smbus.c`

Register access without state of its own, the two protocols that bring a
controller into its boot loader, unlock its flash and write a page, and on I2C
the handshake at the end of a firmware update, which enables the interrupt and
waits for its completion for 700 ms.

### Firmware update: `elan_sysfs_update_fw` to `elan_write_fw_block`

State: the file, the page and the attempts left for it; on the controller,
whether it runs its loader, has accepted the key and been told the page size,
and its flash. Every command may fail, a failed update leaves the controller in
any mode, and the next one starts from there. What makes it correct: no page is
read from behind the file or sent to a loader that is locked; success means that
the application is whole, wherever the file said it begins, and runs; an update
that failed can be repeated.

### User space (`src/`)

| Component | State | Operations | Hard part |
| --- | --- | --- | --- |
| monitor (`watch.rs`) | last counter, cooldown, consumers | one pass per interval | counter that restarts, cooldown from the pass's start |
| consumer observer (`consumer.rs`) | duplicated descriptors, first-seen times per key | refresh, sample, report backlog | readiness is sampled, not watched; keys are used again |
| recovery and rebind (`recover.rs`) | sysfs bind state | sysfs recover, unbind, bind | several programs at once; failure after unbind |
| activation (`kernel_module.rs`) | loaded module, bound devices | unbind all, swap, rebind | failure between any two steps; others bind meanwhile |
| policy (`policy.rs`) | none | `watchdog_action` | the same in five languages |
| diagnosis (`diagnose.rs`) | none | `analyze_trace` | missing IRQ totals |
| trace recording (`trace.rs`, `irq.rs`) | samples | sampling loop | order of reading events and totals |
| discovery (`device.rs`) | none | scan of sysfs | none |
| command line (`main.rs`) | none | dispatch, `export_features` | unknown totals exported |

Beside these the repository states the policies in Agda and Idris
(`formal/`), and scores traces in Fortran (`fortran/`).

`PROJECT.json` lists every component with its status, and every hazard at the
line where it bites.

## 2. Modules

| Module | What it is |
| --- | --- |
| `ElanPolicy` | the pure decisions, once per language that writes them |
| `PolicyAgreement` | enumerates inputs of these decisions and compares them |
| `PolicyAgreement_proofs` | that they agree on every input |
| `ElanDriver` | the kernel driver: one label per thread, one action per step |
| `MCDriver` | the model checker's symmetry sets for `ElanDriver` |
| `ElanDriver_proofs` | the inductive invariant of `ElanDriver` and its theorems |
| `ElanDriverData_proofs` | what the threads do to the data they share, on top of that invariant |
| `RecoveryCounter` | abstract: what the `recoveries=` field promises its readers; kept by `ElanDriver`, assumed by `GuardianRebind` |
| `FirmwareContract` | abstract: what writing `update_fw` promises |
| `ElanFirmware` | the update, command by command, on both transports; implements the contract |
| `MCFirmware` | the controllers `ElanFirmware` is checked with |
| `ElanFirmware_proofs` | its inductive invariant, its theorems and the refinement |
| `ElanDecode` | packets, the loop of the Rust decoder, the shim's emission, the emission in C |
| `ElanDecode_proofs` | the invariant of the decoder's loop and its theorems |
| `MCDecode` | the devices, fingers and areas `ElanDecode` is checked with |
| `GuardianRebind` | the programs that bind and unbind controllers through sysfs |
| `GuardianRebind_proofs` | the inductive invariants of `GuardianRebind` and its theorems |
| `GuardianBacklog` | when the monitor takes a consumer for stalled, with times as ages |
| `GuardianBacklog_proofs` | its inductive invariant and its theorems |

### How `ElanDriver` corresponds to the code

A thread's label says where it will continue; a step is the code from one
point at which another thread can matter to the next. `isr` is `elan_isr`,
`worker` and `pending` are `watchdog_work` running and queued, `op[t]` and
`at[t]` a process in a sysfs call, `pm` the thread in `elan_suspend` or
`elan_resume`, `dev` how far removal has gone, `input[i]` an input device
(`"closing"`: `elan_input_close` has counted the close and waits in
`cancel_work_sync`).

* `elan_recover_locked` is one definition, `RecoverLocked(phase, next)`, used
  by the work and by `recover_store`; its phases and their order are those of
  the Rust core (`RecoveryNext`).
* A bus transfer succeeds or fails, retries included, as TLC chooses; a
  controller with its supply off never answers. `elan_initialize` may fail
  after any of its commands (`InitializeFails`).
* `DisableIrq` is enabled only when the handler is not running;
  `CancelWorkSync` only when the work is not.
* `elan_isr` reads `in_fw_update` once, at its start; the read of the report,
  the second look at `open_count` and the queueing are steps of their own.
* `disable_irq` and the store to `in_fw_update` in front of a firmware update
  are one step: with the mutex held and the interrupt disabled nobody else
  reads that field.
* User tasks are frozen before a device is suspended, so `SuspendBegin`
  requires that no call is in progress. The workqueue and the interrupt
  thread are not frozen.
* Removal releases the managed resources in the reverse of the order in which
  `elan_probe` acquired them: attributes, input devices, interrupt, supply,
  work.
* Reports are abstracted to whether something is held down (`pressed`), the
  baselines to which of the two the last acquisition wrote, the modes to the
  bits `abs` and `cal`.

`RecoveryCounter` is the `recoveries=` field of `runtime_watchdog_show`, the one
thing of the driver that user space decides by: absent while the driver is not
bound, 0 after a probe, one more with each automatic recovery. `KeepsCounter`
maps `dev` and `recoveries` to it; `AssumesCounter` in `GuardianRebind` maps
`bound` and `count`. So the two models agree on their common edge.

`SuspendOrder` selects the module's `elan_suspend` (`"shim"`) or the one of
patch 0001 (`"patch"`); everything else the two variants share.

### How `GuardianRebind` corresponds to the code

The driver is seen from user space: `bound` is what `discover` lists, `count`
the `recoveries=` field of `runtime_watchdog`, which a probe starts afresh
(`ProbeOk`) and the watchdog increments (`KernelRecovery`; in `ElanDriver`
that is `WorkFinish`). A program is `"monitor"` (`watch.rs`), `"activator"`
(`kernel_module.rs`) or a member of `Commands` (`recover_command` in
`main.rs`, which a user, the resume unit or the udev rule starts). `at[p]` is
the next access to sysfs of program `p`:

| Label | Code |
| --- | --- |
| `inplace`, `write`, `nodes` | `recover`: is it bound, is there a `recover` attribute, write it, wait for event nodes |
| `check`, `unbind`, `gone`, `bind`, `attached` | `rebind_controller`: look, write `unbind`, wait 1 s, up to five writes to `bind`, wait 3 s twice |
| `next` | the loop over the requested controllers, or the monitor's pass |
| `act_check`, `act_unbind` | `unbind_controllers`, which looks and writes in two steps |
| `act_remove`, `act_load` | the two calls of `modprobe` |
| `act_restore` | `rebind_controllers`, one attempt for each controller found bound |
| `act_wait` | the waits for the driver core to bind what was bound |

* Every look and the write after it are two steps, and every program may step
  in between: nothing in the code locks one out.
* A waiting program polls until a deadline, so it goes on in any state that
  satisfies it and gives up in any that does not. Both are possible in turn;
  fairness makes it do one of them.
* A failure ends a command (`?` in `recover_command`); the monitor logs it and
  goes on to the next controller.
* `observe_recovery` compares `snap`, read once per pass, with `seen`; a
  successful rebind sets `seen` to 0, a failing one does not.
* Whether a consumer has stalled is a free choice (`MonitorStall`), at most
  one in a pass that rebound nothing; `GuardianBacklog` says when it is taken.
  A failing probe is a free choice, too.
* `Attended` excepts a controller whose last probe failed (`refused`): a program
  gives up after its attempts to bind, and nothing in the code tries that
  controller again.

### How `GuardianBacklog` corresponds to the code

One pass of `monitor` goes through `phase`: `"asleep"` (the sleep, then the
scan), `"scanned"` (counters and cooldown), `"sample"` (readiness), `"rebind"`.
All times a pass compares are those of its start (`now`), so time advances only
with `Wake`, by a member of `Lapses`, and deadlines are kept as what is left of
them, times as ages.

| Definition | Code |
| --- | --- |
| `desc[k]`, `Deliver`, `Drain`, `Close`, `Open`, `Unplug` | what consumers and the kernel do to a descriptor; external |
| `held[k]` | the monitor's duplicate; it outlives the consumer's own (`"idle"`, `"unread"`) and may refer to a device that is gone (`"dead"`) |
| `since` | `BacklogObserver.ready_since` |
| `RefreshConsumers`, `RefreshFails`, `NotDue` | `ConsumerMonitor::refresh_if_due` |
| `Observe`, `Nobody` | `readiness`, `BacklogObserver::observe`, and its omission without consumers |
| `Rest` | a pass within the cooldown, which clears the observer |
| `CounterRebind`, `BacklogRebind`, `BacklogRebindFails` | the two rebinds; their steps are in `GuardianRebind` |

`steady`, `taken` and `reused` are history, which the code does not keep: per key,
how long no sample has found it anything but ready; how long duplicates of the
descriptor found by the last search have been held; and which entries of `since`
were made for an earlier descriptor. They are written by what is seen of the
descriptors and never computed from `since`. They make a divergence
visible. `README.md:130`
says that a descriptor "continuously readable for 750 ms" is rebound. A refresh
replaces the duplicates and leaves the observer alone, and with no consumer left
the observer is not even called; when the consumer reopens the same number on
the same node, the old entry is its own, and its first unread sample may be
judged as 750 ms old. `ReadyThroughout` says of every entry that it is no older
than the unbroken row of ready samples of its key, and of those outside `reused`
also that it is no older than the duplicates; without that exception TLC refutes
it. So the property does not forbid the judgement of a reused key, nor that of a
closed descriptor whose duplicate collects events: the code does both, and the
hazards that describe them name no property.

There is one controller here; with several, a cooldown after the rebind of one
also rests the others.

### How `ElanFirmware` corresponds to the code

`at` is the next command of `__elan_update_firmware`; `Step` is one command and
its answer.

| Label | I2C | SMBus |
| --- | --- | --- |
| `get_mode` | `iap_get_mode` | " (a short block answer reads as zeroes: `MAIN_MODE`) |
| `reset` | `iap_reset` of a controller in its loader | `iap_reset` of the unlocked loader |
| `key` | `set_flash_key` | the first write of the flash key |
| `password` | | the IAP password |
| `check` | the mode read again | |
| `size` | `elan_read_write_iap_type`, for larger pages | |
| `unlock` | `set_flash_key` again | the flash key to the loader |
| `read_key` | the key read back | the password read back |
| `write` | `elan_write_fw_block`, up to three times | " |
| `settle` | the pause after the last page | " |
| `finish` | `finish_fw_update` | |
| `checksum`, `reinit`, `abort` | the end of `__elan_update_firmware` and of `elan_update_firmware` | " |

* `faulted` is history: in this call a transfer failed or the controller did
  not do what it was asked. `FailsForCause` says a failure has such a cause.
* Sizes are in units of 64 bytes, the smallest page. The IAP start address is
  read from the file, and nothing checks it: `start` is any address up to the end of
  the flash, and `FirstPage` the page it lies in. `app` is where the controller's
  application really begins (external). A file that starts lower has the loader
  written: no property forbids that, since neither code nor text does. One that starts
  higher leaves pages of the application out, up to all of them, which only the
  checksums can tell (`SuccessIsUsable`).
* The controller sums up its application, the driver what it has sent. Sums of
  different contents are taken to differ; a 16-bit sum may coincide in fact. When
  the loader was written too, equal contents may have either outcome. A page
  carries no number, so the controller is taken to count pages as the driver does.
* A file is the one of the last store or another. Another has no page in common with
  what is on the controller, so a page is `"new"` only if this file was sent.
* The store looks at the file's size and signature before it takes `sysfs_mutex`
  and reads the layout of the pages with it. An update in between may change
  `iap_version`, hence the size and number of pages, but not their product nor the
  address of the signature, which depend on `ic_type`, set at probe only. The check
  is therefore never stale, and the model fixes `device`, one layout at a time.
* An I2C loader verifies the checksum sent with a page; the SMBus protocol
  sends none, and a short answer to the status query reads as zeroes, which
  mean no error. So `PagesInOrder` is claimed for I2C, and on SMBus a page may
  go wrong unseen until the checksums of the whole are compared.
* The SMBus transport writes a page as two blocks of half its size, and a block
  holds 32 bytes; controllers with larger pages cannot be updated there
  (`FailsForCause` excepts them).
* How the store excludes the other users of the controller, and the wait for
  the interrupt, are in `ElanDriver`.

`FirmwareContract` is the view of the one who writes the attribute: idle or
busy, the last result, and whether the controller holds the new program, none
of it, or a mixture. `KeepsContract` maps `Content`, a function of `flash`, and
the label to it.

### How `ElanDecode` corresponds to the code

`device` is `struct elan_rs_report_context` with the report length the
transport announces; `pad` and `stick` are what the two input devices hold;
`report` is the absolute packet being decoded, `slot` the slot the loop of
`decode_absolute` is at, `frame` the frame so far with the number of finger
records taken, which stands for `finger_offset`; `status` is what
`elan_rs_emit_report` returned last. The last three are locals of the handler
and are reset when it returns.

One turn of the loop is a step: `SkipSlot` for a slot that is not touched,
`DecodeSlot` for one that is (it takes the next packed finger record, also for
a finger it then ignores), `RejectPacket` where the record or, in a
high-precision packet, the area lies behind the end of the packet. At the end
`EmitAbsolute` writes every slot, so what a packet does not touch is released.
A recovery releases the inputs only between two packets: it has disabled the
interrupt, which waits for the handler (`ElanDriver` models and proves that).

The reference is the emission in C (`elan_report_contact`,
`elan_report_absolute`), which `elan_i2c_core.c` keeps unused. `EmitsLikeC`
compares the two from every state of the touchpad and names the two places
where they differ:

* a finger beyond `max_x` or `max_y`: C returns before it touches the slot,
  which stays where it was; Rust reports the slot inactive. A finger that
  drifts off the declared edge is lifted at once and put down again when it
  comes back;
* a trace narrower than `FINGER_WIDTH_REDUCE`: C wraps the unsigned width, Rust
  saturates at 0.

No text of the repository promises the one or the other.

## 3. Runs

Passing runs:

| Run | Configuration | Question | States |
| --- | --- | --- | --- |
| `policies` | all inputs with errors 0..4, bytes and totals 0..2, totals possibly missing | do the languages agree? | 3 840 |
| `firmware` | seven controllers on both transports, any start address, three attempts, every command may fail | does the update keep its contract, whatever file it gets? does success leave a usable controller, failure have a cause? does it return? | 59 786 |
| `driver_ops` | two tasks, all calls, one input device | what do calls, work and handler leave in the data they share? | 1.1 M |
| `driver_sleep` | patch order, suspend and unbind, two inputs | is sleep undisturbed, the interrupt balanced, the work stopped in time? does a recovery restore the chip? does anybody wait in a circle? is the counter what user space takes it for? | 0.44 M |
| `driver_live` | module's order, recovery and firmware update, suspend | does everything that blocks return? what may overlap? | 0.10 M |
| `decode` | two contacts, four devices, fingers within and out of range | do Rust and shim emit what C did? | 969 000 |
| `rebind_rivals` | two controllers; activation, one command | can they leave a controller unbound with nobody to bind it? does the rebind end? | 0.10 M |
| `monitor_alone` | two controllers; monitor | is every counted recovery answered, and nothing else? is no more assumed of the counter than the driver keeps? | 5 700 |
| `backlog` | two consumers; grace 2, refresh 3, cooldown 4, passes 1 or 5 apart | on what is a consumer judged, how far apart are rebinds, is a stall answered? | 38 546 |

Runs whose violation is the result; `findings` in `PROJECT.json` quotes the
text each one contradicts:

| Run | Shows |
| --- | --- |
| `shim_suspend_race` | In the module's order a read error between `cancel_work_sync` and `disable_irq` queues the work again; it then resets a controller that is asleep or that `elan_resume` is initializing. |
| `request_lost` | A request queued for one input device is cancelled by the close of the other. |
| `recovery_missed` | Another program's rebind restarts the counter; when it reaches the value the monitor saw last before the next pass, that recovery is never answered. |

Two smaller observations are stated as exceptions of properties that pass.
`ExportScoresAlike` is about traces with both IRQ totals: `export_features`
writes an unknown total as 0, and a silent trace that is `inconclusive` to the
program is `transport-stalled` to the Fortran scorer. And the work decides on
`report_errors` before it disables the interrupt (`WorkDecide`, `WorkMask`), so
a good report in between does not stop the recovery.

### Bounds, and why they are enough

* `Tasks`: the mutex admits one call at a time, so two tasks show every
  conflict of a caller with a caller; one suffices where the other party is
  the work, suspend or removal.
* `Inputs`: the driver registers at most two.
* `Threshold = 3` is the code's constant. `MaxErrors = 3`: `report_errors` is
  only compared with the threshold and with 0, so it stays at the bound.
* `RecoveriesWrap = 2`: the counter is only ever incremented; wrapping after
  two shows the wrap (2^32 in C).
* `decode`: two contacts show packing, with the first finger out of range or
  not, and an area behind the end of a 34 byte packet, where the second is
  already missing. Offsets and lengths are the code's; coordinates have a
  lowest and a highest value and one beyond. The packets are all those of these
  fingers, also ones no controller sends; the decoder does not know.
* `Controllers`: two show a loop over controllers that fails half way.
* `Commands`: the command and the activation meet at every pair of steps; the
  monitor rebinds by the same code as a command, so it runs by itself
  (`monitor_alone`) and beside one command (`recovery_missed`). `Attended` is
  proved for any number of each.
* `BindTries = 2` stands for the five of `rebind_controller`: a last attempt
  and one that is not. `MaxCount`: the monitor compares two readings, so 0, 1
  and 2 give it a lower, an equal and a higher one.
* `firmware`: a controller of every page size, both transports, an unknown one;
  images of two to four pages with none, one or more that are not written
  (24 units are three pages of eight). The file is any size up to one unit more
  than required, its start address any unit of the flash and the one behind it.
  `WriteTries = 3` is the code's constant. The theorems are for
  any controllers and number of attempts.
* `backlog`: the code's grace, refresh and cooldown are 750 ms, 2 s and 5 s; what
  matters is that each is shorter than the next, and that passes may lie closer
  together than the grace period (the service makes one every 50 ms) or, after
  a long rebind, farther apart than the cooldown (`Lapses`).
  Two consumers are a stalled one beside one that is not. The theorems are for
  any consumers and times.
* Symmetry of tasks and of inputs (`MCDriver`) is used in the driver's runs that check invariants
  and step properties only; no run with a liveness property uses it.
* Deadlock is checked in every run.
* The types of `GuardianRebind` and `GuardianBacklog` are proved
  (`RebindTypeCorrect`, `BacklogTypeCorrect`), so no run repeats them; nor does
  `driver_ops` repeat for two tasks the exclusion that is proved for any number.

### Fairness

`LiveSpec` of `ElanDriver` assumes strong fairness of the work, of each call in progress, of
a close that waits and of the thread that suspends, and weak fairness of the
handler once it runs. A mutex queues its waiters, `disable_irq` and
`cancel_work_sync` keep new instances of what they wait for from starting, so
a thread whose wait ends again and again gets through. Nothing is assumed of
users (they need not call or close), of interrupts (they need not arrive), of
the controller (transfers may always fail; a firmware answer may never come)
or of the system (it need not suspend). A call interrupted by a signal is no
part of the fairness.

`LiveSpec` of `GuardianRebind` assumes weak fairness of each program in
progress (its waits end by a deadline, so some step of it is always enabled),
of the monitor's pass, which is a loop without end, of a running activation and
of the driver core, which probes what it has to. Nothing is assumed of users,
of the watchdog or of the outcome of a probe.

`LiveSpec` of `ElanFirmware` assumes weak fairness of the store: every wait in
it has a time limit. Transfers may fail for ever.

`GuardianBacklog` assumes weak fairness of the monitor's loop, and that a scan
of sysfs and of `/proc` does not fail for ever (strong fairness of `Wake` and of
`RefreshConsumers`). Nothing is assumed of consumers.

## 4. Proofs

`ElanDriver_proofs` proves, for every set of tasks, every finite set of
inputs, every threshold and wrap:

| Theorem | Property |
| --- | --- |
| `TypeCorrect` | `TypeOK` |
| `IrqAlwaysBalanced` | `IrqBalanced` |
| `FreedDataUnused` | `NoUseAfterFree` |
| `WatchdogDisarmed` | `DisarmedWhenClosed` |
| `OverlapIsConfined` | `OverlapConfined` |
| `NobodyWaitsInCircles` | `NoCircularWait` |
| `SerializedExclusive` | `ControlExclusive`, where `Serialized` |
| `PatchSleepUndisturbed` | `SleepUndisturbed`, for the patch's order |

`Serialized` says that the patch's order of suspend is used, or that the system
is not suspended at all; without it TLC refutes `ControlExclusive`
(`shim_suspend_race`). `OverlapIsConfined` says what remains true in the
module's own order: commands interleave only between a recovery and a
controller that is asleep or being resumed, everything else excludes each
other, and no report is read meanwhile. So that race is the only one of its kind.

`ElanDriverData_proofs` adds, with the same assumptions:

| Theorem | Property |
| --- | --- |
| `CalibrationTakenBack` | `CalibrationConfined` |
| `BaselinesOfOneAcquisition` | `BaselineCoherent` |
| `RecoveryReleasesInputs` | `InputsReleased` |
| `SerializedRestores` | `RecoveryRestoresChip`, where `Serialized` |
| `SerializedCounts` | `CountsRestored`, where `Serialized` |
| `DriverKeepsCounter` | `KeepsCounter`: `Spec => Counter!Spec` |

Assumptions: the named ones of `ElanDriver` (tasks and inputs are finite, the
threshold is positive, threads that are no task or input have names of their own), which TLC
evaluates in every run.

The argument. None of these properties is inductive. `IrqBalanced`, for
one, needs that at most one task has the interrupt disabled, which follows
from who holds the mutex, which follows from every thread's label. So the
proof abstracts every action to a *move* of one thread between labels
(`TaskMove`, `WorkMove`, `PmMove`, `OtherMove`): a move takes or gives back the
mutex and the interrupt line exactly as its two labels say. The inductive
invariant `DriverInv` is then

* `LockInv`: the mutex names exactly the thread whose label holds it;
* `DevInv`: what removal has waited for, stage by stage, stays over;
* `IrqBalanced` and `OpenCounted`: both counters are the size of what they
  count (this is why they are natural numbers in `TypeOK`);
* `IsrInv`: no handler runs while the line is disabled or firmware awaited;
* `PatchInv`: in the patch's order, cancelled work stays cancelled, since the
  handler that would queue it is off;
* `AwakeInv`: only a suspend that may happen begins;
* `SleepInv` and `DisarmedWhenClosed`.

Each is preserved by its own lemma (`LockStep` to `TypeStep`), `NextInv` puts
them together and `DriverInvariant` is the temporal step.

`NoCircularWait` is the safety behind the liveness properties of `driver_live`:
a set of threads of which each waits for another of the set would never go on.
The proof orders the threads so that each waits for an earlier one only. The
handler waits for nothing (it does not take the mutex); who holds the mutex
waits at most for the handler (`HolderWaits`, from `LockInv`: no label that
holds it is a wait for the mutex or for the work); the work for these; a call
and a closing input for the work or the mutex; suspend for them, and removal for
all.

The invariants of the data then follow from who may be driving the controller.
`BaseInv` needs the mutex: between the maximum and the minimum no other
acquisition starts over. `InputsReleased` needs the interrupt line: no handler
is inside a recovery. `RestoreInv` says what a recovery has achieved at each
phase; it needs that nobody calibrates (the mutex), that suspend and resume
touch the controller only while the work is idle (`PatchInv`), and that removal
cuts the supply only when no device is open (`ClosedInv`, with `OpenCounted`
and `DisarmedWhenClosed`), the work then being disarmed. `DriverKeepsCounter`
goes by `OnlyWorkCounts`: nothing but the work changes `recoveries` and nothing
but a probe clears it.

`ElanFirmware_proofs` proves, for every set of controllers with whole pages and
every number of attempts:

| Theorem | Property |
| --- | --- |
| `FirmwareTypeCorrect` | `TypeOK` |
| `PagesReadInFile` | `ReadsInFile` |
| `PagesWrittenUnlocked` | `WritesUnlocked` |
| `PagesWrittenInOrder` | `PagesInOrder` |
| `UpdateFailsForCause` | `FailsForCause` |
| `SuccessLeavesUsable` | `SuccessIsUsable` |
| `UpdateKeepsContract` | `KeepsContract`: `Spec => Contract!Spec` |
| `UpdateIsFinite` | the safety behind `UpdateReturns` |

The invariant `FirmwareInv` says what each label knows: in the loop, that the
file passed the check and the page is one to send (`Begun`); behind each
command of the I2C protocol, what it has established (`Unlocking`); and, as long
as nothing has failed, that the loader is ready and the pages before this one
are written (`UnfaultedLoader`, `UnfaultedPages`), from which it follows that,
with the right start address, the way to `abort` is closed. `SkippedNotNew` says
that no page before the first one holds what is in the file; so a whole
application was sent from its beginning (`WholeSent`), which is half of
`SuccessIsUsable`; the other half is that only a reset ends in `restarted`.
The refinement is by cases: a command changes no page
and is a stutter, a page is the contract's `Write` or, where the content stays
what it was, a stutter; success goes through `at = "reinit" => Whole`.
`UpdateIsFinite` gives the store a variant, `Remaining`: the distance of its label
from the end plus the attempts left to all its pages. No step but those of the
store happens while it runs, each of them leaves less, and it starts at most at
12 + pages * attempts. It holds although the two transports go through the same
commands in different orders.

`GuardianRebind_proofs` proves, for every set of controllers and commands and
every number of bind attempts:

| Theorem | Property |
| --- | --- |
| `RebindTypeCorrect` | `TypeOK` |
| `NoneLeftBehind` | `Attended` |
| `RebindsOnlyRecovered` | `OnlyRecovered`, where the monitor is the only program |
| `CounterAssumed` | `AssumesCounter`: each controller's counter is a `RecoveryCounter` |
| `CommandsOnlyAdvance` | the safety behind `RebindReturns` |

Assumptions: the services are the monitor and the activation, no command has
their names, `BindTries` is positive. `Attended` becomes inductive with
`Undertaken`: what the activation is about to unbind is among the controllers
it found bound, the ones it binds again if it fails. A step of one program
leaves to the others what they have undertaken, so every action is a step of
its own and needs no fact about its rivals. `OnlyRecovered` rests on
`SnapshotHolds`: while the monitor goes through the controllers it scanned they
stay bound with at least the recoveries it read. That is what fails beside a
rival, and why the theorem is about the monitor alone.

`CommandsOnlyAdvance` orders what a command has before it by the controllers
left, then the label, then the attempts to bind: each step of its own goes down
in that order and no step of another program touches it, so rivals can make a
rebind fail but not repeat.

`CounterAssumed` and `DriverKeepsCounter` refine one abstract specification from
its two sides. What `RecoveryCounter` does not promise is that a reader sees
every value: `recovery_missed` shows a probe between two readings.

`GuardianBacklog_proofs` proves, for every set of consumers and all times:

| Theorem | Property |
| --- | --- |
| `BacklogTypeCorrect` | `TypeOK` |
| `BacklogRebindsApart` | `RebindsApart` |
| `JudgedByReadySamples` | `ReadyThroughout` |

`RebindsApart` is not inductive: nothing in it says how old an entry may be.
`Rested` does: the last rebind is at least as old as the part of the cooldown
that is over, no sample is taken while it lasts, and so every entry is younger
than its end. It is why the observer must be cleared. `ReadyThroughout` is inductive
with the types: a sample that keeps an entry keeps its row of samples, and a search
that finds another descriptor marks the entry it leaves behind.

`PolicyAgreement_proofs` proves the three comparisons of the policies for
evidence of any size (`WatchdogsAgree`, `DiagnosesAgree`, `ExportsAgree`), from
the types alone and by cases.

`ElanDecode_proofs` proves, for every number of slots and every set of devices,
fingers and areas that satisfies the assumptions:

| Theorem | Property |
| --- | --- |
| `DecodeTypes` | `TypeOK` |
| `PacketsWhole` | `WholePackets` |
| `EmissionLikeC` | `EmitsLikeC` |

Assumptions: the shortest report has room for a record for each slot (29 of 32
bytes), the pressure adjustment is not negative, and an area times the width of
a trace stays below the C word. The invariant `DecodeInv` is that of the loop:
it has taken one record for each touched slot before the one it is at
(`CountBefore` counts them), so its packed record is the one C finds by its own
pointer (`AtRecord`); the frame holds what those slots are to hold
and nothing of the others; and no area was missing so far. At the end of the
loop that is the whole packet (`AllDecoded`), and `DecodesLikeC` compares one
slot with C's, where `NoWrap` is why the unsigned product is the product. The
loop is in the state, and not a fold over the slots, because an invariant of
steps can be proved and an induction over data cannot.

Only model-checked: the liveness properties; fairness and `ENABLED` are out of
the prover's reach. Of three of them the part that is safety is proved: an
update and a command cannot go on for ever (`UpdateIsFinite`,
`CommandsOnlyAdvance`), and the driver's threads cannot all wait for each other
(`NobodyWaitsInCircles`). What is left to the runs is that a step is enabled
and, with the fairness of section 3, taken.

## 5. Not modelled

* How bytes make up a coordinate, TrackPoint motion, register encodings, the
  bytes of a firmware page and the sums over them: no property tells them apart.
* Regulator use counts. `elan_resume` that fails to enable the supply leaves a
  count removal takes down once more; the counts belong to the regulator core,
  which is not part of the repository.
* Probe failures: they release what was acquired and leave the device unbound.
* Trace recording: a loop that reads counters and changes nothing it observes.
  Events are drained before the IRQ total is read, so an interrupt in between
  counts without its bytes; one at the very end of a trace with no other
  interrupt would be diagnosed as a stalled driver.
* The driver-state machines in `formal/`. They begin a recovery only of a
  `Faulted` device and know no count, while the driver also recovers a device
  that is active (`recover_store`) and starts the count again when a recovery
  has failed; no function of the driver's state follows their transitions.
* The search through `/proc` for consumers (which descriptors are open is the
  model's `desc`), the identity check after a module is loaded, the order
  systemd puts its units in, packaging, vendored crates.

## 6. Plan

1. `GuardianBacklog` with several controllers, whose common cooldown rests all
   of them.
2. `ElanTrace`: the order in which events and totals are read, against
   `Diagnose`.
3. Regulator use counts in `ElanDriver`, where suspend, resume and removal take
   and give back the supply.
