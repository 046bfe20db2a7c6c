---------------------------- MODULE GuardianRebind ----------------------------
(***************************************************************************)
(* The programs of elan-guardian that bind and unbind controllers through  *)
(* sysfs, running at once: the monitor (elan-guardian watch), any number   *)
(* of recover commands (started by a user, after resume or by udev) and    *)
(* the activation of the installed kernel module.  Nothing locks them out  *)
(* of each other; they see one another only in the state of the driver.    *)
(*                                                                         *)
(* A step is one access to sysfs, or a wait seen from its end.  A waiting  *)
(* program polls, so it goes on in any state that satisfies it and gives   *)
(* up in any state that does not.  A controller publishes its event nodes  *)
(* while it is probed.                                                     *)
(***************************************************************************)
EXTENDS Integers, FiniteSets

CONSTANTS
  Controllers,  \* I2C identifiers of controllers that elan_i2c matches
  Commands,     \* processes that run elan-guardian recover
  Services,     \* which of "monitor" and "activator" run
  BindTries,    \* bind attempts of a rebind (five in the code)
  MaxCount      \* a controller recovers at most so often between two probes

Programs == Commands \cup Services

ASSUME ServicesAssumption == Services \subseteq {"monitor", "activator"}
ASSUME CommandsAssumption == Commands \cap {"monitor", "activator"} = {}
ASSUME BoundsAssumption   == BindTries \in Nat \ {0} /\ MaxCount \in Nat

VARIABLES
  module,   \* the loaded elan_i2c: "stale", "unloaded" or "current"
  bound,    \* controllers bound to the driver
  count,    \* recoveries= in runtime_watchdog, while bound
  probing,  \* controllers the driver core is still to probe after a load
  refused,  \* controllers whose last probe failed
  at,       \* per program: the label of its next step
  target,   \* per program: the controller it is working on
  todo,     \* per program: the controllers it has yet to go through
  how,      \* per program: "recover" or "rebind"
  tries,    \* per program: failed bind attempts
  snap,     \* counts the monitor read in this pass; Absent if not bound
  seen,     \* RecoveryObserver.seen
  quiet,    \* recovered_this_pass, or consumers have been looked at
  unbinds,  \* controllers the activation found bound
  failed    \* the activation failed to unbind one of them

kernelVars  == <<module, bound, count, probing, refused>>
programVars == <<at, target, todo, how, tries>>
monitorVars == <<snap, seen, quiet>>
activeVars  == <<unbinds, failed>>
vars == <<kernelVars, programVars, monitorVars, activeVars>>

Absent == -1

CommandLabels == {"idle", "next", "inplace", "write", "nodes", "check",
                  "unbind", "gone", "bind", "attached"}
ActiveLabels  == {"idle", "act_check", "act_unbind", "act_remove",
                  "act_restore", "act_load", "act_wait"}

Init ==
  /\ module = IF "activator" \in Services THEN "stale" ELSE "current"
  /\ bound = Controllers /\ probing = {} /\ refused = {}
  /\ count = [c \in Controllers |-> 0]
  /\ at = [p \in Programs |-> "idle"]
  /\ \E c \in Controllers : target = [p \in Programs |-> c]
  /\ todo = [p \in Programs |-> {}]
  /\ how = [p \in Programs |-> "rebind"]
  /\ tries = [p \in Programs |-> 0]
  /\ snap = [c \in Controllers |-> Absent]
  /\ seen = [c \in Controllers |-> 0]
  /\ quiet = FALSE /\ unbinds = {} /\ failed = FALSE

---------------------------------------------------------------------------
(* The kernel *)

(* Mutant: a probe does not start the counter afresh. *)
ProbeOkKeepCount(c) ==
  /\ bound' = bound \cup {c}
  /\ UNCHANGED count
  /\ refused' = refused \ {c}

(* A probe starts the controller's counters afresh; it may fail. *)
ProbeOk(c) ==
  /\ bound' = bound \cup {c}
  /\ count' = [count EXCEPT ![c] = 0]
  /\ refused' = refused \ {c}

ProbeFails(c) ==
  /\ refused' = refused \cup {c}
  /\ UNCHANGED <<bound, count>>

(* The watchdog has recovered a controller in place. *)
KernelRecovery(c) ==
  /\ c \in bound /\ count[c] < MaxCount
  /\ count' = [count EXCEPT ![c] = @ + 1]
  /\ UNCHANGED <<module, bound, probing, refused, programVars, monitorVars,
                 activeVars>>

(* The driver core probes the devices of a driver just registered. *)
AutoProbe(c) ==
  /\ c \in probing
  /\ probing' = probing \ {c}
  /\ IF c \in bound THEN UNCHANGED <<bound, count, refused>>
                    ELSE ProbeOk(c) \/ ProbeFails(c)
  /\ UNCHANGED <<module, programVars, monitorVars, activeVars>>

---------------------------------------------------------------------------
(* recover and rebind_controller, for program p and controller target[p] *)

Goto(p, from, to) == at[p] = from /\ at' = [at EXCEPT ![p] = to]

(* Mutant: the monitor does not forget the count after a rebind. *)
SucceedKeepSeen(p, from) ==
  /\ Goto(p, from, "next")
  /\ quiet' = (quiet \/ p = "monitor")
  /\ UNCHANGED <<target, todo, how, tries, snap, seen, activeVars>>

(* A command ends at its first failure; the monitor goes on.  It forgets   *)
(* the count of a controller it has rebound.                               *)
Succeed(p, from) ==
  /\ Goto(p, from, "next")
  /\ IF p = "monitor" THEN /\ seen' = [seen EXCEPT ![target[p]] = 0]
                           /\ quiet' = TRUE
                      ELSE UNCHANGED <<seen, quiet>>
  /\ UNCHANGED <<target, todo, how, tries, snap, activeVars>>

Fail(p, from) ==
  /\ IF p = "monitor"
     THEN Goto(p, from, "next") /\ UNCHANGED todo
     ELSE Goto(p, from, "idle") /\ todo' = [todo EXCEPT ![p] = {}]
  /\ UNCHANGED <<target, how, tries, monitorVars, activeVars>>

Move(p, from, to) ==
  /\ Goto(p, from, to)
  /\ UNCHANGED <<target, todo, how, tries, monitorVars, activeVars>>

(* recover: only a bound controller; in place first. *)
InPlace(p) ==
  /\ \/ target[p] \in bound /\ Move(p, "inplace", "write")
     \/ target[p] \in bound /\ Move(p, "inplace", "check")   \* no attribute
     \/ target[p] \notin bound /\ Fail(p, "inplace")
  /\ UNCHANGED kernelVars

InPlaceWrite(p) ==
  /\ \/ target[p] \in bound /\ Move(p, "write", "nodes")
     \/ Move(p, "write", "check")
  /\ UNCHANGED kernelVars

InPlaceNodes(p) ==
  /\ \/ target[p] \in bound /\ Succeed(p, "nodes")
     \/ target[p] \notin bound /\ Move(p, "nodes", "check")
  /\ UNCHANGED kernelVars

(* rebind_controller: needs the driver's directory, unbinds what is bound. *)
RebindCheck(p) ==
  /\ \/ module = "unloaded" /\ Fail(p, "check")
     \/ module # "unloaded" /\ target[p] \in bound /\ Move(p, "check", "unbind")
     \/ module # "unloaded" /\ target[p] \notin bound /\ Move(p, "check", "gone")
  /\ UNCHANGED kernelVars

RebindUnbind(p) ==
  /\ \/ target[p] \in bound /\ Move(p, "unbind", "gone")
     \/ target[p] \notin bound /\ Fail(p, "unbind")
  /\ bound' = bound \ {target[p]}
  /\ UNCHANGED <<module, count, probing, refused>>

RebindGone(p) ==
  /\ \/ /\ target[p] \notin bound /\ Goto(p, "gone", "bind")
        /\ tries' = [tries EXCEPT ![p] = 0]
        /\ UNCHANGED <<target, todo, how, monitorVars, activeVars>>
     \/ target[p] \in bound /\ Fail(p, "gone")
  /\ UNCHANGED kernelVars

(* Mutant: attempts until one succeeds. *)
BindAgainForever(p) ==
  /\ at[p] = "bind"
  /\ UNCHANGED <<programVars, monitorVars, activeVars>>

(* Another attempt, or the end after the last. *)
BindAgain(p) ==
  \/ /\ tries[p] + 1 < BindTries
     /\ at[p] = "bind" /\ tries' = [tries EXCEPT ![p] = @ + 1]
     /\ UNCHANGED <<at, target, todo, how, monitorVars, activeVars>>
  \/ tries[p] + 1 = BindTries /\ Fail(p, "bind")

(* bind fails if the driver is gone, if the controller is bound already or *)
(* if its probe fails.                                                     *)
RebindBind(p) ==
  LET c == target[p] IN
  /\ \/ /\ module = "unloaded" \/ c \in bound
        /\ BindAgain(p) /\ UNCHANGED <<bound, count, refused>>
     \/ /\ module # "unloaded" /\ c \notin bound
        /\ \/ ProbeOk(c) /\ Move(p, "bind", "attached")
           \/ ProbeFails(c) /\ BindAgain(p)
  /\ UNCHANGED <<module, probing>>

RebindAttached(p) ==
  /\ \/ target[p] \in bound /\ Succeed(p, "attached")
     \/ target[p] \notin bound /\ Fail(p, "attached")
  /\ UNCHANGED kernelVars

Recover(p) == InPlace(p) \/ InPlaceWrite(p) \/ InPlaceNodes(p)
Rebind(p)  == \/ RebindCheck(p) \/ RebindUnbind(p) \/ RebindGone(p)
              \/ RebindBind(p) \/ RebindAttached(p)

---------------------------------------------------------------------------
(* elan-guardian recover: the controllers named by --device, or those      *)
(* bound when it starts.                                                   *)

CommandStart(p) ==
  /\ p \in Commands /\ Goto(p, "idle", "next")
  /\ \E requested \in SUBSET Controllers :
        requested # {} /\ todo' = [todo EXCEPT ![p] = requested]
  /\ \E h \in {"recover", "rebind"} : how' = [how EXCEPT ![p] = h]
  /\ UNCHANGED <<kernelVars, target, tries, monitorVars, activeVars>>

CommandNext(p) ==
  /\ p \in Commands
  /\ \/ \E c \in todo[p] :
           /\ target' = [target EXCEPT ![p] = c]
           /\ todo' = [todo EXCEPT ![p] = @ \ {c}]
           /\ Goto(p, "next", IF how[p] = "rebind" THEN "check" ELSE "inplace")
     \/ todo[p] = {} /\ Goto(p, "next", "idle") /\ UNCHANGED <<target, todo>>
  /\ UNCHANGED <<kernelVars, how, tries, monitorVars, activeVars>>

---------------------------------------------------------------------------
(* One pass of the monitor *)

MonitorScan ==
  /\ Goto("monitor", "idle", "next")
  /\ module # "unloaded"
  /\ snap' = [c \in Controllers |-> IF c \in bound THEN count[c] ELSE Absent]
  /\ todo' = [todo EXCEPT !["monitor"] = bound]
  /\ quiet' = FALSE
  /\ UNCHANGED <<kernelVars, target, how, tries, seen, activeVars>>

(* Mutant: a count that has not grown is taken for a recovery. *)
MonitorObserveEqual(c) ==
  /\ c \in todo["monitor"]
  /\ todo' = [todo EXCEPT !["monitor"] = @ \ {c}]
  /\ seen' = [seen EXCEPT ![c] = snap[c]]
  /\ target' = [target EXCEPT !["monitor"] = c]
  /\ Goto("monitor", "next", IF snap[c] >= seen[c] THEN "check" ELSE "next")
  /\ UNCHANGED <<kernelVars, how, tries, snap, quiet, activeVars>>

(* observe_recovery: a count above the one seen last calls for a rebind. *)
MonitorObserve(c) ==
  /\ c \in todo["monitor"]
  /\ todo' = [todo EXCEPT !["monitor"] = @ \ {c}]
  /\ seen' = [seen EXCEPT ![c] = snap[c]]
  /\ target' = [target EXCEPT !["monitor"] = c]
  /\ Goto("monitor", "next", IF snap[c] > seen[c] THEN "check" ELSE "next")
  /\ UNCHANGED <<kernelVars, how, tries, snap, quiet, activeVars>>

(* In a pass without a rebind a stalled consumer calls for one. *)
MonitorStall(c) ==
  /\ todo["monitor"] = {} /\ ~quiet
  /\ snap[c] # Absent
  /\ Goto("monitor", "next", "check")
  /\ target' = [target EXCEPT !["monitor"] = c]
  /\ quiet' = TRUE
  /\ UNCHANGED <<kernelVars, todo, how, tries, snap, seen, activeVars>>

MonitorEnd ==
  /\ todo["monitor"] = {}
  /\ Goto("monitor", "next", "idle")
  /\ UNCHANGED <<kernelVars, target, todo, how, tries, monitorVars, activeVars>>

Monitor == /\ "monitor" \in Services
           /\ \/ MonitorScan \/ MonitorEnd
              \/ \E c \in Controllers : MonitorObserve(c) \/ MonitorStall(c)

---------------------------------------------------------------------------
(* elan-guardian activate-module *)

AGoto(from, to) == Goto("activator", from, to) /\ UNCHANGED <<how, tries>>
ATodo(set)      == todo' = [todo EXCEPT !["activator"] = set]

ActivateStart ==
  /\ \/ module = "stale" /\ AGoto("idle", "act_check")
        /\ unbinds' = bound /\ ATodo(bound)
     \/ module = "unloaded" /\ AGoto("idle", "act_load")
        /\ unbinds' = {} /\ ATodo({})
  /\ failed' = FALSE
  /\ UNCHANGED <<kernelVars, target, monitorVars>>

(* unbind_controllers looks whether each is bound, then unbinds it. *)
ActivateCheck ==
  /\ \E c \in todo["activator"] :
        /\ target' = [target EXCEPT !["activator"] = c]
        /\ ATodo(todo["activator"] \ {c})
        /\ AGoto("act_check", IF c \in bound THEN "act_unbind" ELSE "act_check")
  /\ UNCHANGED <<kernelVars, monitorVars, activeVars>>

ActivateUnbind ==
  LET c == target["activator"] IN
  /\ AGoto("act_unbind", "act_check")
  /\ failed' = (failed \/ c \notin bound)
  /\ bound' = bound \ {c}
  /\ UNCHANGED <<module, count, probing, refused, target, todo, monitorVars,
                 unbinds>>

(* Mutant: after a failed unbind only the controllers still bound count. *)
ActivateUnboundForget ==
  /\ todo["activator"] = {}
  /\ IF failed THEN AGoto("act_check", "act_restore") /\ ATodo(bound)
               ELSE AGoto("act_check", "act_remove") /\ UNCHANGED todo
  /\ UNCHANGED <<kernelVars, target, monitorVars, activeVars>>

(* One failure and the controllers found bound are bound again, the module *)
(* stays.                                                                  *)
ActivateUnbound ==
  /\ todo["activator"] = {}
  /\ IF failed THEN AGoto("act_check", "act_restore") /\ ATodo(unbinds)
               ELSE AGoto("act_check", "act_remove") /\ UNCHANGED todo
  /\ UNCHANGED <<kernelVars, target, monitorVars, activeVars>>

(* modprobe -r takes what is bound with it. *)
ActivateRemove ==
  /\ \/ AGoto("act_remove", "act_load")
        /\ module' = "unloaded" /\ bound' = {} /\ UNCHANGED todo
     \/ AGoto("act_remove", "act_restore")
        /\ ATodo(unbinds) /\ UNCHANGED <<module, bound>>
  /\ UNCHANGED <<count, probing, refused, target, monitorVars, activeVars>>

(* rebind_controllers tries once, whatever comes of it. *)
ActivateRestore ==
  /\ \/ \E c \in todo["activator"] :
           /\ ATodo(todo["activator"] \ {c}) /\ AGoto("act_restore", "act_restore")
           /\ IF c \in bound THEN UNCHANGED <<bound, count, refused>>
                             ELSE ProbeOk(c) \/ ProbeFails(c)
     \/ /\ todo["activator"] = {} /\ AGoto("act_restore", "idle")
        /\ UNCHANGED <<todo, bound, count, refused>>
  /\ UNCHANGED <<module, probing, target, monitorVars, activeVars>>

ActivateLoad ==
  /\ \/ /\ AGoto("act_load", "act_wait")
        /\ module' = "current" /\ probing' = Controllers /\ ATodo(unbinds)
     \/ AGoto("act_load", "idle") /\ UNCHANGED <<module, probing, todo>>
  /\ UNCHANGED <<bound, count, refused, target, monitorVars, activeVars>>

(* The driver core binds; activation only waits, for one after another. *)
ActivateWait ==
  /\ \/ \E c \in todo["activator"] :
           /\ c \in bound
           /\ ATodo(todo["activator"] \ {c}) /\ AGoto("act_wait", "act_wait")
     \/ /\ todo["activator"] = {} \/ ~(todo["activator"] \subseteq bound)
        /\ AGoto("act_wait", "idle") /\ ATodo({})
  /\ UNCHANGED <<kernelVars, target, monitorVars, activeVars>>

Activate ==
  /\ "activator" \in Services
  /\ \/ ActivateStart \/ ActivateCheck \/ ActivateUnbind \/ ActivateUnbound
     \/ ActivateRemove \/ ActivateRestore \/ ActivateLoad \/ ActivateWait

---------------------------------------------------------------------------

Continue(p) == Recover(p) \/ Rebind(p) \/ CommandNext(p)

Next == \/ \E c \in Controllers : KernelRecovery(c) \/ AutoProbe(c)
        \/ \E p \in Programs \ {"activator"} : CommandStart(p) \/ Continue(p)
        \/ Monitor \/ Activate

Spec == Init /\ [][Next]_vars

---------------------------------------------------------------------------
(* Safety *)

(* Every variable stays in its type. *)
TypeOK ==
  /\ module \in {"stale", "unloaded", "current"}
  /\ bound \subseteq Controllers
  /\ count \in [Controllers -> 0 .. MaxCount]
  /\ probing \subseteq Controllers /\ refused \subseteq Controllers
  /\ at \in [Programs -> CommandLabels \cup ActiveLabels]
  /\ target \in [Programs -> Controllers]
  /\ todo \in [Programs -> SUBSET Controllers]
  /\ how \in [Programs -> {"recover", "rebind"}]
  /\ tries \in [Programs -> 0 .. BindTries - 1]
  /\ snap \in [Controllers -> {Absent} \cup 0 .. MaxCount]
  /\ seen \in [Controllers -> {Absent} \cup 0 .. MaxCount]
  /\ quiet \in BOOLEAN /\ failed \in BOOLEAN
  /\ unbinds \subseteq Controllers

(* Program p has undertaken to bind controller c. *)
Binds(p, c) ==
  \/ target[p] = c /\ at[p] \in {"gone", "bind"}
  \/ /\ p = "activator" /\ c \in unbinds
     /\ at[p] \in {"act_check", "act_unbind", "act_remove"}
  \/ p = "activator" /\ c \in todo[p] /\ at[p] = "act_restore"

(* However the programs get in each other's way, they leave no controller  *)
(* behind: one that is unbound is still to be bound by some program or by  *)
(* the driver core, unless its last probe failed or no driver is loaded.   *)
Attended ==
  \A c \in Controllers \ bound :
     \/ module = "unloaded" \/ c \in probing \/ c \in refused
     \/ \E p \in Programs : Binds(p, c)

(* The monitor, running alone, rebinds a controller for its counter only   *)
(* if the kernel has recovered it since it was probed.                     *)
OnlyRecovered ==
  [][at["monitor"] = "next" /\ at'["monitor"] = "check" /\ todo["monitor"] # {}
       => /\ target'["monitor"] \in bound
          /\ count[target'["monitor"]] > 0]_vars

(* What the programs assume of a controller's counter is what the driver   *)
(* promises (ElanDriver), however they unbind and bind.                    *)
Counter(c) == INSTANCE RecoveryCounter
                WITH Wrap <- MaxCount + 1,
                     reading <- IF c \in bound THEN count[c] ELSE Absent

AssumesCounter ==
  /\ \A c \in Controllers : Counter(c)!Init
  /\ [][\A c \in Controllers : [Counter(c)!Next]_(Counter(c)!vars)]_vars

---------------------------------------------------------------------------
(* Liveness: programs run on, the driver core probes what it has to; no    *)
(* one need start a command or an activation, and the monitor polls.       *)

Fairness ==
  /\ \A p \in Programs \ {"activator"} : WF_vars(Continue(p))
  /\ WF_vars(Monitor)
  /\ WF_vars(Activate /\ at["activator"] # "idle")
  /\ \A c \in Controllers : WF_vars(AutoProbe(c))

LiveSpec == Spec /\ Fairness

(* Every rebind comes to an end, whoever else binds or unbinds meanwhile:  *)
(* each of its waits has a deadline.                                       *)
RebindReturns ==
  \A p \in Commands : at[p] # "idle" ~> at[p] = "idle"

(* A recovery the kernel has counted is answered by a rebind. *)
RecoveryAnswered ==
  \A c \in Controllers :
     (c \in bound /\ count[c] > 0) ~> (c \notin bound \/ count[c] = 0)

=============================================================================
