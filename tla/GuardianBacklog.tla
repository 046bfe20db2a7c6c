---------------------------- MODULE GuardianBacklog ----------------------------
(***************************************************************************)
(* How the monitor decides that a consumer has stopped reading: it holds   *)
(* duplicates of the consumers' descriptors, polls them once in each pass, *)
(* and rebinds the controller when one has been ready for the grace        *)
(* period.  A cooldown follows a rebind that succeeded.                    *)
(*                                                                         *)
(* All times a pass looks at are those of its beginning, so that time      *)
(* advances between passes, by what the last one took and the sleep after  *)
(* it, and is kept as ages.  There is one controller; the rebind itself is *)
(* in GuardianRebind.                                                      *)
(***************************************************************************)
EXTENDS Integers

CONSTANTS
  Consumers,  \* ConsumerKey: process, number of the descriptor, event node
  Grace,      \* CONSUMER_BACKLOG_GRACE
  Refresh,    \* CONSUMER_REFRESH_INTERVAL
  Cooldown,   \* RECOVERY_COOLDOWN
  Lapses      \* times from one pass to the next

ASSUME TimesAssumption ==
  /\ Grace \in Nat \ {0} /\ Refresh \in Nat \ {0} /\ Cooldown \in Nat \ {0}
  /\ Lapses \subseteq Nat \ {0}

VARIABLES
  desc,       \* the consumer's descriptor: "closed", "drained", "unread"
  held,       \* the monitor's duplicate for the key: "none", "own" (of the
              \* descriptor above), "idle" or "unread" (of one that the
              \* consumer has closed), "dead" (its event node is gone)
  since,      \* BacklogObserver.ready_since: ages, at most Grace
  refreshed,  \* age of refreshed_at, Refresh when one is due
  cooldown,   \* what is left of it
  phase,      \* where the pass is
  rebound,    \* age of the pass of the last rebind that succeeded
  steady,     \* per key: how long no sample has found it anything but ready
  taken,      \* per key: how long duplicates of the descriptor that the
              \* last search found have been held
  reused      \* keys whose entry in `since' is of an earlier descriptor

history  == <<steady, taken, reused>>
observer == <<since, history>>
timers   == <<refreshed, cooldown, rebound>>
vars     == <<desc, held, observer, timers, phase>>

Never == Cooldown + Grace   \* the bound of `rebound': that long or longer

Least(a, b) == IF a < b THEN a ELSE b
Older(ages, e) == [k \in DOMAIN ages |-> Least(ages[k] + e, Grace)]
Zeros          == [k \in Consumers |-> 0]

Left(a, e) == IF a > e THEN a - e ELSE 0

Init ==
  /\ desc \in [Consumers -> {"closed", "drained"}]
  /\ held = [k \in Consumers |-> "none"]
  /\ since = [k \in {} |-> 0] /\ steady = Zeros /\ taken = Zeros /\ reused = {}
  /\ refreshed = Refresh /\ cooldown = 0 /\ rebound = Never
  /\ phase = "asleep"

---------------------------------------------------------------------------
(* The consumers and the kernel *)

(* An event reaches the descriptor and a duplicate of a closed one, which  *)
(* nobody reads.                                                           *)
Deliver(k) ==
  /\ desc[k] = "drained" \/ held[k] = "idle"
  /\ desc' = [desc EXCEPT ![k] = IF @ = "drained" THEN "unread" ELSE @]
  /\ held' = [held EXCEPT ![k] = IF @ = "idle" THEN "unread" ELSE @]

Drain(k) ==
  /\ desc[k] = "unread"
  /\ desc' = [desc EXCEPT ![k] = "drained"]
  /\ UNCHANGED held

Close(k) ==
  /\ desc[k] # "closed"
  /\ desc' = [desc EXCEPT ![k] = "closed"]
  /\ held' = [held EXCEPT ![k] =
                IF @ # "own" THEN @
                ELSE IF desc[k] = "unread" THEN "unread" ELSE "idle"]

(* The lowest free number is the one that was closed: the key is the same. *)
Open(k) ==
  /\ desc[k] = "closed"
  /\ desc' = [desc EXCEPT ![k] = "drained"]
  /\ UNCHANGED held

(* The event nodes go with the binding, and every descriptor with them. *)
Unplug ==
  /\ desc' = [k \in Consumers |-> "closed"]
  /\ held' = [k \in Consumers |-> IF held[k] = "none" THEN "none" ELSE "dead"]

Environment ==
  /\ \/ \E k \in Consumers : Deliver(k) \/ Drain(k) \/ Close(k) \/ Open(k)
     \/ Unplug
  /\ UNCHANGED <<observer, timers, phase>>

---------------------------------------------------------------------------
(* monitor *)

Lapse(e) ==
  /\ since' = Older(since, e)
  /\ steady' = Older(steady, e) /\ taken' = Older(taken, e)
  /\ refreshed' = Least(refreshed + e, Refresh)
  /\ cooldown' = Left(cooldown, e)
  /\ rebound' = Least(rebound + e, Never)
  /\ UNCHANGED reused

Wake ==
  /\ phase = "asleep" /\ phase' = "scanned"
  /\ \E e \in Lapses : Lapse(e)
  /\ UNCHANGED <<desc, held>>

ScanFails ==
  /\ phase = "asleep"
  /\ \E e \in Lapses : Lapse(e)
  /\ UNCHANGED <<desc, held, phase>>

(* Mutant: the observer is not cleared. *)
ForgetConsumers ==
  /\ held' = [k \in Consumers |-> "none"] /\ refreshed' = Refresh
  /\ UNCHANGED observer

(* backlog.clear and consumers.force_refresh *)
Forget ==
  /\ held' = [k \in Consumers |-> "none"] /\ refreshed' = Refresh
  /\ since' = [k \in {} |-> 0]
  /\ steady' = Zeros /\ taken' = Zeros /\ reused' = {}

Rebound ==
  /\ desc' = [k \in Consumers |-> "closed"]
  /\ cooldown' = Cooldown /\ rebound' = 0

(* The kernel has recovered the controller, and the rebind succeeds. *)
CounterRebind ==
  /\ phase = "scanned" /\ phase' = "asleep"
  /\ Rebound /\ Forget

Rest ==
  /\ phase = "scanned" /\ cooldown > 0 /\ phase' = "asleep"
  /\ Forget
  /\ UNCHANGED <<desc, cooldown, rebound>>

Due == phase = "scanned" /\ cooldown = 0 /\ refreshed = Refresh

NotDue ==
  /\ phase = "scanned" /\ cooldown = 0 /\ refreshed < Refresh
  /\ phase' = "sample"
  /\ UNCHANGED <<desc, held, observer, timers>>

(* Every open descriptor is duplicated anew; the observer is not told. *)
RefreshConsumers ==
  /\ Due /\ phase' = "sample"
  /\ held' = [k \in Consumers |-> IF desc[k] = "closed" THEN "none" ELSE "own"]
  /\ refreshed' = 0
  /\ taken' = [k \in Consumers |-> IF held[k] = "own" THEN taken[k] ELSE 0]
  /\ reused' = reused \cup {k \in DOMAIN since : held[k] # "own"}
  /\ UNCHANGED <<desc, since, steady, cooldown, rebound>>

RefreshFails ==
  /\ Due /\ phase' = "sample"
  /\ UNCHANGED <<desc, held, observer, timers>>

Ready == {k \in Consumers : \/ held[k] = "unread"
                            \/ held[k] = "own" /\ desc[k] = "unread"}
Alive == {k \in Consumers : held[k] \notin {"none", "dead"}}

(* Mutant: an idle sample leaves the entry. *)
ObservedIdle(ages) ==
  [k \in Ready \cup (DOMAIN ages \cap Alive) |->
     IF k \in DOMAIN ages THEN ages[k] ELSE 0]

(* Mutant: the entry is written anew with every sample. *)
ObservedAnew(ages) == [k \in Ready |-> 0]

(* Ages of entries that are there stay, new ones begin. *)
Observed(ages) == [k \in Ready |-> IF k \in DOMAIN ages THEN ages[k] ELSE 0]

(* Without consumers the observer is left as it is. *)
Nobody ==
  /\ phase = "sample" /\ \A k \in Consumers : held[k] = "none"
  /\ phase' = "asleep"
  /\ UNCHANGED <<desc, held, observer, timers>>

Observe ==
  /\ phase = "sample" /\ \E k \in Consumers : held[k] # "none"
  /\ held' = [k \in Consumers |-> IF k \in Alive THEN held[k] ELSE "none"]
  /\ since' = Observed(since)
  /\ steady' = [k \in Consumers |-> IF k \in Ready THEN steady[k] ELSE 0]
  /\ reused' = reused \cap DOMAIN since'
  /\ UNCHANGED taken
  /\ phase' = IF \E k \in Ready : since'[k] >= Grace THEN "rebind" ELSE "asleep"
  /\ UNCHANGED <<desc, timers>>

BacklogRebind ==
  /\ phase = "rebind" /\ phase' = "asleep"
  /\ Rebound /\ Forget

(* With the controller unbound or not; there is no cooldown. *)
BacklogRebindFails ==
  /\ phase = "rebind" /\ phase' = "asleep"
  /\ UNCHANGED desc \/ desc' = [k \in Consumers |-> "closed"]
  /\ Forget
  /\ UNCHANGED <<cooldown, rebound>>

Pass == \/ Wake \/ ScanFails \/ CounterRebind \/ Rest \/ NotDue
        \/ RefreshConsumers \/ RefreshFails \/ Nobody \/ Observe
        \/ BacklogRebind \/ BacklogRebindFails

Next == Environment \/ Pass

(* The monitor runs on; a scan of sysfs or of /proc does not fail for ever. *)
Fairness == WF_vars(Pass) /\ SF_vars(Wake) /\ SF_vars(RefreshConsumers)

Spec == Init /\ [][Next]_vars /\ Fairness

---------------------------------------------------------------------------

Ages(n) == UNION {[S -> 0 .. n] : S \in SUBSET Consumers}

TypeOK ==
  /\ desc \in [Consumers -> {"closed", "drained", "unread"}]
  /\ held \in [Consumers -> {"none", "own", "idle", "unread", "dead"}]
  /\ since \in Ages(Grace) /\ reused \subseteq Consumers
  /\ steady \in [Consumers -> 0 .. Grace] /\ taken \in [Consumers -> 0 .. Grace]
  /\ refreshed \in 0 .. Refresh /\ cooldown \in 0 .. Cooldown
  /\ rebound \in 0 .. Never
  /\ phase \in {"asleep", "scanned", "sample", "rebind"}

(* However long a rebind takes, one for a backlog begins no sooner than    *)
(* the cooldown and the grace period after the pass of the last rebind     *)
(* that succeeded: what was seen before it is forgotten.                   *)
RebindsApart == phase = "rebind" => rebound >= Cooldown + Grace

(* No consumer is judged by more than was seen of it: since an entry began *)
(* no sample has found its key idle, dead or missing, and it is no older   *)
(* than the duplicates of the descriptor the monitor holds, unless the     *)
(* entry is an earlier descriptor's of the same key.                       *)
ReadyThroughout ==
  \A k \in DOMAIN since : /\ since[k] <= steady[k]
                          /\ k \notin reused => since[k] <= taken[k]

(* A consumer that no longer reads is answered by a rebind. *)
StallAnswered ==
  \A k \in Consumers :
    desc[k] = "unread" ~> desc[k] # "unread" \/ phase = "rebind"

=============================================================================
