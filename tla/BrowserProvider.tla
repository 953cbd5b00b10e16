--------------------------- MODULE BrowserProvider ---------------------------
(***************************************************************************)
(* A provider whose body runs in browser tabs: v2/core/browser_provider.py *)
(* behind the endpoints of v2/api/routers/provider_jobs.py.                *)
(*                                                                         *)
(* execute() blocks a server thread on an event while the job waits in the *)
(* provider's pickup list; any tab holding the provider's key polls that   *)
(* list and delivers.  The wait, the deliveries of several tabs and the    *)
(* clean-up after the wait are separate critical sections of one lock.     *)
(* Prices, tiers and the sanction and Sybil screens of a registration are  *)
(* left out: they decide whether it happens, which is open here.           *)
(***************************************************************************)
EXTENDS Naturals, Sequences, SequencesExt

CONSTANTS
    BrowserJobs,    \* the jobs the auction may give to this provider
    Deliveries,     \* what tabs may deliver: results, and an empty body
    PickupLimit     \* max_n of open_pickups

\* What a tab delivers is not the mark of an empty holder, nor what execute
\* says of a wait.
ASSUME DeliveriesAreResults == Deliveries \cap {"unset", "none", "timeout", "error"} = {}

VARIABLES
    registered,     \* the provider is in the registry and in the auction
    fresh,          \* its last heartbeat is within HEARTBEAT_TTL_SEC
    pickups,        \* _open_pickups, whose ids are also the keys of _pending
    offered,        \* the jobs some tab has been shown
    run,            \* where the thread of execute is
    box,            \* result_holder and event of the pending entry
    told,           \* the deliveries answered "accepted"
    inTime,         \* the jobs with one accepted before the wait was over
    outcome         \* what execute returned

browserVars == <<registered, fresh, pickups, offered, run, box, told, inTime, outcome>>

BrowserInit ==
    /\ registered = FALSE /\ fresh = FALSE
    /\ pickups = <<>> /\ offered = {} /\ inTime = {}
    /\ run = [j \in BrowserJobs |-> "idle"]
    /\ box = [j \in BrowserJobs |-> "unset"]
    /\ told = [j \in BrowserJobs |-> {}]
    /\ outcome = [j \in BrowserJobs |-> "none"]

-----------------------------------------------------------------------------
\* The entry of a job is in _pending.
Pending(j) == \E i \in DOMAIN pickups : pickups[i] = j

\* list.remove: the first entry of the job goes.
Without(j) == RemoveAt(pickups, CHOOSE i \in DOMAIN pickups : pickups[i] = j)

\* deliver sets the event together with the result.
Signalled(j) == box[j] # "unset"

\* register, re-register and bid: a new or kept provider, its pending jobs intact.
RegisterProvider ==
    /\ registered' = TRUE /\ fresh' = TRUE
    /\ UNCHANGED <<pickups, offered, run, box, told, inTime, outcome>>

\* Ninety seconds pass without a sign of the tab.
GoStale ==
    /\ fresh /\ fresh' = FALSE
    /\ UNCHANGED <<registered, pickups, offered, run, box, told, inTime, outcome>>

Heartbeat ==
    /\ registered /\ fresh' = TRUE
    /\ UNCHANGED <<registered, pickups, offered, run, box, told, inTime, outcome>>

\* The provider bids, which it does only while fresh, and wins the job.
WinJob(j) ==
    /\ registered /\ fresh /\ run[j] = "idle"
    /\ run' = [run EXCEPT ![j] = "won"]
    /\ UNCHANGED <<registered, fresh, pickups, offered, box, told, inTime, outcome>>

\* execute: publish the job for pickup and start to wait.
StartExecute(j) ==
    /\ run[j] = "won"
    /\ run' = [run EXCEPT ![j] = "waiting"]
    /\ pickups' = Append(pickups, j)
    /\ UNCHANGED <<registered, fresh, offered, box, told, inTime, outcome>>

\* evt.wait returns True.
WakeUp(j) ==
    /\ run[j] = "waiting" /\ Signalled(j)
    /\ run' = [run EXCEPT ![j] = "woke"]
    /\ UNCHANGED <<registered, fresh, pickups, offered, box, told, inTime, outcome>>

\* A fault: the clock alone decides, whatever the event says.
TimeUpByClock(j) ==
    /\ run[j] = "waiting"
    /\ run' = [run EXCEPT ![j] = "expired"]
    /\ UNCHANGED <<registered, fresh, pickups, offered, box, told, inTime, outcome>>

\* evt.wait returns False: the time is up and the event is not set.
TimeUp(j) ==
    /\ run[j] = "waiting" /\ ~Signalled(j)
    /\ run' = [run EXCEPT ![j] = "expired"]
    /\ UNCHANGED <<registered, fresh, pickups, offered, box, told, inTime, outcome>>

\* execute after the wait: drop the entry, then report what the holder has
\* if the wait succeeded; an empty delivery is an error.
FinishExecute(j) ==
    /\ run[j] \in {"woke", "expired"}
    /\ pickups' = Without(j)
    /\ outcome' = [outcome EXCEPT ![j] = IF run[j] = "expired" THEN "timeout"
                                         ELSE IF box[j] = "empty" THEN "error" ELSE box[j]]
    /\ run' = [run EXCEPT ![j] = "returned"]
    /\ UNCHANGED <<registered, fresh, offered, box, told, inTime>>

\* open_jobs: an unknown tab is registered on the fly; the oldest entries are shown.
OpenJobs ==
    /\ registered' = TRUE /\ fresh' = TRUE
    /\ offered' = offered \cup {pickups[i] : i \in {k \in DOMAIN pickups : k <= PickupLimit}}
    /\ UNCHANGED <<pickups, run, box, told, inTime, outcome>>

\* deliver: taken while the entry is there, the last one standing; otherwise
\* the tab is told that the job is gone (410) and nothing changes.
Deliver(j, r) ==
    /\ registered /\ j \in offered /\ Pending(j)
    /\ box' = [box EXCEPT ![j] = r]
    /\ told' = [told EXCEPT ![j] = @ \cup {r}]
    /\ inTime' = IF run[j] = "waiting" THEN inTime \cup {j} ELSE inTime
    /\ fresh' = TRUE
    /\ UNCHANGED <<registered, pickups, offered, run, outcome>>

BrowserNext ==
    \/ RegisterProvider \/ GoStale \/ Heartbeat \/ OpenJobs
    \/ \E j \in BrowserJobs :
         \/ WinJob(j) \/ StartExecute(j) \/ WakeUp(j) \/ TimeUp(j) \/ FinishExecute(j)
         \/ \E r \in Deliveries : Deliver(j, r)

BrowserSpec == BrowserInit /\ [][BrowserNext]_browserVars

-----------------------------------------------------------------------------
BrowserTypeOK ==
    /\ registered \in BOOLEAN /\ fresh \in BOOLEAN
    /\ pickups \in Seq(BrowserJobs) /\ IsInjective(pickups)
    /\ offered \subseteq BrowserJobs /\ inTime \subseteq BrowserJobs
    /\ run \in [BrowserJobs -> {"idle", "won", "waiting", "woke", "expired", "returned"}]
    /\ box \in [BrowserJobs -> Deliveries \cup {"unset"}]
    /\ told \in [BrowserJobs -> SUBSET Deliveries]
    /\ outcome \in [BrowserJobs -> Deliveries \cup {"none", "timeout", "error"}]

\* Work accepted in time is never reported as a timeout, which would refund
\* the buyer; a timeout means that nothing was accepted in time; and a result
\* that is reported is one a tab was told was accepted.  Concerns the wait,
\* the clean-up and deliver, each under the lock on its own, and several tabs.
AcceptedInTime ==
    \A j \in BrowserJobs :
        run[j] = "returned" =>
            /\ outcome[j] = "timeout" <=> j \notin inTime
            /\ outcome[j] = "error" => "empty" \in told[j]
            /\ outcome[j] \notin {"timeout", "error"} => outcome[j] \in told[j]

=============================================================================
