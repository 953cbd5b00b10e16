------------------------------ MODULE TaskRouter ------------------------------
(***************************************************************************)
(* The asking half of v2/core/task_router.py: a job is sent to as many     *)
(* peers as its redundancy asks for, their results come back as messages,  *)
(* and a watchdog answers the caller when the deadline passes first.       *)
(*                                                                         *)
(* Every submit starts a dispatch thread and every dispatch a watchdog     *)
(* thread; both race with the message handler and with a CANCEL from any   *)
(* peer.  Which peers satisfy a requirement, and how they score, is left   *)
(* open; that quarantined peers are used only when nobody else is left is  *)
(* kept.  A result is one of Outputs or "error".                           *)
(***************************************************************************)
EXTENDS Naturals, FiniteSets, Sequences

CONSTANTS Tasks, Workers, Outputs, Redundancy

VARIABLES
    nodes,      \* controller.nodes: the peers registered so far
    sick,       \* peers inside their quarantine (_is_quarantined)
    inflight,   \* _inflight[job_id]: absent, not completed, completed, popped
    thread,     \* the thread that submit starts for the task
    mail,       \* submit and result messages on their way
    results,    \* _InflightTask.results, in the order they were recorded
    answers     \* what the caller's callback was called with

routerVars == <<nodes, sick, inflight, thread, mail, results, answers>>

Payloads == Outputs \cup {"error"}
Mails == [type: {"submit"}, task: Tasks, worker: Workers]
           \cup [type: {"result"}, task: Tasks, worker: Workers, payload: Payloads]

RouterInit ==
    /\ nodes = {} /\ sick = {} /\ mail = {}
    /\ inflight = [t \in Tasks |-> "none"]
    /\ thread = [t \in Tasks |-> "none"]
    /\ results = [t \in Tasks |-> <<>>]
    /\ answers = [t \in Tasks |-> <<>>]

-----------------------------------------------------------------------------
\* A fault: the completed flag is not read.
IsKept(t) == inflight[t] \in {"open", "done"}

\* A task still in _inflight whose completed flag is down.
IsOpen(t) == inflight[t] = "open"

\* _finalize: the first answer completes the task and reaches the callback.
Finalize(t, p) ==
    IF IsOpen(t)
    THEN /\ inflight' = [inflight EXCEPT ![t] = "done"]
         /\ answers' = [answers EXCEPT ![t] = Append(@, p)]
    ELSE UNCHANGED <<inflight, answers>>

\* _reduce_redundant_results: the most common success, the earliest on a tie;
\* the first result when none succeeded.
Majority(rs) ==
    LET wins == {i \in DOMAIN rs : rs[i] # "error"}
        times(i) == Cardinality({j \in wins : rs[j] = rs[i]})
    IN  IF wins = {} THEN rs[1]
        ELSE rs[CHOOSE i \in wins :
                  \A j \in wins : \/ times(j) < times(i)
                                  \/ times(j) = times(i) /\ i <= j]

\* _select_peers: the eligible ones, without the quarantined if any is left.
Pool(eligible) == IF eligible \subseteq sick THEN eligible ELSE eligible \ sick

-----------------------------------------------------------------------------
Submit(t) ==
    /\ inflight[t] = "none"
    /\ inflight' = [inflight EXCEPT ![t] = "open"]
    /\ thread' = [thread EXCEPT ![t] = "dispatch"]
    /\ UNCHANGED <<nodes, sick, mail, results, answers>>

\* A peer registers with the controller, which takes no router lock.
JoinMesh(w) ==
    /\ w \notin nodes
    /\ nodes' = nodes \cup {w}
    /\ UNCHANGED <<sick, inflight, thread, mail, results, answers>>

\* A health snapshot with an illegal access, and the end of the quarantine.
Quarantine(w) ==
    /\ w \in nodes
    /\ sick' = IF w \in sick THEN sick \ {w} ELSE sick \cup {w}
    /\ UNCHANGED <<nodes, inflight, thread, mail, results, answers>>

\* _dispatch_async of a task that a CANCEL popped before the thread looked; one
\* popped after that goes the ways below.
DispatchPopped(t) ==
    /\ thread[t] = "dispatch" /\ inflight[t] = "popped"
    /\ thread' = [thread EXCEPT ![t] = "ended"]
    /\ UNCHANGED <<nodes, sick, inflight, mail, results, answers>>

\* A fault: the dispatch returns without telling the caller.
DispatchSilently(t) ==
    /\ thread[t] = "dispatch"
    /\ thread' = [thread EXCEPT ![t] = "ended"]
    /\ UNCHANGED <<nodes, sick, inflight, mail, results, answers>>

\* _dispatch_async: nobody can do the task, and the caller hears so at once.
DispatchToNobody(t) ==
    /\ thread[t] = "dispatch"
    /\ thread' = [thread EXCEPT ![t] = "ended"]
    /\ Finalize(t, "error")
    /\ UNCHANGED <<nodes, sick, mail, results>>

\* _dispatch_async: one send thread per chosen peer, then the watchdog.
DispatchTo(t, chosen) ==
    /\ thread[t] = "dispatch"
    /\ thread' = [thread EXCEPT ![t] = "watch"]
    /\ mail' = mail \cup {[type |-> "submit", task |-> t, worker |-> w] : w \in chosen}
    /\ UNCHANGED <<nodes, sick, inflight, results, answers>>

Dispatch(t) ==
    \/ DispatchPopped(t)
    \/ \E eligible \in SUBSET nodes :
         \/ eligible = {} /\ DispatchToNobody(t)
         \/ \E chosen \in SUBSET Pool(eligible) \ {{}} :
              /\ \/ Cardinality(chosen) = Redundancy
                 \/ Cardinality(chosen) < Redundancy /\ chosen = Pool(eligible)
              /\ DispatchTo(t, chosen)

\* _select_peers walks controller.nodes while a registration grows it: the
\* RuntimeError ends the thread before there is a watchdog.
DispatchDies(t, w) ==
    /\ thread[t] = "dispatch"
    /\ nodes # {} /\ w \notin nodes
    /\ nodes' = nodes \cup {w}
    /\ thread' = [thread EXCEPT ![t] = "died"]
    /\ UNCHANGED <<sick, inflight, mail, results, answers>>

\* The deadline passes: a task still open is answered with an error.
Watchdog(t) ==
    /\ thread[t] = "watch"
    /\ thread' = [thread EXCEPT ![t] = "ended"]
    /\ Finalize(t, "error")
    /\ UNCHANGED <<nodes, sick, mail, results>>

\* The worker's half, _handle_submit: run the plugin and send what came out.
Work(m) ==
    /\ m \in mail /\ m.type = "submit"
    /\ \E p \in Payloads :
         mail' = (mail \ {m})
                   \cup {[type |-> "result", task |-> m.task, worker |-> m.worker, payload |-> p]}
    /\ UNCHANGED <<nodes, sick, inflight, thread, results, answers>>

\* A send that fails, a worker that drops the job, a worker that is gone.
LoseMail(m) ==
    /\ m \in mail /\ mail' = mail \ {m}
    /\ UNCHANGED <<nodes, sick, inflight, thread, results, answers>>

\* _handle_result: ignored once the task is completed or popped; otherwise
\* recorded, and the result that fills the redundancy decides.
HandleResult(m) ==
    /\ m \in mail /\ m.type = "result"
    /\ mail' = mail \ {m}
    /\ IF IsOpen(m.task)
       THEN /\ results' = [results EXCEPT ![m.task] = Append(@, m.payload)]
            /\ IF Len(results'[m.task]) >= Redundancy
               THEN Finalize(m.task, Majority(results'[m.task]))
               ELSE UNCHANGED <<inflight, answers>>
       ELSE UNCHANGED <<inflight, results, answers>>
    /\ UNCHANGED <<nodes, sick, thread>>

\* _handle_cancel: any peer that names the job removes it, without an answer.
Cancel(t) ==
    /\ inflight[t] \in {"open", "done"}
    /\ inflight' = [inflight EXCEPT ![t] = "popped"]
    /\ UNCHANGED <<nodes, sick, thread, mail, results, answers>>

RouterNext ==
    \/ \E t \in Tasks : \/ Submit(t) \/ Dispatch(t) \/ Watchdog(t) \/ Cancel(t)
                        \/ \E w \in Workers : DispatchDies(t, w)
    \/ \E w \in Workers : JoinMesh(w) \/ Quarantine(w)
    \/ \E m \in mail : Work(m) \/ LoseMail(m) \/ HandleResult(m)

\* Started threads run; nothing obliges a peer, the network or a registration.
RouterFair == \A t \in Tasks : WF_routerVars(Dispatch(t)) /\ WF_routerVars(Watchdog(t))

RouterSpec == RouterInit /\ [][RouterNext]_routerVars /\ RouterFair

-----------------------------------------------------------------------------
RouterTypeOK ==
    /\ nodes \subseteq Workers /\ sick \subseteq Workers
    /\ inflight \in [Tasks -> {"none", "open", "done", "popped"}]
    /\ thread \in [Tasks -> {"none", "dispatch", "watch", "ended", "died"}]
    /\ mail \subseteq Mails
    /\ results \in [Tasks -> Seq(Payloads)]
    /\ answers \in [Tasks -> Seq(Payloads)]

\* A caller is called back at most once, whatever order the results, the
\* watchdog, the empty dispatch and a cancel come in (the completed flag that
\* _handle_result, the watchdog and _finalize read).
OneAnswer == \A t \in Tasks : Len(answers[t]) <= 1

\* A submitted task is answered, unless a peer cancelled it or the dispatch
\* thread died in the race with a registration (_dispatch_async, _watchdog).
CallersAnswered ==
    \A t \in Tasks :
        inflight[t] = "open" ~> (answers[t] # <<>> \/ inflight[t] = "popped" \/ thread[t] = "died")

=============================================================================
