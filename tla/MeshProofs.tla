----------------------------- MODULE MeshProofs -----------------------------
(***************************************************************************)
(* Proofs about the services of the mesh, for any tasks, workers, jobs,    *)
(* tabs, chunks, notices, nodes and transfers: TaskRouter, BrowserProvider,*)
(* BlobTransfer, the ChainLedger with the GovernanceDAO over it, and the   *)
(* types of all the services in MeshServices.                              *)
(***************************************************************************)
EXTENDS MeshServices, GovernanceDAO, SequenceTheorems, SumLemmas

-----------------------------------------------------------------------------
(* TaskRouter: a caller is answered at most once.  A task that was never   *)
(* submitted, or is still open, has no answer; only Finalize answers, and  *)
(* it completes an open task in the same step; nothing reopens a task.     *)

Stages == {"none", "open", "done", "popped"}

\* No answer before the task is completed or cancelled, and one afterwards.
AnsweredOnce(t) ==
  \/ answers[t] = <<>>
  \/ inflight[t] \in {"done", "popped"} /\ \E p : answers[t] = <<p>>

\* The inductive invariant behind OneAnswer.
AnswersInv ==
  /\ inflight \in [Tasks -> Stages]
  /\ DOMAIN answers = Tasks /\ answers = [t \in Tasks |-> answers[t]]
  /\ \A t \in Tasks : AnsweredOnce(t)

\* Finalize, the only way to an answer, keeps the invariant.
LEMMA FinalizeKeeps ==
  ASSUME AnswersInv, NEW t \in Tasks, NEW p, Finalize(t, p)
  PROVE  AnswersInv'
<1>1. CASE IsOpen(t)
  <2>1. /\ inflight' = [inflight EXCEPT ![t] = "done"]
        /\ answers' = [answers EXCEPT ![t] = Append(@, p)]
    BY <1>1 DEF Finalize
  <2>2. answers[t] = <<>>
    BY <1>1 DEF AnswersInv, AnsweredOnce, IsOpen
  <2>3. answers'[t] = <<p>> /\ inflight'[t] = "done"
    BY <2>1, <2>2 DEF AnswersInv
  <2>4. \A u \in Tasks \ {t} : answers'[u] = answers[u] /\ inflight'[u] = inflight[u]
    BY <2>1 DEF AnswersInv
  <2>5. inflight' \in [Tasks -> Stages] /\ DOMAIN answers' = Tasks
        /\ answers' = [u \in Tasks |-> answers'[u]]
    BY <2>1 DEF AnswersInv, Stages
  <2> QED
    BY <2>3, <2>4, <2>5 DEF AnswersInv, AnsweredOnce
<1>2. CASE ~IsOpen(t)
  BY <1>2 DEF Finalize, AnswersInv, AnsweredOnce
<1> QED
  BY <1>1, <1>2

\* Every other step leaves the answers alone and moves no task backwards.
LEMMA OthersKeep ==
  ASSUME AnswersInv, UNCHANGED answers,
         inflight' \in [Tasks -> Stages],
         \A t \in Tasks : inflight[t] \in {"done", "popped"}
                            => inflight'[t] \in {"done", "popped"}
  PROVE  AnswersInv'
BY DEF AnswersInv, AnsweredOnce

\* Messages are about tasks.
MailNamesTasks == \A m \in mail : m.task \in Tasks

LEMMA MailInvariant == RouterInit /\ [][RouterNext]_routerVars => []MailNamesTasks
<1>1. RouterInit => MailNamesTasks
  BY DEF RouterInit, MailNamesTasks
<1>2. MailNamesTasks /\ [RouterNext]_routerVars => MailNamesTasks'
  <2> SUFFICES ASSUME MailNamesTasks, [RouterNext]_routerVars PROVE MailNamesTasks'
    OBVIOUS
  <2>1. ASSUME NEW t \in Tasks, Dispatch(t) PROVE MailNamesTasks'
    BY <2>1 DEF Dispatch, DispatchPopped, DispatchToNobody, DispatchTo, MailNamesTasks
  <2>2. ASSUME NEW m \in mail, Work(m) \/ LoseMail(m) \/ HandleResult(m)
        PROVE  MailNamesTasks'
    BY <2>2 DEF Work, LoseMail, HandleResult, MailNamesTasks
  <2> QED
    BY <2>1, <2>2 DEF RouterNext, routerVars, MailNamesTasks, Submit, Watchdog, Cancel,
                      DispatchDies, JoinMesh, Quarantine
<1> QED
  BY <1>1, <1>2, PTL

\* The steps of the router keep the invariant, fair or not.
LEMMA AnswersInvariant == RouterInit /\ [][RouterNext]_routerVars => []AnswersInv
<1>1. RouterInit => AnswersInv
  BY DEF RouterInit, AnswersInv, AnsweredOnce, Stages
<1>2. AnswersInv /\ MailNamesTasks /\ [RouterNext]_routerVars => AnswersInv'
  <2> SUFFICES ASSUME AnswersInv, MailNamesTasks, [RouterNext]_routerVars PROVE AnswersInv'
    OBVIOUS
  <2>1. ASSUME NEW t \in Tasks, Submit(t) PROVE AnswersInv'
    BY <2>1, OthersKeep DEF Submit, AnswersInv, Stages
  <2>2. ASSUME NEW t \in Tasks, Dispatch(t) PROVE AnswersInv'
    <3>1. CASE DispatchPopped(t)
      BY <3>1, OthersKeep DEF DispatchPopped, AnswersInv
    <3>2. CASE DispatchToNobody(t)
      BY <3>2, FinalizeKeeps DEF DispatchToNobody
    <3>3. ASSUME NEW chosen, DispatchTo(t, chosen) PROVE AnswersInv'
      BY <3>3, OthersKeep DEF DispatchTo, AnswersInv
    <3> QED
      BY <2>2, <3>1, <3>2, <3>3 DEF Dispatch
  <2>3. ASSUME NEW t \in Tasks, Watchdog(t) PROVE AnswersInv'
    BY <2>3, FinalizeKeeps DEF Watchdog
  <2>4. ASSUME NEW t \in Tasks, Cancel(t) PROVE AnswersInv'
    BY <2>4, OthersKeep DEF Cancel, AnswersInv, Stages
  <2>5. ASSUME NEW t \in Tasks, NEW w \in Workers, DispatchDies(t, w) PROVE AnswersInv'
    BY <2>5, OthersKeep DEF DispatchDies, AnswersInv
  <2>6. ASSUME NEW w \in Workers, JoinMesh(w) \/ Quarantine(w) PROVE AnswersInv'
    BY <2>6, OthersKeep DEF JoinMesh, Quarantine, AnswersInv
  <2>7. ASSUME NEW m \in mail, Work(m) \/ LoseMail(m) PROVE AnswersInv'
    BY <2>7, OthersKeep DEF Work, LoseMail, AnswersInv
  <2>8. ASSUME NEW m \in mail, HandleResult(m) PROVE AnswersInv'
    <3>1. CASE UNCHANGED <<inflight, answers>>
      BY <3>1, OthersKeep DEF AnswersInv
    <3>2. ASSUME NEW p, Finalize(m.task, p), IsOpen(m.task) PROVE AnswersInv'
      <4>1. m.task \in Tasks
        BY DEF MailNamesTasks
      <4> QED
        BY <3>2, <4>1, FinalizeKeeps
    <3> QED
      BY <2>8, <3>1, <3>2 DEF HandleResult
  <2>9. CASE UNCHANGED routerVars
    BY <2>9, OthersKeep DEF routerVars, AnswersInv
  <2> QED
    BY <2>1, <2>2, <2>3, <2>4, <2>5, <2>6, <2>7, <2>8, <2>9 DEF RouterNext
<1> QED
  BY <1>1, <1>2, MailInvariant, PTL

\* A task that is answered once is answered with one result.
LEMMA AnswersOnce == AnswersInv => OneAnswer
<1> SUFFICES ASSUME AnswersInv, NEW t \in Tasks PROVE Len(answers[t]) <= 1
  BY DEF OneAnswer
<1>1. answers[t] = <<>> \/ \E p : answers[t] = <<p>>
  BY DEF AnswersInv, AnsweredOnce
<1>2. Len(<<>>) <= 1 /\ \A p : Len(<<p>>) <= 1
  OBVIOUS
<1> QED
  BY <1>1, <1>2

\* The caller of a task is called back at most once, whatever the order of
\* results, watchdog, empty dispatch and cancel (_finalize, _handle_result).
THEOREM OneAnswerAlways == RouterSpec => []OneAnswer
BY AnswersInvariant, AnswersOnce, PTL DEF RouterSpec

-----------------------------------------------------------------------------
(* BrowserProvider: work accepted in time is never reported as a timeout.  *)
(* A job is in the pickup list exactly from the start of its wait to the   *)
(* clean-up after it, so nothing is accepted outside; while the thread     *)
(* waits, the event is set exactly when a delivery came in time; and a     *)
(* holder that is set holds a delivery some tab was told was accepted.     *)

Runs == {"idle", "won", "waiting", "woke", "expired", "returned"}

\* A job is listed, once, from the start of its wait to the clean-up.
ListedWhileWaited ==
  /\ pickups \in Seq(BrowserJobs)
  /\ \A i, k \in DOMAIN pickups : pickups[i] = pickups[k] => i = k
  /\ \A j \in BrowserJobs : Pending(j) <=> run[j] \in {"waiting", "woke", "expired"}

\* What the holder holds was accepted, and what was accepted came in time if
\* the thread was still waiting.
HolderAgrees(j) ==
  /\ run[j] \in {"idle", "won"} => box[j] = "unset" /\ j \notin inTime
  /\ run[j] = "waiting" => (Signalled(j) <=> j \in inTime)
  /\ run[j] = "woke" => Signalled(j) /\ j \in inTime
  /\ run[j] = "expired" => j \notin inTime
  /\ Signalled(j) => box[j] \in told[j] \cap Deliveries

Reported(j) ==
  run[j] = "returned" =>
    /\ outcome[j] = "timeout" <=> j \notin inTime
    /\ outcome[j] = "error" => "empty" \in told[j]
    /\ outcome[j] \notin {"timeout", "error"} => outcome[j] \in told[j]

\* The inductive invariant behind AcceptedInTime.
WaitInv ==
  /\ run \in [BrowserJobs -> Runs]
  /\ DOMAIN box = BrowserJobs /\ DOMAIN told = BrowserJobs /\ DOMAIN outcome = BrowserJobs
  /\ ListedWhileWaited
  /\ \A j \in BrowserJobs : HolderAgrees(j) /\ Reported(j)

-----------------------------------------------------------------------------
\* The first entry of a listed job goes, and only that.
LEMMA RemovalKeepsOthers ==
  ASSUME ListedWhileWaited, NEW j \in BrowserJobs, Pending(j)
  PROVE  /\ Without(j) \in Seq(BrowserJobs)
         /\ \A i, k \in DOMAIN Without(j) : Without(j)[i] = Without(j)[k] => i = k
         /\ \A o \in BrowserJobs :
              (\E i \in DOMAIN Without(j) : Without(j)[i] = o) <=> (Pending(o) /\ o # j)
<1> DEFINE at == CHOOSE i \in DOMAIN pickups : pickups[i] = j
           n == Len(pickups)
           w == Without(j)
<1>1. pickups \in Seq(BrowserJobs) /\ n \in Nat /\ DOMAIN pickups = 1..n
  BY DEF ListedWhileWaited
<1>2. at \in 1..n /\ pickups[at] = j
  BY <1>1 DEF Pending
<1> HIDE DEF at
<1>3. /\ w \in Seq(BrowserJobs) /\ Len(w) = n - 1
      /\ \A k \in 1..(n - 1) : w[k] = IF k < at THEN pickups[k] ELSE pickups[k + 1]
  <2> DEFINE l == SubSeq(pickups, 1, at - 1)
             r == SubSeq(pickups, at + 1, n)
  <2>1. w = l \o r
    BY <1>1 DEF Without, RemoveAt, at
  <2>2. /\ l \in Seq(BrowserJobs) /\ Len(l) = at - 1
        /\ \A k \in 1..(at - 1) : l[k] = pickups[k]
    BY <1>1, <1>2
  <2>3. /\ r \in Seq(BrowserJobs) /\ Len(r) = n - at
        /\ \A k \in 1..(n - at) : r[k] = pickups[at + k]
    <3>1. at + 1 \in Int /\ n \in Int /\ \A i \in (at + 1)..n : pickups[i] \in BrowserJobs
      BY <1>1, <1>2
    <3> HIDE DEF n
    <3>2. /\ r \in Seq(BrowserJobs)
          /\ Len(r) = IF at + 1 <= n THEN n - (at + 1) + 1 ELSE 0
          /\ \A k \in 1..(n - (at + 1) + 1) : r[k] = pickups[(at + 1) + k - 1]
      BY ONLY <3>1, SubSeqProperties
    <3> HIDE DEF r
    <3>3. n - (at + 1) + 1 = n - at /\ \A k \in 1..(n - at) : (at + 1) + k - 1 = at + k
      BY <1>1, <1>2
    <3>4. Len(r) = n - at
      BY <1>1, <1>2, <3>2
    <3> QED
      BY <3>2, <3>3, <3>4
  <2> HIDE DEF l, r, w, n
  <2> QED
    BY <1>1, <1>2, <2>1, <2>2, <2>3
<1> HIDE DEF w, n
<1>4. \A i \in 1..(n - 1) : \E p \in 1..n : p # at /\ w[i] = pickups[p]
  BY <1>1, <1>2, <1>3
<1>5. \A p \in 1..n \ {at} : \E i \in 1..(n - 1) : w[i] = pickups[p]
  <2> SUFFICES ASSUME NEW p \in 1..n, p # at
               PROVE  \E i \in 1..(n - 1) : w[i] = pickups[p]
    OBVIOUS
  <2>1. CASE p < at
    BY <1>1, <1>2, <1>3, <2>1
  <2>2. CASE p > at
    <3>1. p - 1 \in 1..(n - 1) /\ ~(p - 1 < at) /\ (p - 1) + 1 = p
      BY <1>1, <1>2, <2>2
    <3> QED
      BY <1>3, <3>1
  <2> QED
    BY <1>1, <1>2, <2>1, <2>2
<1>6. DOMAIN w = 1..(n - 1)
  BY <1>1, <1>2, <1>3
<1>7. \A i, k \in 1..(n - 1) : w[i] = w[k] => i = k
  <2> SUFFICES ASSUME NEW i \in 1..(n - 1), NEW k \in 1..(n - 1), w[i] = w[k] PROVE i = k
    OBVIOUS
  <2>1. \A p, q \in 1..n : pickups[p] = pickups[q] => p = q
    BY <1>1 DEF ListedWhileWaited
  <2> QED
    BY <1>1, <1>2, <1>3, <2>1
<1>8. \A o \in BrowserJobs : (\E i \in 1..(n - 1) : w[i] = o) <=> (Pending(o) /\ o # j)
  <2>1. \A p, q \in 1..n : pickups[p] = pickups[q] => p = q
    BY <1>1 DEF ListedWhileWaited
  <2> SUFFICES ASSUME NEW o \in BrowserJobs
               PROVE  (\E i \in 1..(n - 1) : w[i] = o) <=> (Pending(o) /\ o # j)
    OBVIOUS
  <2>2. Pending(o) <=> \E p \in 1..n : pickups[p] = o
    BY <1>1 DEF Pending
  <2>3. (\E i \in 1..(n - 1) : w[i] = o) => \E p \in 1..n : pickups[p] = o /\ p # at
    BY <1>4
  <2>4. \A p \in 1..n : p # at => pickups[p] # j
    BY <1>2, <2>1
  <2>5. ASSUME NEW p \in 1..n, pickups[p] = o, o # j
        PROVE  \E i \in 1..(n - 1) : w[i] = o
    <3>1. p \in 1..n \ {at}
      BY <1>2, <2>5
    <3> QED
      BY <1>5, <2>5, <3>1
  <2> QED
    BY <2>2, <2>3, <2>4, <2>5
<1> QED
  BY <1>3, <1>6, <1>7, <1>8 DEF w

\* A step that leaves a job's thread, holder and answers alone keeps its part.
LEMMA JobKept ==
  ASSUME NEW j \in BrowserJobs, HolderAgrees(j), Reported(j),
         run'[j] = run[j], box'[j] = box[j], told'[j] = told[j], outcome'[j] = outcome[j],
         j \in inTime' <=> j \in inTime
  PROVE  HolderAgrees(j)' /\ Reported(j)'
BY DEF HolderAgrees, Reported, Signalled

LEMMA WaitStarts == BrowserInit => WaitInv
BY DEF BrowserInit, WaitInv, ListedWhileWaited, Pending, HolderAgrees, Reported, Signalled, Runs

LEMMA WaitStep == WaitInv /\ [BrowserNext]_browserVars => WaitInv'
<1> SUFFICES ASSUME WaitInv, [BrowserNext]_browserVars PROVE WaitInv'
  OBVIOUS
<1>1. ASSUME UNCHANGED <<pickups, run, box, told, inTime, outcome>> PROVE WaitInv'
  BY <1>1 DEF WaitInv, ListedWhileWaited, Pending, HolderAgrees, Reported, Signalled
<1>2. ASSUME RegisterProvider \/ GoStale \/ Heartbeat \/ OpenJobs \/ UNCHANGED browserVars
      PROVE  WaitInv'
  BY <1>1, <1>2 DEF RegisterProvider, GoStale, Heartbeat, OpenJobs, browserVars
<1>3. ASSUME NEW j \in BrowserJobs, WinJob(j) PROVE WaitInv'
  <2>1. ListedWhileWaited'
    BY <1>3 DEF WinJob, WaitInv, ListedWhileWaited, Pending
  <2>2. HolderAgrees(j)' /\ Reported(j)'
    BY <1>3 DEF WinJob, WaitInv, HolderAgrees, Reported, Signalled
  <2>3. \A o \in BrowserJobs \ {j} : HolderAgrees(o)' /\ Reported(o)'
    BY <1>3, JobKept DEF WinJob, WaitInv
  <2> QED
    BY <1>3, <2>1, <2>2, <2>3 DEF WinJob, WaitInv, Runs
<1>4. ASSUME NEW j \in BrowserJobs, StartExecute(j) PROVE WaitInv'
  <2>1. ListedWhileWaited'
    <3>1. pickups' = Append(pickups, j) /\ pickups \in Seq(BrowserJobs) /\ ~Pending(j)
      BY <1>4 DEF StartExecute, WaitInv, ListedWhileWaited
    <3>2. pickups' \in Seq(BrowserJobs)
      BY <3>1
    <3>3. \A i, k \in DOMAIN pickups' : pickups'[i] = pickups'[k] => i = k
      BY <3>1 DEF WaitInv, ListedWhileWaited, Pending
    <3>4. \A o \in BrowserJobs : Pending(o)' <=> Pending(o) \/ o = j
      BY <3>1 DEF Pending
    <3>5. \A o \in BrowserJobs : run'[o] \in {"waiting", "woke", "expired"}
              <=> run[o] \in {"waiting", "woke", "expired"} \/ o = j
      BY <1>4 DEF StartExecute, WaitInv
    <3> QED
      BY <3>2, <3>3, <3>4, <3>5 DEF WaitInv, ListedWhileWaited
  <2>2. HolderAgrees(j)' /\ Reported(j)'
    BY <1>4 DEF StartExecute, WaitInv, HolderAgrees, Reported, Signalled
  <2>3. \A o \in BrowserJobs \ {j} : HolderAgrees(o)' /\ Reported(o)'
    BY <1>4, JobKept DEF StartExecute, WaitInv
  <2> QED
    BY <1>4, <2>1, <2>2, <2>3 DEF StartExecute, WaitInv, Runs
<1>5. ASSUME NEW j \in BrowserJobs, WakeUp(j) \/ TimeUp(j) PROVE WaitInv'
  <2>1. ListedWhileWaited'
    BY <1>5 DEF WakeUp, TimeUp, WaitInv, ListedWhileWaited, Pending
  <2>2. HolderAgrees(j)' /\ Reported(j)'
    BY <1>5 DEF WakeUp, TimeUp, WaitInv, HolderAgrees, Reported, Signalled
  <2>3. \A o \in BrowserJobs \ {j} : HolderAgrees(o)' /\ Reported(o)'
    BY <1>5, JobKept DEF WakeUp, TimeUp, WaitInv
  <2> QED
    BY <1>5, <2>1, <2>2, <2>3 DEF WakeUp, TimeUp, WaitInv, Runs
<1>6. ASSUME NEW j \in BrowserJobs, FinishExecute(j) PROVE WaitInv'
  <2>1. Pending(j) /\ ListedWhileWaited
    BY <1>6 DEF FinishExecute, WaitInv, ListedWhileWaited
  <2>2. ListedWhileWaited'
    <3>1. pickups' = Without(j)
      BY <1>6 DEF FinishExecute
    <3>2. \A o \in BrowserJobs : Pending(o)' <=> Pending(o) /\ o # j
      BY <2>1, <3>1, RemovalKeepsOthers DEF Pending
    <3>3. \A o \in BrowserJobs : run'[o] \in {"waiting", "woke", "expired"}
              <=> run[o] \in {"waiting", "woke", "expired"} /\ o # j
      BY <1>6 DEF FinishExecute, WaitInv
    <3> QED
      BY <2>1, <3>1, <3>2, <3>3, RemovalKeepsOthers DEF ListedWhileWaited
  <2>3. /\ run'[j] = "returned" /\ UNCHANGED <<box, told, inTime>>
        /\ outcome'[j] = IF run[j] = "expired" THEN "timeout"
                         ELSE IF box[j] = "empty" THEN "error" ELSE box[j]
    BY <1>6 DEF FinishExecute, WaitInv
  <2>4. HolderAgrees(j)
    BY DEF WaitInv
  <2>5. HolderAgrees(j)' /\ Reported(j)'
    <3>1. CASE run[j] = "expired"
      BY <2>3, <2>4, <3>1 DEF HolderAgrees, Reported, Signalled
    <3>2. CASE run[j] = "woke"
      <4>1. j \in inTime /\ box[j] \in told[j] /\ box[j] \in Deliveries
        BY <2>4, <3>2 DEF HolderAgrees
      <4>2. box[j] \notin {"timeout", "error"}
        BY <4>1, DeliveriesAreResults
      <4> QED
        BY <2>3, <2>4, <3>2, <4>1, <4>2 DEF HolderAgrees, Reported, Signalled
    <3> QED
      BY <1>6, <3>1, <3>2 DEF FinishExecute
  <2>6. \A o \in BrowserJobs \ {j} : HolderAgrees(o)' /\ Reported(o)'
    BY <1>6, JobKept DEF FinishExecute, WaitInv
  <2> QED
    BY <1>6, <2>2, <2>5, <2>6 DEF FinishExecute, WaitInv, Runs
<1>7. ASSUME NEW j \in BrowserJobs, NEW r \in Deliveries, Deliver(j, r) PROVE WaitInv'
  <2>1. run[j] \in {"waiting", "woke", "expired"}
    BY <1>7 DEF Deliver, WaitInv, ListedWhileWaited
  <2>2. ListedWhileWaited'
    BY <1>7 DEF Deliver, WaitInv, ListedWhileWaited, Pending
  <2>3. /\ box'[j] = r /\ r \in told'[j] /\ UNCHANGED <<run, outcome>>
        /\ r # "unset"
        /\ j \in inTime' <=> j \in inTime \/ run[j] = "waiting"
    BY <1>7, DeliveriesAreResults DEF Deliver, WaitInv
  <2>4. HolderAgrees(j)' /\ Reported(j)'
    BY <2>1, <2>3 DEF WaitInv, HolderAgrees, Reported, Signalled
  <2>5. \A o \in BrowserJobs \ {j} : HolderAgrees(o)' /\ Reported(o)'
    <3> SUFFICES ASSUME NEW o \in BrowserJobs, o # j PROVE HolderAgrees(o)' /\ Reported(o)'
      OBVIOUS
    <3>1. /\ run'[o] = run[o] /\ box'[o] = box[o] /\ told'[o] = told[o]
          /\ outcome'[o] = outcome[o] /\ (o \in inTime' <=> o \in inTime)
      BY <1>7 DEF Deliver, WaitInv
    <3>2. HolderAgrees(o) /\ Reported(o)
      BY DEF WaitInv
    <3> QED
      BY <3>1, <3>2, JobKept
  <2> QED
    BY <1>7, <2>2, <2>4, <2>5 DEF Deliver, WaitInv
<1> QED
  BY <1>2, <1>3, <1>4, <1>5, <1>6, <1>7 DEF BrowserNext

\* BrowserSpec keeps the invariant.
LEMMA WaitInvariant == BrowserSpec => []WaitInv
BY WaitStarts, WaitStep, PTL DEF BrowserSpec

\* Work a tab was told was accepted while the job was waited for is what the
\* auction is told of, and never a refundable timeout (execute, deliver).
THEOREM AcceptedInTimeAlways == BrowserSpec => []AcceptedInTime
<1>1. WaitInv => AcceptedInTime
  BY DEF WaitInv, Reported, AcceptedInTime
<1> QED
  BY <1>1, WaitInvariant, PTL

-----------------------------------------------------------------------------
(* BlobTransfer: what is put together is what was sent.  Only _finalize    *)
(* puts a blob together, after the root test; only then does it give the   *)
(* future the blob or send a DONE that is ok; and the sender's success and *)
(* what the callers are handed come from those.                            *)

DoneType ==
  /\ BlobTypeOK
  /\ Done(TRUE) \in wire => assembled # {}
  /\ done = "ok" => assembled # {}

\* The inductive invariant behind AssembledIsSent.
BlobInv == DoneType /\ AssembledIsSent

-----------------------------------------------------------------------------
\* The kinds of message are told apart by their operation.
LEMMA MessagesDiffer ==
  ASSUME NEW i \in Chunks, NEW ok \in BOOLEAN
  PROVE  /\ Offer # Done(TRUE) /\ Chunk(i) # Done(TRUE) /\ Nack(i) # Done(TRUE)
         /\ Done(ok) = Done(TRUE) => ok = TRUE
         /\ {Offer, Chunk(i), Nack(i), Done(ok)} \subseteq Messages
<1>1. /\ Offer.op = "OFFER" /\ Chunk(i).op = "CHUNK" /\ Nack(i).op = "NACK"
      /\ Done(TRUE).op = "DONE" /\ Done(ok).ok = ok /\ Done(TRUE).ok = TRUE
  BY DEF Offer, Chunk, Nack, Done
<1>2. Offer \in Messages /\ Chunk(i) \in Messages /\ Nack(i) \in Messages
      /\ Done(ok) \in Messages
  BY DEF Messages
<1> QED
  BY <1>1, <1>2

\* _finalize answers "ok" and hands out a blob only if the blob is the one sent.
LEMMA FinishKeeps ==
  ASSUME BlobInv, NEW c \in Blobs, Finish(c), UNCHANGED <<sender, next, done, taken>>
  PROVE  BlobInv'
<1>1. /\ RootMatches(c) \in BOOLEAN
      /\ wire' = wire \cup {Done(RootMatches(c))}
      /\ record' = NoRecord /\ linked' = FALSE
  BY DEF Finish, RootMatches
<1>2. CASE RootMatches(c)
  <2>1. assembled' = assembled \cup {c} /\ c = Sent
    BY <1>2 DEF Finish, RootMatches
  <2>2. future' \in {future, "whole"}
    BY <1>2 DEF Finish, Resolve
  <2>3. wire' \subseteq Messages
    BY <1>1, MessagesDiffer, BlobHasChunks DEF BlobInv, DoneType, BlobTypeOK, Messages
  <2> QED
    BY <1>1, <2>1, <2>2, <2>3 DEF BlobInv, DoneType, BlobTypeOK, AssembledIsSent
<1>3. CASE ~RootMatches(c)
  <2>1. assembled' = assembled /\ future' \in {future, "error"}
    BY <1>3 DEF Finish, Resolve
  <2>2. Done(RootMatches(c)) # Done(TRUE)
    BY <1>1, <1>3 DEF Done
  <2>3. wire' \subseteq Messages /\ (Done(TRUE) \in wire' => Done(TRUE) \in wire)
    BY <1>1, <2>2 DEF BlobInv, DoneType, BlobTypeOK, Messages
  <2> QED
    BY <1>1, <2>1, <2>3 DEF BlobInv, DoneType, BlobTypeOK, AssembledIsSent
<1> QED
  BY <1>2, <1>3

\* What travels meanwhile is no DONE.
LEMMA SendingKeeps ==
  ASSUME BlobInv, NEW S, wire' = wire \cup S, S \subseteq Messages, Done(TRUE) \notin S,
         UNCHANGED <<done, assembled, future, taken>>,
         sender' = "sent" => sender = "sent",
         BlobTypeOK'
  PROVE  BlobInv'
BY DEF BlobInv, DoneType, AssembledIsSent

LEMMA BlobStarts == BlobInit => BlobInv
<1> SUFFICES ASSUME BlobInit PROVE BlobInv
  OBVIOUS
<1>1. 1 \in 1..(NumChunks + 1) /\ wire = {} /\ record = NoRecord
  BY BlobHasChunks DEF BlobInit
<1> QED
  BY <1>1 DEF BlobInit, BlobInv, DoneType, BlobTypeOK, AssembledIsSent

LEMMA BlobStep == BlobInv /\ [BlobNext]_blobVars => BlobInv'
<1> SUFFICES ASSUME BlobInv, [BlobNext]_blobVars PROVE BlobInv'
  OBVIOUS
<1> USE DEF BlobInv, DoneType
<1>1. CASE SendOffer
  <2>1. {Offer} \subseteq Messages /\ Done(TRUE) \notin {Offer}
    BY DEF Messages, Offer, Done
  <2>2. wire' = wire \cup {Offer} /\ sender' = "streaming"
        /\ UNCHANGED <<next, done, record, linked, future, taken, assembled>>
    BY <1>1 DEF SendOffer
  <2>3. BlobTypeOK'
    BY <2>1, <2>2 DEF BlobTypeOK
  <2> QED
    BY <2>1, <2>2, <2>3, SendingKeeps
<1>2. CASE SendChunk
  <2>1. BlobTypeOK'
    BY <1>2, BlobHasChunks DEF SendChunk, BlobTypeOK, Messages, Chunks
  <2>2. next \in Chunks /\ wire' = wire \cup {Chunk(next)}
    BY <1>2 DEF SendChunk
  <2>3. UNCHANGED <<done, assembled, future, taken>> /\ (sender' = "sent" => sender = "sent")
    BY <1>2 DEF SendChunk
  <2> QED
    <3>1. {Chunk(next)} \subseteq Messages /\ Done(TRUE) \notin {Chunk(next)}
      BY <2>2, MessagesDiffer
    <3> QED
      BY <2>1, <2>2, <2>3, <3>1, SendingKeeps
<1>3. ASSUME NEW i \in Chunks, Retransmit(i) PROVE BlobInv'
  BY <1>3, MessagesDiffer DEF Retransmit, BlobTypeOK, AssembledIsSent
<1>4. ASSUME NEW ok \in BOOLEAN, HearDone(ok) PROVE BlobInv'
  BY <1>4 DEF HearDone, BlobTypeOK, AssembledIsSent
<1>5. CASE SendReturns \/ SendTimesOut
  BY <1>5 DEF SendReturns, SendTimesOut, BlobTypeOK, AssembledIsSent
<1>6. CASE HandleOffer
  <2>1. Empty \in [Chunks -> Data \cup {"missing"}]
    BY DEF Empty
  <2> QED
    BY <1>6, <2>1 DEF HandleOffer, BlobTypeOK, AssembledIsSent
<1>7. CASE AskAgain
  <2> DEFINE S == {Nack(i) : i \in {k \in Chunks : record[k] = "missing"}}
  <2>1. S \subseteq Messages /\ Done(TRUE) \notin S
    BY MessagesDiffer DEF Messages
  <2>2. wire' = wire \cup S /\ UNCHANGED <<sender, next, done, record, linked, future, taken, assembled>>
    BY <1>7 DEF AskAgain
  <2> HIDE DEF S
  <2> QED
    BY <2>1, <2>2 DEF BlobTypeOK, AssembledIsSent
<1>8. CASE ReceiveTimesOut
  BY <1>8 DEF ReceiveTimesOut, Resolve, BlobTypeOK, AssembledIsSent
<1>9. CASE Receive \/ Take \/ StopWaiting
  BY <1>9 DEF Receive, Take, StopWaiting, BlobTypeOK, AssembledIsSent
<1>10. ASSUME NEW i \in Chunks, NEW data \in Data, HandleChunk(i, data) PROVE BlobInv'
  <2> DEFINE kept == [record EXCEPT ![i] = data]
  <2>1. record # NoRecord => kept \in [Chunks -> Data \cup {"missing"}]
    BY DEF BlobTypeOK
  <2>2. CASE kept \in Blobs /\ Finish(kept)
    BY <1>10, <2>2, FinishKeeps DEF HandleChunk
  <2>3. CASE record' = kept /\ UNCHANGED <<wire, linked, future, assembled>>
    BY <1>10, <2>1, <2>3 DEF HandleChunk, BlobTypeOK, AssembledIsSent
  <2> QED
    BY <1>10, <2>2, <2>3 DEF HandleChunk
<1>11. CASE UNCHANGED blobVars
  BY <1>11 DEF blobVars, BlobTypeOK, AssembledIsSent
<1> QED
  BY <1>1, <1>2, <1>3, <1>4, <1>5, <1>6, <1>7, <1>8, <1>9, <1>10, <1>11 DEF BlobNext

\* BlobSpec keeps the invariant.
LEMMA BlobInvariant == BlobSpec => []BlobInv
BY BlobStarts, BlobStep, PTL DEF BlobSpec

\* Nobody is handed, and no sender is told of, a blob that was not the one
\* sent, whatever the channel loses, repeats, reorders or alters (_finalize).
THEOREM AssembledIsSentAlways == BlobSpec => []AssembledIsSent
<1>1. BlobInv => AssembledIsSent
  BY DEF BlobInv
<1> QED
  BY <1>1, BlobInvariant, PTL

-----------------------------------------------------------------------------
(* ChainLedger: the caches are what a walk over the chain finds.  The walk  *)
(* is a sum over the places of the chain, so a block more adds one summand. *)

LEMMA BlockFields ==
  ASSUME NEW b \in Block
  PROVE  /\ b.id \in 1 .. MaxBlocks /\ b.index \in Nat /\ b.txs \in Seq(Txs)
         /\ b.diff \in Nat /\ b.miner \in Accounts
         /\ DOMAIN b.txs = 1 .. Len(b.txs) /\ IsFiniteSet(DOMAIN b.txs)
         /\ DOMAIN b.txs \in SUBSET Nat
         /\ \A i \in DOMAIN b.txs : b.txs[i] \in Txs
<1>1. b.txs \in Seq(Txs)
  BY DEF Block
<1>2. IsFiniteSet(1 .. Len(b.txs))
  BY <1>1, FS_Interval
<1> QED
  BY <1>1, <1>2 DEF Block

LEMMA TxFields ==
  ASSUME NEW t \in Txs
  PROVE  /\ t.amount \in Nat /\ t.fee \in Nat /\ t.nonce \in Nat
         /\ t.recipient \in Accounts /\ t.sender \in Accounts \cup {"COINBASE"}
BY ChainAssumption

LEMMA BlockSums ==
  ASSUME NEW b \in Block, NEW a
  PROVE  /\ Fees(b) \in Nat /\ Credits(b, a) \in Nat /\ Debits(b, a) \in Nat
         /\ Minted(b) \in Nat
<1>1. /\ IsFiniteSet(DOMAIN b.txs)
      /\ \A i \in DOMAIN b.txs : b.txs[i].amount \in Nat /\ b.txs[i].fee \in Nat
  BY BlockFields, TxFields
<1>2. Fees(b) \in Nat
  BY <1>1, SumNat DEF Fees
<1>3. SumOver([i \in DOMAIN b.txs |-> IF b.txs[i].recipient = a THEN b.txs[i].amount ELSE 0],
              DOMAIN b.txs) \in Nat
  BY <1>1, SumNat
<1>4. Debits(b, a) \in Nat
  BY <1>1, SumNat DEF Debits
<1>5. Minted(b) \in Nat
  BY <1>1, SumNat DEF Minted, MintOf
<1> QED
  BY <1>2, <1>3, <1>4, <1>5 DEF Credits

\* One place more adds one summand.
LEMMA SumGrows ==
  ASSUME NEW k \in Nat, NEW f, NEW g,
         \A i \in 1 .. k : g[i] = f[i], \A i \in 1 .. k + 1 : g[i] \in Nat
  PROVE  /\ SumOver(f, 1 .. k) \in Nat
         /\ SumOver(g, 1 .. k + 1) = SumOver(f, 1 .. k) + g[k + 1]
<1>1. 1 .. k + 1 = (1 .. k) \cup {k + 1} /\ k + 1 \notin 1 .. k
  OBVIOUS
<1>2. IsFiniteSet(1 .. k)
  BY FS_Interval
<1>3. SumOver(g, (1 .. k) \cup {k + 1}) = SumOver(g, 1 .. k) + g[k + 1]
  <2> DEFINE S == 1 .. k
             x == k + 1
  <2>1. IsFiniteSet(S) /\ x \notin S /\ \A y \in S \cup {x} : g[y] \in Nat
    BY <1>1, <1>2
  <2> HIDE DEF S, x
  <2>2. SumOver(g, S \cup {x}) = SumOver(g, S) + g[x]
    BY <2>1, SumAdd, Zenon
  <2> QED
    BY <2>2 DEF S, x
<1>4. SumOver(g, 1 .. k) = SumOver(f, 1 .. k)
  <2> DEFINE S == 1 .. k
  <2>1. \A i \in S : g[i] = f[i]
    OBVIOUS
  <2> HIDE DEF S
  <2>2. SumOver(g, S) = SumOver(f, S)
    BY <2>1, SumAgree, Zenon
  <2> QED
    BY <2>2 DEF S
<1>5. SumOver(f, 1 .. k) \in Nat
  BY <1>2, SumNat
<1> QED
  BY <1>1, <1>3, <1>4, <1>5

LEMMA WalkedAll ==
  ASSUME NEW c \in Seq(Block)
  PROVE  Walked(c, Len(c)) = 1 .. Len(c) /\ DOMAIN c = 1 .. Len(c) /\ Len(c) \in Nat
BY DEF Walked

\* Whatever the height, the balance is an integer and the supply a natural.
LEMMA WalkTypes ==
  ASSUME NEW c \in Seq(Block), NEW a, NEW h \in Nat
  PROVE  BalanceAt(c, a, h) \in Int /\ SupplyAt(c, h) \in Nat
<1>1. Walked(c, h) \subseteq DOMAIN c /\ IsFiniteSet(Walked(c, h))
  <2>1. CASE h < Len(c)
    BY <2>1, FS_Interval, SMTT(60) DEF Walked
  <2>2. CASE ~(h < Len(c))
    BY <2>2, FS_Interval DEF Walked
  <2> QED
    BY <2>1, <2>2
<1>2. \A i \in DOMAIN c : /\ Credits(c[i], a) \in Nat /\ Debits(c[i], a) \in Nat
                          /\ Minted(c[i]) \in Nat
  BY BlockSums, SMTT(60)
<1>3. /\ SumOver([i \in DOMAIN c |-> Credits(c[i], a)], Walked(c, h)) \in Nat
      /\ SumOver([i \in DOMAIN c |-> Debits(c[i], a)], Walked(c, h)) \in Nat
      /\ SumOver([i \in DOMAIN c |-> Minted(c[i])], Walked(c, h)) \in Nat
  BY <1>1, <1>2, SumNat
<1> QED
  BY <1>3 DEF BalanceAt, SupplyAt

\* A block more: the walk finds what it found, and what the block does.
LEMMA BalanceGrows ==
  ASSUME NEW c \in Seq(Block), NEW b \in Block, NEW a
  PROVE  BalanceAt(Append(c, b), a, Len(Append(c, b)))
           = BalanceAt(c, a, Len(c)) + Credits(b, a) - Debits(b, a)
<1> DEFINE d == Append(c, b)
           k == Len(c)
           cr(s) == [i \in DOMAIN s |-> Credits(s[i], a)]
           de(s) == [i \in DOMAIN s |-> Debits(s[i], a)]
<1>1. /\ d \in Seq(Block) /\ Len(d) = k + 1 /\ k \in Nat
      /\ \A i \in 1 .. k : d[i] = c[i]
      /\ d[k + 1] = b
  OBVIOUS
<1>2. /\ Walked(d, Len(d)) = 1 .. k + 1 /\ DOMAIN d = 1 .. k + 1
      /\ Walked(c, Len(c)) = 1 .. k /\ DOMAIN c = 1 .. k
  BY <1>1, WalkedAll
<1> HIDE DEF d, k
<1>3. \A i \in 1 .. k + 1 : Credits(d[i], a) \in Nat /\ Debits(d[i], a) \in Nat
  BY <1>1, <1>2, BlockSums
<1>4. /\ SumOver(cr(c), 1 .. k) \in Nat
      /\ SumOver(cr(d), 1 .. k + 1) = SumOver(cr(c), 1 .. k) + Credits(b, a)
  <2>1. /\ \A i \in 1 .. k : cr(d)[i] = cr(c)[i]
        /\ \A i \in 1 .. k + 1 : cr(d)[i] \in Nat
        /\ cr(d)[k + 1] = Credits(b, a)
    BY <1>1, <1>2, <1>3
  <2> HIDE DEF cr
  <2> QED
    BY <1>1, <2>1, SumGrows
<1>5. /\ SumOver(de(c), 1 .. k) \in Nat
      /\ SumOver(de(d), 1 .. k + 1) = SumOver(de(c), 1 .. k) + Debits(b, a)
  <2>1. /\ \A i \in 1 .. k : de(d)[i] = de(c)[i]
        /\ \A i \in 1 .. k + 1 : de(d)[i] \in Nat
        /\ de(d)[k + 1] = Debits(b, a)
    BY <1>1, <1>2, <1>3
  <2> HIDE DEF de
  <2> QED
    BY <1>1, <2>1, SumGrows
<1>6. /\ BalanceAt(d, a, Len(d)) = SumOver(cr(d), 1 .. k + 1) - SumOver(de(d), 1 .. k + 1)
      /\ BalanceAt(c, a, Len(c)) = SumOver(cr(c), 1 .. k) - SumOver(de(c), 1 .. k)
  BY <1>2 DEF BalanceAt
<1>7. Credits(b, a) \in Nat /\ Debits(b, a) \in Nat
  BY BlockSums
<1>8. BalanceAt(d, a, Len(d)) = BalanceAt(c, a, Len(c)) + Credits(b, a) - Debits(b, a)
  <2> HIDE DEF cr, de
  <2> QED
    BY <1>4, <1>5, <1>6, <1>7
<1> QED
  BY <1>8 DEF d

(* Nonces: the largest of a finite set.                                     *)

\* The nonces of the transfers of an account in a block, and in a chain.
NoncesIn(b, a)  == {t.nonce : t \in TransfersOf(b, a)}
Confirmed(c, a) == UNION {NoncesIn(c[i], a) : i \in DOMAIN c}

LEMMA NoncesFinite ==
  ASSUME NEW b \in Block, NEW a
  PROVE  NoncesIn(b, a) \in SUBSET Nat /\ IsFiniteSet(NoncesIn(b, a))
<1> DEFINE at == [i \in DOMAIN b.txs |-> b.txs[i].nonce]
           all == {b.txs[i].nonce : i \in DOMAIN b.txs}
<1>1. at \in Surjection(DOMAIN b.txs, all)
  BY DEF Surjection
<1>2. IsFiniteSet(all)
  BY <1>1, BlockFields, FS_Surjection
<1>3. all \in SUBSET Nat
  BY BlockFields, TxFields
<1>4. NoncesIn(b, a) \in SUBSET all
  BY DEF NoncesIn, TransfersOf, ToSet
<1> QED
  BY <1>2, <1>3, <1>4, FS_Subset

LEMMA ConfirmedFinite ==
  ASSUME NEW c \in Seq(Block), NEW a
  PROVE  Confirmed(c, a) \in SUBSET Nat /\ IsFiniteSet(Confirmed(c, a))
<1> DEFINE at == [i \in DOMAIN c |-> NoncesIn(c[i], a)]
           all == {NoncesIn(c[i], a) : i \in DOMAIN c}
<1>1. at \in Surjection(DOMAIN c, all)
  BY DEF Surjection
<1>2. IsFiniteSet(DOMAIN c)
  BY WalkedAll, FS_Interval
<1>3. IsFiniteSet(all)
  BY <1>1, <1>2, FS_Surjection
<1>4. \A i \in DOMAIN c : NoncesIn(c[i], a) \in SUBSET Nat /\ IsFiniteSet(NoncesIn(c[i], a))
  BY NoncesFinite
<1>5. IsFiniteSet(UNION all)
  BY <1>3, <1>4, FS_UNION
<1> QED
  BY <1>4, <1>5 DEF Confirmed

LEMMA MaxIs ==
  ASSUME NEW T \in SUBSET Int, NEW m \in T, \A x \in T : x <= m
  PROVE  Max(T) = m
<1> DEFINE P(x) == x \in T /\ \A y \in T : x >= y
<1>1. P(m)
  OBVIOUS
<1>2. \A x : P(x) => x = m
  <2> SUFFICES ASSUME NEW x, P(x) PROVE x = m
    OBVIOUS
  <2>1. x \in Int /\ m \in Int /\ x >= m /\ m >= x
    OBVIOUS
  <2> QED
    BY <2>1
<1>3. Max(T) = CHOOSE x : P(x)
  BY DEF Max
<1> HIDE DEF P
<1> QED
  BY <1>1, <1>2, <1>3

LEMMA MaxOf ==
  ASSUME NEW T \in SUBSET Nat, IsFiniteSet(T), NEW k \in Int
  PROVE  /\ Max({k} \cup T) \in {k} \cup T
         /\ \A x \in {k} \cup T : x <= Max({k} \cup T)
<1> SUFFICES \E m \in {k} \cup T : \A x \in {k} \cup T : x <= m
  BY MaxIs
<1>1. CASE T = {}
  BY <1>1
<1>2. CASE T # {}
  <2>1. PICK m \in T : \A x \in T : x <= m
    BY <1>2, LargestMember
  <2>2. CASE k <= m
    BY <2>1, <2>2
  <2>3. CASE ~(k <= m)
    <3>1. \A x \in T : x <= k
      BY <2>1, <2>3
    <3> QED
      BY <3>1
  <2> QED
    BY <2>2, <2>3
<1> QED
  BY <1>1, <1>2

LEMMA ReplayedIs ==
  ASSUME NEW c \in Seq(Block), NEW a \in Accounts
  PROVE  /\ ReplayedNonces(c)[a] = Max({-1} \cup Confirmed(c, a))
         /\ ReplayedNonces(c)[a] \in Int
         /\ \A x \in Confirmed(c, a) : x <= ReplayedNonces(c)[a]
<1>1. ReplayedNonces(c)[a] = Max({-1} \cup Confirmed(c, a))
  BY DEF ReplayedNonces, Confirmed, NoncesIn
<1> QED
  BY <1>1, ConfirmedFinite, MaxOf

\* A block more: the walk finds the larger of what it found and what the block has.
LEMMA NoncesGrow ==
  ASSUME NEW c \in Seq(Block), NEW b \in Block, NEW a \in Accounts
  PROVE  NonceAfter(b, a, ReplayedNonces(c)[a]) = ReplayedNonces(Append(c, b))[a]
<1> DEFINE d == Append(c, b)
           S == Confirmed(c, a)
           T == NoncesIn(b, a)
           m == Max({-1} \cup S)
<1>1. /\ S \in SUBSET Nat /\ IsFiniteSet(S) /\ T \in SUBSET Nat /\ IsFiniteSet(T)
  BY ConfirmedFinite, NoncesFinite
<1>2. Confirmed(d, a) = S \cup T
  <2>1. /\ DOMAIN d = (DOMAIN c) \cup {Len(c) + 1} /\ d[Len(c) + 1] = b
        /\ \A i \in DOMAIN c : d[i] = c[i]
    BY WalkedAll
  <2> HIDE DEF d
  <2> QED
    BY <2>1 DEF Confirmed
<1>3. m \in {-1} \cup S /\ \A x \in {-1} \cup S : x <= m
  <2> HIDE DEF S
  <2> QED
    BY <1>1, MaxOf
<1>4. NonceAfter(b, a, m) = Max({m} \cup T)
  BY DEF NonceAfter, NoncesIn
<1>5. ReplayedNonces(c)[a] = m /\ ReplayedNonces(d)[a] = Max({-1} \cup (S \cup T))
  <2>1. d \in Seq(Block)
    OBVIOUS
  <2> QED
    BY <1>2, <2>1, ReplayedIs
<1> HIDE DEF S, T, m, d
<1>6. m \in Int
  BY <1>1, <1>3
<1>7. /\ Max({m} \cup T) \in {m} \cup T
      /\ \A x \in {m} \cup T : x <= Max({m} \cup T)
  BY <1>1, <1>6, MaxOf
<1>8. /\ Max({m} \cup T) \in {-1} \cup (S \cup T)
      /\ \A x \in {-1} \cup (S \cup T) : x <= Max({m} \cup T)
  <2> DEFINE k == Max({m} \cup T)
  <2>1. k \in {m} \cup T /\ \A x \in {m} \cup T : x <= k
    BY <1>7
  <2> HIDE DEF k
  <2>2. m \in {m} \cup T /\ T \subseteq {m} \cup T
    OBVIOUS
  <2>3. k \in Int /\ m <= k /\ (k = m \/ k \in T) /\ \A x \in T : x <= k
    BY <1>1, <1>6, <2>1, <2>2
  <2>4. k \in {-1} \cup (S \cup T)
    BY <1>3, <2>3
  <2>5. \A x \in {-1} \cup (S \cup T) : x <= k
    BY <1>1, <1>3, <1>6, <2>3
  <2> QED
    BY <2>4, <2>5 DEF k
<1>9. Max({-1} \cup (S \cup T)) = Max({m} \cup T)
  <2> DEFINE all == {-1} \cup (S \cup T)
             k == Max({m} \cup T)
  <2>1. all \in SUBSET Int
    BY <1>1
  <2>2. k \in all /\ \A x \in all : x <= k
    BY <1>8
  <2> HIDE DEF all, k
  <2>3. Max(all) = k
    BY <2>1, <2>2, MaxIs
  <2> QED
    BY <2>3 DEF all, k
<1> QED
  BY <1>4, <1>5, <1>9 DEF d

(* The inductive invariant.                                                *)

\* The chains, and the caches that follow them.
CachesInv ==
  /\ chain \in [Nodes -> Seq(Block)]
  /\ \A n \in Nodes : chain[n] # <<>> /\ chain[n][1].index = 0
  /\ balances \in [Nodes -> [Accounts -> Int]]
  /\ nonces \in [Nodes -> [Accounts -> Int]]
  /\ CacheIsChain

\* A mined block is no genesis block, and its id is its own.
MinedInv ==
  /\ \A b \in gossip : b.index > 0 /\ b.id <= ids
  /\ \A n \in Nodes, w \in Threads : mining[n][w] # Idle =>
       /\ mining[n][w].index > 0 /\ mining[n][w].id <= ids
       /\ \A b \in gossip : b.id # mining[n][w].id
       /\ \A m \in Nodes, v \in Threads :
            mining[m][v] # Idle /\ mining[m][v].id = mining[n][w].id => m = n /\ v = w

BlocksInv ==
  /\ gossip \subseteq Block
  /\ pool \in [Nodes -> Seq(Txs)]
  /\ mining \in [Nodes -> [Threads -> Block \cup {Idle}]]
  /\ heard \in [Nodes -> SUBSET (1 .. MaxBlocks)]
  /\ ids \in 1 .. MaxBlocks
  /\ MinedInv

ChainInv == CachesInv /\ BlocksInv

LEMMA ReplayedType ==
  ASSUME NEW c \in Seq(Block)
  PROVE  ReplayedBalances(c) \in [Accounts -> Int] /\ ReplayedNonces(c) \in [Accounts -> Int]
<1>1. \A a \in Accounts : BalanceAt(c, a, Len(c)) \in Int
  BY WalkTypes
<1>2. \A a \in Accounts : ReplayedNonces(c)[a] \in Int
  BY ReplayedIs
<1>3. ReplayedNonces(c) = [a \in Accounts |-> ReplayedNonces(c)[a]]
  BY DEF ReplayedNonces
<1> QED
  BY <1>1, <1>2, <1>3 DEF ReplayedBalances

\* A block on top, added to the caches.
LEMMA ApplyKeepsCaches ==
  ASSUME CachesInv, NEW n \in Nodes, NEW b \in Block, ApplyBlock(n, b),
         chain' = [chain EXCEPT ![n] = Append(@, b)]
  PROVE  CachesInv'
<1> DEFINE c == chain[n]
           d == Append(chain[n], b)
<1>1. /\ c \in Seq(Block) /\ d \in Seq(Block) /\ d # <<>> /\ d[1].index = 0
  BY DEF CachesInv
<1>2. /\ chain' \in [Nodes -> Seq(Block)] /\ chain'[n] = d
      /\ \A m \in Nodes \ {n} : chain'[m] = chain[m]
  BY <1>1 DEF CachesInv
<1>3. /\ balances[n] = ReplayedBalances(c) /\ nonces[n] = ReplayedNonces(c)
  BY DEF CachesInv, CacheIsChain
<1>4. [a \in Accounts |-> balances[n][a] + Credits(b, a) - Debits(b, a)] = ReplayedBalances(d)
  <2>1. \A a \in Accounts : balances[n][a] = BalanceAt(c, a, Len(c))
    BY <1>3 DEF ReplayedBalances
  <2>2. \A a \in Accounts : BalanceAt(d, a, Len(d))
                              = BalanceAt(c, a, Len(c)) + Credits(b, a) - Debits(b, a)
    BY <1>1, BalanceGrows
  <2> HIDE DEF c, d
  <2> QED
    BY <2>1, <2>2 DEF ReplayedBalances
<1>5. [a \in Accounts |-> NonceAfter(b, a, nonces[n][a])] = ReplayedNonces(d)
  <2>1. \A a \in Accounts : NonceAfter(b, a, nonces[n][a]) = ReplayedNonces(d)[a]
    BY <1>1, <1>3, NoncesGrow
  <2>2. ReplayedNonces(d) = [a \in Accounts |-> ReplayedNonces(d)[a]]
    BY DEF ReplayedNonces
  <2> HIDE DEF d
  <2> QED
    BY <2>1, <2>2
<1>6. /\ balances' = [balances EXCEPT ![n] = ReplayedBalances(d)]
      /\ nonces' = [nonces EXCEPT ![n] = ReplayedNonces(d)]
  <2> HIDE DEF d
  <2> QED
    BY <1>4, <1>5 DEF ApplyBlock, CachesInv
<1>7. ReplayedBalances(d) \in [Accounts -> Int] /\ ReplayedNonces(d) \in [Accounts -> Int]
  BY <1>1, ReplayedType
<1> HIDE DEF c, d
<1> QED
  BY <1>1, <1>2, <1>6, <1>7 DEF CachesInv, CacheIsChain

\* Another chain, walked from its genesis block.
LEMMA RecomputeKeepsCaches ==
  ASSUME CachesInv, NEW n \in Nodes, NEW d \in Seq(Block), d # <<>>, d[1].index = 0,
         chain' = [chain EXCEPT ![n] = d], Recompute(n, d)
  PROVE  CachesInv'
<1>1. /\ chain' \in [Nodes -> Seq(Block)] /\ chain'[n] = d
      /\ \A m \in Nodes \ {n} : chain'[m] = chain[m]
  BY DEF CachesInv
<1>2. /\ balances' = [balances EXCEPT ![n] = ReplayedBalances(d)]
      /\ nonces' = [nonces EXCEPT ![n] = ReplayedNonces(d)]
  BY DEF Recompute
<1>3. ReplayedBalances(d) \in [Accounts -> Int] /\ ReplayedNonces(d) \in [Accounts -> Int]
  BY ReplayedType
<1> QED
  BY <1>1, <1>2, <1>3 DEF CachesInv, CacheIsChain

LEMMA SameCaches ==
  ASSUME CachesInv, UNCHANGED <<chain, balances, nonces>>
  PROVE  CachesInv'
BY DEF CachesInv, CacheIsChain

LEMMA GenesisFacts ==
  ASSUME NEW i \in 1 .. MaxBlocks, NEW n \in Nodes
  PROVE  /\ Genesis(i, n) \in Block /\ Genesis(i, n).index = 0
         /\ <<Genesis(i, n)>> \in Seq(Block) /\ <<Genesis(i, n)>> # <<>>
         /\ <<Genesis(i, n)>>[1].index = 0
<1>1. Genesis(i, n) \in Block /\ Genesis(i, n).index = 0
  BY ChainAssumption DEF Genesis, Block, NoBlock
<1> QED
  BY <1>1

\* A genesis block says nothing of any account.
LEMMA GenesisReplay ==
  ASSUME NEW i \in 1 .. MaxBlocks, NEW n \in Nodes
  PROVE  /\ ReplayedBalances(<<Genesis(i, n)>>) = [a \in Accounts |-> 0]
         /\ ReplayedNonces(<<Genesis(i, n)>>) = [a \in Accounts |-> -1]
<1> DEFINE b == Genesis(i, n)
           c == <<b>>
<1>1. b \in Block /\ c \in Seq(Block) /\ b.txs = <<>> /\ Len(c) = 1 /\ DOMAIN c = {1} /\ c[1] = b
  BY GenesisFacts DEF Genesis
<1>2. DOMAIN b.txs = {}
  BY <1>1
<1> HIDE DEF b, c
<1>3. ASSUME NEW a \in Accounts PROVE BalanceAt(c, a, Len(c)) = 0
  <2>1. \A f : SumOver(f, DOMAIN b.txs) = 0
    BY <1>2, SumEmpty
  <2>2. Fees(b) = 0 /\ Debits(b, a) = 0
    BY <2>1, Zenon DEF Debits, Fees
  <2>3. Credits(b, a) = 0 + (IF b.miner = a THEN 0 ELSE 0)
    BY <2>1, <2>2, Zenon DEF Credits
  <2>4. Credits(b, a) = 0 /\ Debits(b, a) = 0
    BY <2>2, <2>3
  <2>5. Walked(c, Len(c)) = {1}
    BY <1>1 DEF Walked
  <2>6. /\ SumOver([j \in DOMAIN c |-> Credits(c[j], a)], {1}) = 0
        /\ SumOver([j \in DOMAIN c |-> Debits(c[j], a)], {1}) = 0
    <3>1. ASSUME NEW f, f[1] = 0 PROVE SumOver(f, {1}) = 0
      BY <3>1, SumSingle, ZenonT(60)
    <3>2. /\ [j \in DOMAIN c |-> Credits(c[j], a)][1] = 0
          /\ [j \in DOMAIN c |-> Debits(c[j], a)][1] = 0
      BY <1>1, <2>4
    <3> QED
      BY <3>1, <3>2
  <2> QED
    BY <2>5, <2>6 DEF BalanceAt
<1>4. ASSUME NEW a \in Accounts PROVE ReplayedNonces(c)[a] = -1
  <2>1. NoncesIn(b, a) = {}
    BY <1>2 DEF NoncesIn, TransfersOf, ToSet
  <2>2. Confirmed(c, a) = {}
    BY <1>1, <2>1 DEF Confirmed
  <2>3. Max({-1}) = -1
    BY MaxIs
  <2> QED
    BY <1>1, <2>2, <2>3, ReplayedIs
<1>5. ReplayedNonces(c) = [a \in Accounts |-> ReplayedNonces(c)[a]]
  BY DEF ReplayedNonces
<1> QED
  BY <1>3, <1>4, <1>5 DEF ReplayedBalances, b, c

LEMMA InitChainInv == Init => ChainInv
<1> SUFFICES ASSUME Init PROVE ChainInv
  OBVIOUS
<1>1. PICK f \in Nodes : chain = [n \in Nodes |-> <<Genesis(1, f)>>]
  BY DEF Init
<1>2. 1 \in 1 .. MaxBlocks
  BY ChainAssumption
<1> DEFINE c == <<Genesis(1, f)>>
<1>3. /\ c \in Seq(Block) /\ c # <<>> /\ c[1].index = 0
      /\ ReplayedBalances(c) = [a \in Accounts |-> 0]
      /\ ReplayedNonces(c) = [a \in Accounts |-> -1]
  BY <1>2, GenesisFacts, GenesisReplay
<1>4. CachesInv
  <2> HIDE DEF c
  <2>1. chain = [n \in Nodes |-> c]
    BY <1>1 DEF c
  <2> QED
    <3>1. /\ balances = [n \in Nodes |-> [a \in Accounts |-> 0]]
          /\ nonces = [n \in Nodes |-> [a \in Accounts |-> -1]]
      BY DEF Init
    <3>2. \A n \in Nodes : /\ chain[n] = c /\ balances[n] = ReplayedBalances(c)
                            /\ nonces[n] = ReplayedNonces(c)
      BY <1>3, <2>1, <3>1
    <3>3. chain \in [Nodes -> Seq(Block)]
      BY <1>3, <2>1
    <3>4. balances \in [Nodes -> [Accounts -> Int]] /\ nonces \in [Nodes -> [Accounts -> Int]]
      BY <3>1
    <3> QED
      BY <1>3, <3>2, <3>3, <3>4 DEF CachesInv, CacheIsChain
<1>5. BlocksInv
  BY <1>2 DEF Init, BlocksInv, MinedInv
<1> QED
  BY <1>4, <1>5 DEF ChainInv

(* The actions.                                                            *)

LEMMA AddTransactionInv ==
  ASSUME ChainInv, NEW n \in Nodes, NEW t \in Offered[n], AddTransaction(n, t)
  PROVE  ChainInv'
<1>1. t \in Txs
  BY ChainAssumption
<1>2. CachesInv'
  BY SameCaches DEF ChainInv, AddTransaction
<1>3. pool' \in [Nodes -> Seq(Txs)]
  BY <1>1 DEF ChainInv, BlocksInv, AddTransaction
<1>4. UNCHANGED <<gossip, mining, heard, ids>>
  BY DEF AddTransaction
<1> QED
  BY <1>2, <1>3, <1>4 DEF ChainInv, BlocksInv, MinedInv

LEMMA StartMineInv ==
  ASSUME ChainInv, NEW n \in Nodes, NEW w \in Threads, NEW d \in Difficulties[n],
         StartMine(n, w, d)
  PROVE  ChainInv'
<1> DEFINE b == [id |-> ids + 1, index |-> Len(chain[n]), prev |-> Tip(n).id,
                 txs |-> pool[n], diff |-> d, miner |-> Wallet[n]]
<1>1. /\ mining[n][w] = Idle /\ ids' = ids + 1 /\ ids < MaxBlocks
      /\ mining' = [mining EXCEPT ![n][w] = b]
      /\ UNCHANGED <<chain, pool, balances, nonces, heard, gossip>>
  BY DEF StartMine
<1>2. /\ chain[n] \in Seq(Block) /\ chain[n] # <<>> /\ pool[n] \in Seq(Txs)
      /\ ids \in 1 .. MaxBlocks /\ MaxBlocks \in Nat
      /\ d \in Nat /\ Wallet[n] \in Accounts
  BY ChainAssumption DEF ChainInv, CachesInv, BlocksInv
<1>3. Tip(n) \in Block /\ Len(chain[n]) \in Nat /\ Len(chain[n]) > 0
  BY <1>2 DEF Tip, Last
<1>4. ids' \in 1 .. MaxBlocks
  BY <1>1, <1>2
<1>5. b \in Block /\ b.index > 0 /\ b.id = ids' /\ b.id > ids /\ b # Idle
  <2>1. Tip(n).id \in 0 .. MaxBlocks
    BY <1>2, <1>3, BlockFields
  <2>2. b \in Block
    BY <1>1, <1>2, <1>3, <1>4, <2>1 DEF Block
  <2>3. b.id = ids' /\ b.index = Len(chain[n]) /\ Idle.id = 0
    BY <1>1 DEF Idle, NoBlock
  <2> HIDE DEF b
  <2> QED
    BY <1>1, <1>2, <1>3, <1>4, <2>2, <2>3
<1> HIDE DEF b
<1>6. /\ mining' \in [Nodes -> [Threads -> Block \cup {Idle}]]
      /\ mining'[n][w] = b
      /\ \A m \in Nodes, v \in Threads : m # n \/ v # w => mining'[m][v] = mining[m][v]
  BY <1>1, <1>5 DEF ChainInv, BlocksInv
<1>7. MinedInv'
  <2>1. /\ \A g \in gossip : g \in Block /\ g.index > 0 /\ g.id <= ids
        /\ \A m \in Nodes, v \in Threads : mining[m][v] # Idle =>
             mining[m][v] \in Block /\ mining[m][v].index > 0 /\ mining[m][v].id <= ids
    BY DEF ChainInv, BlocksInv, MinedInv
  <2>2. /\ \A g \in gossip : g.id \in Nat
        /\ \A m \in Nodes, v \in Threads : mining[m][v] # Idle => mining[m][v].id \in Nat
    BY <2>1, BlockFields
  <2>3. ids \in Nat /\ ids' = ids + 1 /\ b.id = ids + 1 /\ b.index > 0
    BY <1>1, <1>2, <1>5
  <2>4. \A g \in gossip : g.index > 0 /\ g.id <= ids' /\ g.id # b.id
    BY <2>1, <2>2, <2>3
  <2>5. \A m \in Nodes, v \in Threads :
          (m # n \/ v # w) /\ mining'[m][v] # Idle =>
            mining'[m][v].index > 0 /\ mining'[m][v].id <= ids' /\ mining'[m][v].id # b.id
    BY <1>6, <2>1, <2>2, <2>3
  <2>6. \A m \in Nodes, v \in Threads :
          (m # n \/ v # w) /\ mining'[m][v] # Idle =>
             /\ \A g \in gossip : g.id # mining'[m][v].id
             /\ \A p \in Nodes, u \in Threads :
                  /\ p # n \/ u # w
                  /\ mining'[p][u] # Idle /\ mining'[p][u].id = mining'[m][v].id
                  => p = m /\ u = v
    BY <1>6 DEF ChainInv, BlocksInv, MinedInv
  <2>7. b.id <= ids' /\ gossip' = gossip
    BY <1>1, <2>3
  <2> QED
    BY <1>6, <2>3, <2>4, <2>5, <2>6, <2>7 DEF MinedInv
<1>8. CachesInv'
  BY <1>1, SameCaches DEF ChainInv
<1> QED
  BY <1>1, <1>4, <1>6, <1>7, <1>8 DEF ChainInv, BlocksInv

LEMMA FinishMineInv ==
  ASSUME ChainInv, NEW n \in Nodes, NEW w \in Threads, FinishMine(n, w)
  PROVE  ChainInv'
<1> DEFINE b == mining[n][w]
<1>1. /\ b # Idle /\ b \in Block /\ b.id \in 1 .. MaxBlocks /\ b.index > 0 /\ b.id <= ids
      /\ \A m \in Nodes, v \in Threads :
           mining[m][v] # Idle /\ mining[m][v].id = b.id => m = n /\ v = w
  BY BlockFields DEF FinishMine, ChainInv, BlocksInv, MinedInv
<1>2. /\ chain' = [chain EXCEPT ![n] = Append(@, b)]
      /\ ApplyBlock(n, b)
      /\ pool' = [pool EXCEPT ![n] = <<>>]
      /\ gossip' = gossip \cup {b}
      /\ heard' = [heard EXCEPT ![n] = @ \cup {b.id}]
      /\ mining' = [mining EXCEPT ![n][w] = Idle] /\ ids' = ids
  BY DEF FinishMine
<1> HIDE DEF b
<1>3. CachesInv'
  BY <1>1, <1>2, ApplyKeepsCaches DEF ChainInv
<1>4. /\ mining' \in [Nodes -> [Threads -> Block \cup {Idle}]]
      /\ mining'[n][w] = Idle
      /\ \A m \in Nodes, v \in Threads : m # n \/ v # w => mining'[m][v] = mining[m][v]
  BY <1>2 DEF ChainInv, BlocksInv
<1>5. MinedInv'
  BY <1>1, <1>2, <1>4 DEF ChainInv, BlocksInv, MinedInv
<1>6. /\ gossip' \subseteq Block /\ pool' \in [Nodes -> Seq(Txs)]
      /\ heard' \in [Nodes -> SUBSET (1 .. MaxBlocks)] /\ ids' \in 1 .. MaxBlocks
  BY <1>1, <1>2 DEF ChainInv, BlocksInv
<1> QED
  BY <1>3, <1>4, <1>5, <1>6 DEF ChainInv, BlocksInv

\* What a reorganisation leaves: the genesis block, at least.
LEMMA ReorgFacts ==
  ASSUME NEW c \in Seq(Block), c # <<>>, c[1].index = 0, NEW b \in Block, b.index > 0
  PROVE  LET s == SubSeq(c, 1, Min({b.index, Len(c)}))
         IN  /\ s \in Seq(Block) /\ Append(s, b) \in Seq(Block)
             /\ Append(s, b) # <<>> /\ Append(s, b)[1].index = 0
<1> DEFINE k == Min({b.index, Len(c)})
           s == SubSeq(c, 1, k)
<1>1. Len(c) \in Nat /\ Len(c) >= 1 /\ b.index \in Nat
  BY BlockFields
<1>2. k \in 1 .. Len(c)
  <2>1. \E m \in {b.index, Len(c)} : \A x \in {b.index, Len(c)} : m <= x
    BY <1>1
  <2>2. k \in {b.index, Len(c)} /\ \A x \in {b.index, Len(c)} : k <= x
    BY <2>1 DEF Min
  <2> HIDE DEF k
  <2> QED
    BY <1>1, <2>2
<1> HIDE DEF k
<1>3. s \in Seq(Block) /\ Len(s) = k /\ s[1] = c[1]
  BY <1>1, <1>2
<1> HIDE DEF s
<1>4. Append(s, b) \in Seq(Block) /\ Append(s, b) # <<>> /\ Append(s, b)[1] = c[1]
  BY <1>2, <1>3
<1> QED
  BY <1>3, <1>4 DEF s, k

LEMMA ReceiveInv ==
  ASSUME ChainInv, NEW n \in Nodes, NEW b \in gossip, ReceiveRemoteBlock(n, b)
  PROVE  ChainInv'
<1>1. b \in Block /\ b.id \in 1 .. MaxBlocks /\ b.index > 0
  BY BlockFields DEF ChainInv, BlocksInv, MinedInv
<1>2. CachesInv'
  <2>1. CASE Extend(n, b)
    BY <1>1, <2>1, ApplyKeepsCaches DEF Extend, ChainInv
  <2>2. CASE Reorg(n, b)
    <3> DEFINE d == Append(SubSeq(chain[n], 1, Min({b.index, Len(chain[n])})), b)
    <3>1. chain[n] \in Seq(Block) /\ chain[n] # <<>> /\ chain[n][1].index = 0
      BY DEF ChainInv, CachesInv
    <3>2. d \in Seq(Block) /\ d # <<>> /\ d[1].index = 0
      BY <1>1, <3>1, ReorgFacts
    <3>3. chain' = [chain EXCEPT ![n] = d] /\ Recompute(n, chain'[n])
      BY <2>2 DEF Reorg
    <3> HIDE DEF d
    <3>4. chain'[n] = d
      BY <3>3 DEF ChainInv, CachesInv
    <3> QED
      BY <3>2, <3>3, <3>4, RecomputeKeepsCaches DEF ChainInv
  <2>3. CASE UNCHANGED <<chain, balances, nonces>>
    BY <2>3, SameCaches DEF ChainInv
  <2> QED
    BY <2>1, <2>2, <2>3 DEF ReceiveRemoteBlock
<1>3. heard' \in [Nodes -> SUBSET (1 .. MaxBlocks)] /\ UNCHANGED <<pool, mining, gossip, ids>>
  BY <1>1 DEF ChainInv, BlocksInv, ReceiveRemoteBlock
<1> QED
  BY <1>2, <1>3 DEF ChainInv, BlocksInv, MinedInv

LEMMA NewProcessInv ==
  ASSUME ChainInv, NEW n \in Nodes, NewProcess(n), ids' \in {ids, ids + 1},
         ids' \in 1 .. MaxBlocks
  PROVE  BlocksInv'
<1>1. /\ pool' = [pool EXCEPT ![n] = <<>>] /\ heard' = [heard EXCEPT ![n] = {}]
      /\ mining' = [mining EXCEPT ![n] = [w \in Threads |-> Idle]] /\ gossip' = gossip
  BY DEF NewProcess
<1>2. /\ pool' \in [Nodes -> Seq(Txs)] /\ heard' \in [Nodes -> SUBSET (1 .. MaxBlocks)]
      /\ mining' \in [Nodes -> [Threads -> Block \cup {Idle}]]
      /\ \A m \in Nodes, v \in Threads : mining'[m][v] # Idle => mining'[m][v] = mining[m][v]
  BY <1>1 DEF ChainInv, BlocksInv
<1>3. /\ \A g \in gossip : g.id \in Nat
      /\ \A m \in Nodes, v \in Threads : mining'[m][v] # Idle => mining'[m][v].id \in Nat
  BY <1>2, BlockFields DEF ChainInv, BlocksInv
<1>4. \A k \in Nat : k <= ids => k <= ids'
  BY DEF ChainInv, BlocksInv
<1>5. MinedInv'
  BY <1>1, <1>2, <1>3, <1>4 DEF ChainInv, BlocksInv, MinedInv
<1> QED
  BY <1>1, <1>2, <1>5 DEF ChainInv, BlocksInv

LEMMA RestartInv ==
  ASSUME ChainInv, NEW n \in Nodes, Restart(n)
  PROVE  ChainInv'
<1>1. BlocksInv'
  BY NewProcessInv DEF Restart, ChainInv, BlocksInv
<1>2. chain[n] \in Seq(Block) /\ chain[n] # <<>> /\ chain[n][1].index = 0
      /\ chain' = [chain EXCEPT ![n] = chain[n]] /\ Recompute(n, chain[n])
  BY DEF Restart, ChainInv, CachesInv
<1>3. CachesInv'
  BY <1>2, RecomputeKeepsCaches DEF ChainInv
<1> QED
  BY <1>1, <1>3 DEF ChainInv

LEMMA StartOverInv ==
  ASSUME ChainInv, NEW n \in Nodes, StartOver(n)
  PROVE  ChainInv'
<1>1. ids' = ids + 1 /\ ids' \in 1 .. MaxBlocks
  BY ChainAssumption DEF StartOver, ChainInv, BlocksInv
<1>2. BlocksInv'
  BY <1>1, NewProcessInv DEF StartOver
<1> DEFINE d == <<Genesis(ids', n)>>
<1>3. d \in Seq(Block) /\ d # <<>> /\ d[1].index = 0
  BY <1>1, GenesisFacts
<1>4. chain' = [chain EXCEPT ![n] = d] /\ Recompute(n, chain'[n])
  BY DEF StartOver
<1> HIDE DEF d
<1>5. chain'[n] = d
  BY <1>4 DEF ChainInv, CachesInv
<1>6. CachesInv'
  BY <1>3, <1>4, <1>5, RecomputeKeepsCaches DEF ChainInv
<1> QED
  BY <1>2, <1>6 DEF ChainInv

LEMMA ChainStep == ChainInv /\ [Next]_vars => ChainInv'
<1> SUFFICES ASSUME ChainInv, [Next]_vars PROVE ChainInv'
  OBVIOUS
<1>1. CASE UNCHANGED vars
  <2>1. CachesInv'
    BY <1>1, SameCaches DEF vars, ChainInv
  <2> QED
    BY <1>1, <2>1 DEF vars, ChainInv, BlocksInv, MinedInv
<1>2. ASSUME NEW n \in Nodes, NEW t \in Offered[n], AddTransaction(n, t) PROVE ChainInv'
  BY <1>2, AddTransactionInv
<1>3. ASSUME NEW n \in Nodes, NEW w \in Threads, NEW d \in Difficulties[n], StartMine(n, w, d)
      PROVE  ChainInv'
  BY <1>3, StartMineInv
<1>4. ASSUME NEW n \in Nodes, NEW w \in Threads, FinishMine(n, w) PROVE ChainInv'
  BY <1>4, FinishMineInv
<1>5. ASSUME NEW n \in Nodes, NEW b \in gossip, ReceiveRemoteBlock(n, b) PROVE ChainInv'
  BY <1>5, ReceiveInv
<1>6. ASSUME NEW n \in Nodes, Restart(n) \/ StartOver(n) PROVE ChainInv'
  BY <1>6, RestartInv, StartOverInv
<1> QED
  BY <1>1, <1>2, <1>3, <1>4, <1>5, <1>6 DEF Next

LEMMA ChainInvariant == Spec => []ChainInv
BY InitChainInv, ChainStep, PTL DEF Spec

\* The caches that admit transfers and pay balances follow the chain through any
\* mix of mined, received, replaced and reloaded blocks.  States CacheIsChain
\* of ChainLedger.
THEOREM CachesAlwaysFollow == Spec => []CacheIsChain
<1>1. ChainInv => CacheIsChain
  BY DEF ChainInv, CachesInv
<1> QED
  BY <1>1, ChainInvariant, PTL

(* Money: the sums over accounts and over places change places.            *)

\* Amounts at the places D, each of one account or of none of A: share[a] is
\* what of them is a's, part[a] its sum, all what is anybody's.
IsShared(D, A, who, amount, share, part, all) ==
  /\ IsFiniteSet(D) /\ IsFiniteSet(A)
  /\ \A i \in D : amount[i] \in Nat
  /\ \A a \in A, i \in D : share[a][i] = IF who[i] = a THEN amount[i] ELSE 0
  /\ \A a \in A : part[a] = SumOver(share[a], D)
  /\ \A i \in D : all[i] = IF who[i] \in A THEN amount[i] ELSE 0

\* Added up by account or by place, the amounts are the same.
LEMMA SumByAccount ==
  ASSUME NEW D, NEW A, NEW who, NEW amount, NEW share, NEW part, NEW all,
         IsShared(D, A, who, amount, share, part, all)
  PROVE  SumOver(part, A) = SumOver(all, D)
<1> USE DEF IsShared
<1> DEFINE g == [i \in D |-> [a \in A |-> share[a][i]]]
<1>1. \A a \in A, i \in D : share[a][i] \in Nat /\ g[i][a] = share[a][i]
  OBVIOUS
<1> HIDE DEF g
<1>2. ASSUME NEW i \in D PROVE all[i] = SumOver(g[i], A)
  <2>1. \A a \in A : g[i][a] = IF a = who[i] THEN amount[i] ELSE 0
    BY <1>1
  <2>2. CASE who[i] \in A
    <3> DEFINE h == g[i]
               n == amount[i]
               who_i == who[i]
    <3>1. who_i \in A /\ n \in Nat /\ \A a \in A : h[a] = IF a = who_i THEN n ELSE 0
      BY <2>1, <2>2
    <3> HIDE DEF h, n, who_i
    <3>2. SumOver(h, A) = n
      BY <3>1, SumSingle
    <3>3. SumOver(g[i], A) = amount[i]
      BY <3>2 DEF h, n
    <3> QED
      BY <2>2, <3>3
  <2>3. CASE who[i] \notin A
    <3>1. \A a \in A \ {} : g[i][a] = 0
      BY <2>1, <2>3
    <3>2. SumOver(g[i], A) = SumOver(g[i], {})
      BY <3>1, SumSkip
    <3> QED
      BY <2>3, <3>2, SumEmpty
  <2> QED
    BY <2>2, <2>3
<1>3. IsTable(A, D, share, g, part, all)
  BY <1>1, <1>2 DEF IsTable
<1> QED
  BY <1>3, SumExchange

\* A mint is nobody's debit and has no fee; anything else is somebody's.
LEMMA Mints ==
  ASSUME NEW t \in Txs
  PROVE  /\ t.kind = "mint" => t.sender \notin Accounts /\ t.fee = 0
         /\ t.kind # "mint" => t.sender \in Accounts
<1>1. t.kind = "mint" <=> t.sender = "COINBASE"
  BY MintsAssumption
<1>2. t.kind = "mint" => t.fee = 0
  BY MintsAssumption
<1> QED
  BY <1>1, <1>2, TxFields, MintsAssumption

\* A block gives all accounts together what it takes from them, and what it mints.
LEMMA BlockMints ==
  ASSUME NEW b \in Block, NEW cr, NEW de,
         \A a \in Accounts : cr[a] = Credits(b, a) /\ de[a] = Debits(b, a)
  PROVE  SumOver(cr, Accounts) = SumOver(de, Accounts) + Minted(b)
<1> DEFINE D == DOMAIN b.txs
           amount == [i \in D |-> b.txs[i].amount]
           fee == [i \in D |-> b.txs[i].fee]
           cost == [i \in D |-> b.txs[i].amount + b.txs[i].fee]
           paid == [i \in D |-> IF b.txs[i].sender \in Accounts THEN cost[i] ELSE 0]
           mint == [i \in D |-> MintOf(b.txs[i])]
           got == [a \in Accounts |->
                     SumOver([i \in D |-> IF b.txs[i].recipient = a THEN amount[i] ELSE 0], D)]
           mined == [a \in Accounts |-> IF a = b.miner THEN Fees(b) ELSE 0]
<1>1. /\ IsFiniteSet(D) /\ IsFiniteSet(Accounts) /\ b.miner \in Accounts
      /\ \A i \in D : b.txs[i] \in Txs
  BY BlockFields, ChainAssumption
<1>2. \A i \in D : /\ b.txs[i].amount \in Nat /\ b.txs[i].fee \in Nat
                   /\ b.txs[i].recipient \in Accounts
                   /\ b.txs[i].sender \in Accounts \cup {"COINBASE"}
  BY <1>1, TxFields
<1>3. /\ Fees(b) = SumOver(fee, D) /\ Fees(b) \in Nat
      /\ Minted(b) = SumOver(mint, D) /\ Minted(b) \in Nat
  BY BlockSums DEF Fees, Minted
<1>4. SumOver(got, Accounts) = SumOver(amount, D)
  <2> DEFINE who == [i \in D |-> b.txs[i].recipient]
             share == [a \in Accounts |->
                         [i \in D |-> IF b.txs[i].recipient = a THEN amount[i] ELSE 0]]
  <2>1. \A i \in D : amount[i] \in Nat /\ who[i] \in Accounts
    BY <1>2
  <2>2. \A a \in Accounts : got[a] = SumOver(share[a], D)
    OBVIOUS
  <2>3. \A a \in Accounts, i \in D : share[a][i] = IF who[i] = a THEN amount[i] ELSE 0
    OBVIOUS
  <2>4. \A i \in D : amount[i] = IF who[i] \in Accounts THEN amount[i] ELSE 0
    BY <2>1
  <2> HIDE DEF D, amount, got, who, share
  <2>5. IsShared(D, Accounts, who, amount, share, got, amount)
    BY <1>1, <2>1, <2>2, <2>3, <2>4 DEF IsShared
  <2> QED
    BY <2>5, SumByAccount
<1>5. SumOver(mined, Accounts) = Fees(b)
  BY <1>1, <1>3, SumSingle, ZenonT(60)
<1>6. SumOver(cr, Accounts) = SumOver(amount, D) + Fees(b)
  <2>1. \A a \in Accounts : cr[a] = got[a] + mined[a]
    <3>1. \A a : [i \in D |-> IF b.txs[i].recipient = a THEN amount[i] ELSE 0]
                   = [i \in DOMAIN b.txs |-> IF b.txs[i].recipient = a THEN b.txs[i].amount ELSE 0]
      OBVIOUS
    <3> QED
      BY <3>1 DEF Credits
  <2>2. \A a \in Accounts : got[a] \in Nat /\ mined[a] \in Nat
    <3>1. ASSUME NEW a \in Accounts
          PROVE  SumOver([i \in D |-> IF b.txs[i].recipient = a THEN amount[i] ELSE 0], D) \in Nat
      BY <1>1, <1>2, SumNat
    <3> QED
      BY <1>3, <3>1
  <2> HIDE DEF got, mined, amount, D
  <2>3. SumOver(cr, Accounts) = SumOver(got, Accounts) + SumOver(mined, Accounts)
    BY <1>1, <2>1, <2>2, SumPlus
  <2> QED
    BY <1>4, <1>5, <2>3
<1>7. SumOver(de, Accounts) = SumOver(paid, D)
  <2> DEFINE who == [i \in D |-> b.txs[i].sender]
             share == [a \in Accounts |->
                         [i \in DOMAIN b.txs |->
                            IF b.txs[i].sender = a THEN b.txs[i].amount + b.txs[i].fee ELSE 0]]
  <2>1. \A i \in D : cost[i] \in Nat
    BY <1>2
  <2>2. \A a \in Accounts : de[a] = SumOver(share[a], D)
    BY DEF Debits
  <2>3. \A a \in Accounts, i \in D : share[a][i] = IF who[i] = a THEN cost[i] ELSE 0
    OBVIOUS
  <2>4. \A i \in D : paid[i] = IF who[i] \in Accounts THEN cost[i] ELSE 0
    OBVIOUS
  <2> HIDE DEF D, cost, who, share, paid
  <2>5. IsShared(D, Accounts, who, cost, share, de, paid)
    BY <1>1, <2>1, <2>2, <2>3, <2>4 DEF IsShared
  <2> QED
    BY <2>5, SumByAccount
<1>8. SumOver(amount, D) + SumOver(fee, D) = SumOver(paid, D) + SumOver(mint, D)
  <2>1. ASSUME NEW i \in D
        PROVE  /\ amount[i] \in Nat /\ fee[i] \in Nat /\ paid[i] \in Nat /\ mint[i] \in Nat
               /\ amount[i] + fee[i] = paid[i] + mint[i]
    <3>1. CASE b.txs[i].kind = "mint"
      <4>1. b.txs[i].sender \notin Accounts /\ b.txs[i].fee = 0
        BY <1>1, <3>1, Mints
      <4> QED
        BY <1>2, <3>1, <4>1 DEF MintOf
    <3>2. CASE b.txs[i].kind # "mint"
      <4>1. b.txs[i].sender \in Accounts
        BY <1>1, <3>2, Mints
      <4> QED
        BY <1>2, <3>2, <4>1 DEF MintOf
    <3> QED
      BY <3>1, <3>2
  <2> HIDE DEF amount, fee, paid, mint, D
  <2> QED
    BY <1>1, <2>1, SumMoves
<1> HIDE DEF amount, fee, paid, mint, D
<1> QED
  BY <1>3, <1>6, <1>7, <1>8

\* What the blocks D of a chain c credit, debit and mint, by account and block.
IsWalk(c, D, fc, fd, cr, de, mint) ==
  /\ c \in Seq(Block) /\ D = 1 .. Len(c)
  /\ \A a \in Accounts, i \in D :
       fc[a][i] = Credits(c[i], a) /\ fd[a][i] = Debits(c[i], a)
  /\ \A a \in Accounts : cr[a] = SumOver(fc[a], D) /\ de[a] = SumOver(fd[a], D)
  /\ \A i \in D : mint[i] = Minted(c[i])

\* Of a chain: what the walk finds of all accounts together is what was minted.
LEMMA ChainMints ==
  ASSUME NEW c, NEW D, NEW fc, NEW fd, NEW cr, NEW de, NEW mint,
         IsWalk(c, D, fc, fd, cr, de, mint)
  PROVE  /\ SumOver(cr, Accounts) = SumOver(de, Accounts) + SumOver(mint, D)
         /\ \A a \in Accounts : cr[a] \in Nat /\ de[a] \in Nat
<1> USE DEF IsWalk
<1> DEFINE gc == [i \in D |-> [a \in Accounts |-> fc[a][i]]]
           gd == [i \in D |-> [a \in Accounts |-> fd[a][i]]]
           sc == [i \in D |-> SumOver(gc[i], Accounts)]
           sd == [i \in D |-> SumOver(gd[i], Accounts)]
<1>1. /\ IsFiniteSet(D) /\ IsFiniteSet(Accounts)
      /\ \A i \in D : c[i] \in Block
  BY FS_Interval, ChainAssumption
<1>2. \A a \in Accounts, i \in D : fc[a][i] \in Nat /\ fd[a][i] \in Nat
  BY <1>1, BlockSums
<1>3. \A i \in D : mint[i] \in Nat
  BY <1>1, BlockSums
<1>4. \A a \in Accounts, i \in D : gc[i][a] = fc[a][i] /\ gd[i][a] = fd[a][i]
  OBVIOUS
<1>5. \A i \in D : sc[i] = SumOver(gc[i], Accounts) /\ sd[i] = SumOver(gd[i], Accounts)
  OBVIOUS
<1> HIDE DEF gc, gd, sc, sd
<1>6. ASSUME NEW i \in D
      PROVE  sc[i] = sd[i] + mint[i] /\ sd[i] \in Nat
  <2>1. \A a \in Accounts : gc[i][a] = Credits(c[i], a) /\ gd[i][a] = Debits(c[i], a)
    BY <1>4
  <2>2. SumOver(gc[i], Accounts) = SumOver(gd[i], Accounts) + Minted(c[i])
    BY <1>1, <2>1, BlockMints, ZenonT(60)
  <2>3. SumOver(gd[i], Accounts) \in Nat
    BY <1>1, <1>2, <1>4, SumNat
  <2> QED
    BY <1>5, <2>2, <2>3
<1>7. SumOver(cr, Accounts) = SumOver(sc, D)
  <2>1. IsTable(Accounts, D, fc, gc, cr, sc)
    BY <1>1, <1>2, <1>4, <1>5 DEF IsTable
  <2> QED
    BY <2>1, SumExchange
<1>8. SumOver(de, Accounts) = SumOver(sd, D)
  <2>1. IsTable(Accounts, D, fd, gd, de, sd)
    BY <1>1, <1>2, <1>4, <1>5 DEF IsTable
  <2> QED
    BY <2>1, SumExchange
<1>9. SumOver(sc, D) = SumOver(sd, D) + SumOver(mint, D)
  <2>1. \A i \in D : sd[i] \in Nat /\ mint[i] \in Nat /\ sc[i] = sd[i] + mint[i]
    BY <1>3, <1>6
  <2>2. IsFiniteSet(D)
    BY <1>1
  <2> HIDE DEF IsWalk
  <2> QED
    BY <2>1, <2>2, SumPlus
<1>10. \A a \in Accounts : cr[a] \in Nat /\ de[a] \in Nat
  BY <1>1, <1>2, SumNat, ZenonT(60)
<1> QED
  BY <1>7, <1>8, <1>9, <1>10

\* Forks, replays and reloads neither make nor lose money: the accounts of a
\* node, debts included, hold what its chain minted.  States MoneyIsMinted of
\* ChainLedger.
THEOREM MoneyIsAlwaysMinted == Spec => []MoneyIsMinted
<1>1. ASSUME ChainInv, NEW n \in Nodes
      PROVE  SumOver(Owned(n), Accounts)
               = SumOver(Owed(n), Accounts) + SupplyAt(chain[n], Len(chain[n]))
  <2> DEFINE c == chain[n]
             D == 1 .. Len(c)
             fc == [a \in Accounts |-> [i \in DOMAIN c |-> Credits(c[i], a)]]
             fd == [a \in Accounts |-> [i \in DOMAIN c |-> Debits(c[i], a)]]
             mint == [i \in DOMAIN c |-> Minted(c[i])]
             cr == [a \in Accounts |-> SumOver(fc[a], D)]
             de == [a \in Accounts |-> SumOver(fd[a], D)]
             supply == SumOver(mint, D)
  <2>1. c \in Seq(Block) /\ Walked(c, Len(c)) = D /\ DOMAIN c = D /\ Len(c) \in Nat
    <3>1. c \in Seq(Block)
      BY <1>1 DEF ChainInv, CachesInv
    <3> QED
      BY <3>1, WalkedAll
  <2>2. \A a \in Accounts : balances[n][a] = cr[a] - de[a]
    <3>1. \A a \in Accounts : balances[n][a] = BalanceAt(c, a, Len(c))
      BY <1>1 DEF ChainInv, CachesInv, CacheIsChain, ReplayedBalances
    <3>2. ASSUME NEW a \in Accounts PROVE BalanceAt(c, a, Len(c)) = cr[a] - de[a]
      BY <2>1 DEF BalanceAt
    <3> QED
      BY <3>1, <3>2
  <2>3. SupplyAt(c, Len(c)) = supply /\ supply \in Nat
    <3>1. SupplyAt(c, Len(c)) = supply
      BY <2>1 DEF SupplyAt
    <3> HIDE DEF c, supply
    <3>2. SupplyAt(c, Len(c)) \in Nat
      BY <2>1, WalkTypes
    <3> QED
      BY <3>1, <3>2
  <2>4. /\ \A a \in Accounts, i \in D : fc[a][i] = Credits(c[i], a) /\ fd[a][i] = Debits(c[i], a)
        /\ \A i \in D : mint[i] = Minted(c[i])
        /\ \A a \in Accounts : cr[a] = SumOver(fc[a], D) /\ de[a] = SumOver(fd[a], D)
    BY <2>1
  <2>5. IsWalk(c, D, fc, fd, cr, de, mint)
    BY <2>1, <2>4 DEF IsWalk
  <2> HIDE DEF c, D, cr, de, fc, fd, mint
  <2>6. /\ SumOver(cr, Accounts) = SumOver(de, Accounts) + supply
        /\ \A a \in Accounts : cr[a] \in Nat /\ de[a] \in Nat
    BY <2>5, ChainMints
  <2>7. \A a \in Accounts : /\ Owned(n)[a] \in Nat /\ Owed(n)[a] \in Nat
                            /\ Owned(n)[a] + de[a] = Owed(n)[a] + cr[a]
    BY <2>2, <2>6 DEF Owned, Owed
  <2>8. IsFiniteSet(Accounts)
    BY ChainAssumption
  <2>9. SumOver(Owned(n), Accounts) + SumOver(de, Accounts)
          = SumOver(Owed(n), Accounts) + SumOver(cr, Accounts)
    BY <2>6, <2>7, <2>8, SumMoves
  <2>10. /\ SumOver(Owned(n), Accounts) \in Nat /\ SumOver(Owed(n), Accounts) \in Nat
        /\ SumOver(de, Accounts) \in Nat
    BY <2>6, <2>7, <2>8, SumNat
  <2> HIDE DEF supply
  <2>11. SumOver(Owned(n), Accounts) = SumOver(Owed(n), Accounts) + supply
    BY <2>3, <2>6, <2>9, <2>10
  <2> QED
    BY <2>3, <2>11 DEF c
<1>2. ChainInv => MoneyIsMinted
  BY <1>1 DEF MoneyIsMinted
<1> QED
  BY <1>2, ChainInvariant, PTL

(* Replays: a transfer is in a chain only with a nonce its sender's cache has. *)

\* The transfers of a chain have nonces the caches have passed.
LEMMA TransfersConfirmed ==
  ASSUME ChainInv, NEW n \in Nodes, NEW t \in Transfers(chain[n])
  PROVE  t \in Txs /\ t.kind = "transfer" /\ t.sender \in Accounts /\ t.nonce \in Nat
         /\ nonces[n][t.sender] \in Int /\ t.nonce <= nonces[n][t.sender]
<1>1. /\ chain[n] \in Seq(Block) /\ nonces[n] = ReplayedNonces(chain[n])
  BY DEF ChainInv, CachesInv, CacheIsChain
<1>2. PICK i \in DOMAIN chain[n] : t \in ToSet(chain[n][i].txs) /\ t.kind = "transfer"
  BY DEF Transfers
<1>3. chain[n][i] \in Block
  BY <1>1
<1>4. t \in Txs
  BY <1>2, <1>3, BlockFields DEF ToSet
<1>5. t.sender \in Accounts /\ t.nonce \in Nat
  BY <1>2, <1>4, Mints, TxFields
<1>6. t.nonce \in Confirmed(chain[n], t.sender)
  BY <1>2 DEF Confirmed, NoncesIn, TransfersOf
<1> QED
  BY <1>1, <1>2, <1>4, <1>5, <1>6, ReplayedIs

\* A block that validates at a node has none of the transfers of its chain.
LEMMA ValidatesAfresh ==
  ASSUME ChainInv, NEW n \in Nodes, NEW b \in gossip, Validates(n, b)
  PROVE  Transfers(<<b>>) \cap Transfers(chain[n]) = {}
<1> SUFFICES ASSUME NEW t \in Transfers(<<b>>), t \in Transfers(chain[n]) PROVE FALSE
  OBVIOUS
<1>1. t \in ToSet(b.txs) /\ t.kind = "transfer"
  BY DEF Transfers
<1>2. PICK i \in DOMAIN b.txs : t = b.txs[i]
  BY <1>1 DEF ToSet
<1>3. t.nonce > nonces[n][t.sender]
  BY <1>1, <1>2 DEF Validates
<1>4. t.nonce \in Nat /\ nonces[n][t.sender] \in Int /\ t.nonce <= nonces[n][t.sender]
  BY TransfersConfirmed
<1> QED
  BY <1>3, <1>4

\* What a node appends is the last of its chain.
LEMMA Installed ==
  ASSUME NEW n \in Nodes, NEW c \in Seq(Block), NEW b \in Block, chain \in [Nodes -> Seq(Block)],
         chain' = [chain EXCEPT ![n] = Append(c, b)]
  PROVE  Last(chain'[n]) = b /\ \A m \in Nodes \ {n} : chain'[m] = chain[m]
BY DEF Last

\* A block from another node brings no transfer the chain already had: the block
\* on top comes from gossip only where it validated against the caches.  States
\* RemoteNeverReplays of ChainLedger.
THEOREM RemoteBlocksAreFresh == Spec => RemoteNeverReplays
<1> DEFINE Fresh(n) ==
      chain'[n] # chain[n] /\ Last(chain'[n]) \in gossip =>
        Transfers(<<Last(chain'[n])>>) \cap Transfers(chain[n]) = {}
<1>1. ASSUME ChainInv, UNCHANGED chain PROVE \A n \in Nodes : Fresh(n)
  BY <1>1
<1>2. ASSUME ChainInv, NEW n \in Nodes, NEW w \in Threads, FinishMine(n, w)
      PROVE  \A m \in Nodes : Fresh(m)
  <2> DEFINE b == mining[n][w]
  <2>1. chain[n] \in Seq(Block) /\ chain \in [Nodes -> Seq(Block)]
    BY <1>2 DEF ChainInv, CachesInv
  <2>2. b \in Block /\ b \notin gossip
    BY <1>2 DEF FinishMine, ChainInv, BlocksInv, MinedInv
  <2>3. chain' = [chain EXCEPT ![n] = Append(chain[n], b)]
    BY <1>2 DEF FinishMine
  <2> HIDE DEF b
  <2> QED
    BY <2>1, <2>2, <2>3, Installed
<1>3. ASSUME ChainInv, NEW n \in Nodes, NEW b \in gossip, ReceiveRemoteBlock(n, b)
      PROVE  \A m \in Nodes : Fresh(m)
  <2>1. b \in Block /\ chain[n] \in Seq(Block) /\ chain \in [Nodes -> Seq(Block)]
    BY <1>3 DEF ChainInv, CachesInv, BlocksInv
  <2>2. ASSUME Validates(n, b), NEW c \in Seq(Block),
               chain' = [chain EXCEPT ![n] = Append(c, b)]
        PROVE  \A m \in Nodes : Fresh(m)
    BY <1>3, <2>1, <2>2, Installed, ValidatesAfresh
  <2>3. CASE Validates(n, b) /\ Extend(n, b)
    BY <2>1, <2>2, <2>3 DEF Extend
  <2>4. CASE Validates(n, b) /\ Reorg(n, b)
    <3> DEFINE s == SubSeq(chain[n], 1, Min({b.index, Len(chain[n])}))
    <3>1. s \in Seq(Block)
      BY <1>3, <2>1, ReorgFacts DEF ChainInv, CachesInv, BlocksInv, MinedInv
    <3>2. chain' = [chain EXCEPT ![n] = Append(s, b)]
      BY <2>4 DEF Reorg
    <3> HIDE DEF s
    <3> QED
      BY <2>2, <2>4, <3>1, <3>2
  <2>5. CASE UNCHANGED chain
    BY <2>5
  <2> QED
    BY <1>3, <2>3, <2>4, <2>5 DEF ReceiveRemoteBlock
<1>4. ASSUME ChainInv, NEW n \in Nodes, StartOver(n) PROVE \A m \in Nodes : Fresh(m)
  <2> DEFINE b == Genesis(ids', n)
  <2>1. ids' \in 1 .. MaxBlocks
    BY <1>4, ChainAssumption DEF StartOver, ChainInv, BlocksInv
  <2>2. b \in Block /\ b.index = 0 /\ chain \in [Nodes -> Seq(Block)]
    BY <1>4, <2>1, GenesisFacts DEF ChainInv, CachesInv
  <2>3. chain' = [chain EXCEPT ![n] = <<b>>]
    BY <1>4 DEF StartOver
  <2> HIDE DEF b
  <2>4. Last(chain'[n]) = b /\ \A m \in Nodes \ {n} : chain'[m] = chain[m]
    BY <2>2, <2>3 DEF Last
  <2>5. b \notin gossip
    BY <1>4, <2>2 DEF ChainInv, BlocksInv, MinedInv
  <2> QED
    BY <2>4, <2>5
<1>5. ASSUME ChainInv, [Next]_vars PROVE \A n \in Nodes : Fresh(n)
  <2>1. CASE UNCHANGED vars
    BY <1>1, <1>5, <2>1 DEF vars
  <2>2. CASE UNCHANGED chain
    BY <1>1, <1>5, <2>2
  <2>3. \A n \in Nodes : /\ \A t : AddTransaction(n, t) => UNCHANGED chain
                         /\ \A w, d : StartMine(n, w, d) => UNCHANGED chain
                         /\ Restart(n) => UNCHANGED chain
    BY DEF AddTransaction, StartMine, Restart
  <2> HIDE DEF Fresh
  <2> QED
    BY <1>2, <1>3, <1>4, <1>5, <2>1, <2>2, <2>3 DEF Next
<1>6. ChainInv /\ [Next]_vars
        => [\A n \in Nodes :
              chain'[n] # chain[n] /\ Last(chain'[n]) \in gossip =>
                Transfers(<<Last(chain'[n])>>) \cap Transfers(chain[n]) = {}]_vars
  BY <1>5
<1> QED
  BY <1>6, ChainInvariant, PTL DEF Spec, RemoteNeverReplays

(* GovernanceDAO: what is counted while the window is open decides once it is shut. *)

\* The DAO only reads its ledger, or restarts it: under it the ledger does what it does.
THEOREM DAOIsLedger == DAOSpec => Spec
<1>1. DAOInit => Init
  BY DEF DAOInit
<1>2. [DAONext]_<<vars, daoVars>> => [Next]_vars
  BY GovernanceAssumption DEF DAONext, DAOStep, CreateProposal, Close, GetResult, Execute,
     ExecuteAndCrash, Vote, Next
<1> QED
  BY <1>1, <1>2, PTL DEF DAOSpec, Spec

Proposal == [snapshot : Nat, yes : Nat, no : Nat, voters : SUBSET Accounts, status : Statuses]

\* Passed is passed by the votes of a window that is shut, whatever ran since.
DAOInv ==
  /\ proposal = NoProposal \/ proposal \in Proposal
  /\ closed \in BOOLEAN /\ executed \in 0 .. MaxExecuted
  /\ closed => proposal # NoProposal
  /\ proposal.status \in {"PASSED", "EXECUTED"} \/ executed > 0 =>
       proposal # NoProposal /\ closed /\ proposal.yes > proposal.no

LEMMA ProposalFacts ==
  ASSUME DAOInv, ChainInv, proposal # NoProposal
  PROVE  /\ proposal \in Proposal /\ chain[Host] \in Seq(Block)
         /\ Outcome \in Statuses \ {"EXECUTED"}
         /\ Outcome = "PASSED" => proposal.yes > proposal.no
         /\ \A a \in Accounts : Weight(a) \in Int
<1>1. proposal \in Proposal /\ chain[Host] \in Seq(Block)
  BY GovernanceAssumption DEF DAOInv, ChainInv, CachesInv
<1>2. Outcome \in Statuses \ {"EXECUTED"} /\ (Outcome = "PASSED" => proposal.yes > proposal.no)
  BY DEF Outcome, Statuses
<1>3. \A a \in Accounts : Weight(a) \in Int
  BY <1>1, WalkTypes DEF Weight, Proposal
<1> QED
  BY <1>1, <1>2, <1>3

LEMMA FinalizeInv ==
  ASSUME DAOInv, ChainInv, proposal # NoProposal, closed, FinalizeProposal,
         UNCHANGED <<closed, executed>>
  PROVE  DAOInv'
<1> DEFINE o == Outcome
<1>1. /\ proposal \in Proposal /\ o \in Statuses \ {"EXECUTED"}
      /\ o = "PASSED" => proposal.yes > proposal.no
  BY ProposalFacts
<1>2. proposal' = [proposal EXCEPT !.status = o]
  BY DEF FinalizeProposal
<1> HIDE DEF o
<1>3. /\ proposal' \in Proposal /\ proposal'.status = o
      /\ proposal'.yes = proposal.yes /\ proposal'.no = proposal.no
  BY <1>1, <1>2 DEF Proposal
<1>4. proposal' # NoProposal
  BY <1>1, <1>3 DEF NoProposal, Statuses
<1> QED
  BY <1>1, <1>3, <1>4 DEF DAOInv

LEMMA CountInv ==
  ASSUME DAOInv, ChainInv, proposal # NoProposal, ~closed, NEW a \in Accounts,
         NEW choice \in BOOLEAN, CountVote(a, choice), UNCHANGED <<closed, executed>>
  PROVE  DAOInv'
<1> DEFINE y == IF choice THEN Weight(a) ELSE 0
           z == IF choice THEN 0 ELSE Weight(a)
<1>1. proposal \in Proposal /\ proposal.status \notin {"PASSED", "EXECUTED"} /\ ~(executed > 0)
  BY ProposalFacts DEF DAOInv
<1>2. y \in Nat /\ z \in Nat
  BY ProposalFacts DEF CountVote
<1>3. proposal' = [proposal EXCEPT !.voters = @ \cup {a}, !.yes = @ + y, !.no = @ + z]
  BY DEF CountVote
<1> HIDE DEF y, z
<1>4. proposal' \in Proposal /\ proposal'.status = proposal.status
  <2>1. /\ proposal.voters \cup {a} \in SUBSET Accounts
        /\ proposal.yes + y \in Nat /\ proposal.no + z \in Nat
    BY <1>1, <1>2 DEF Proposal
  <2> DEFINE s == proposal.voters \cup {a}
             p == proposal.yes + y
             q == proposal.no + z
  <2>2. proposal' = [[[proposal EXCEPT !.voters = s] EXCEPT !.yes = p] EXCEPT !.no = q]
    BY <1>1, <1>3 DEF Proposal
  <2>3. s \in SUBSET Accounts /\ p \in Nat /\ q \in Nat
    BY <2>1
  <2> HIDE DEF s, p, q
  <2> QED
    BY <1>1, <2>2, <2>3 DEF Proposal
<1> QED
  BY <1>1, <1>4 DEF DAOInv

LEMMA DAOStepInv ==
  ASSUME DAOInv, ChainInv, [DAONext]_<<vars, daoVars>>
  PROVE  DAOInv'
<1>1. CASE UNCHANGED daoVars
  BY <1>1 DEF daoVars, DAOInv
<1>2. CASE CreateProposal
  <2>1. Len(chain[Host]) \in Nat
    BY GovernanceAssumption DEF ChainInv, CachesInv
  <2>2. /\ proposal' \in Proposal /\ proposal'.status = "ACTIVE" /\ UNCHANGED <<closed, executed>>
        /\ proposal = NoProposal
    BY <1>2, <2>1 DEF CreateProposal, Proposal, Statuses
  <2>3. ~closed /\ ~(executed > 0)
    BY <2>2 DEF DAOInv
  <2> QED
    BY <2>2, <2>3 DEF DAOInv
<1>3. CASE Close
  BY <1>3 DEF Close, DAOInv
<1>4. CASE GetResult
  BY <1>4, FinalizeInv DEF GetResult
<1>5. ASSUME NEW a \in Accounts, NEW choice \in BOOLEAN, Vote(a, choice) PROVE DAOInv'
  BY <1>5, FinalizeInv, CountInv DEF Vote
<1>6. CASE Execute
  <2>1. proposal \in Proposal /\ closed /\ proposal.yes > proposal.no
    BY <1>6 DEF Execute, DAOInv
  <2>2. /\ proposal' \in Proposal /\ proposal'.status = "EXECUTED"
        /\ proposal'.yes = proposal.yes /\ proposal'.no = proposal.no
    BY <1>6, <2>1 DEF Execute, Proposal, Statuses
  <2>3. closed' = closed /\ executed' \in 0 .. MaxExecuted
    BY <1>6, GovernanceAssumption DEF Execute, DAOInv
  <2>4. proposal' # NoProposal
    BY <2>2 DEF NoProposal
  <2> QED
    BY <2>1, <2>2, <2>3, <2>4 DEF DAOInv
<1>7. CASE ExecuteAndCrash
  BY <1>7, GovernanceAssumption DEF ExecuteAndCrash, DAOInv
<1>8. UNCHANGED <<vars, daoVars>> => UNCHANGED daoVars
  OBVIOUS
<1> QED
  BY <1>1, <1>2, <1>3, <1>4, <1>5, <1>6, <1>7, <1>8 DEF DAONext, DAOStep

LEMMA DAOInvariant == DAOSpec => [](ChainInv /\ DAOInv)
<1>1. DAOInit => DAOInv
  <2> SUFFICES ASSUME DAOInit PROVE DAOInv
    OBVIOUS
  <2>1. proposal = NoProposal /\ closed \in BOOLEAN /\ ~closed
    BY DEF DAOInit
  <2>2. proposal.status = "NONE"
    BY <2>1 DEF NoProposal
  <2>3. executed \in 0 .. MaxExecuted /\ ~(executed > 0)
    BY GovernanceAssumption DEF DAOInit
  <2> QED
    BY <2>1, <2>2, <2>3 DEF DAOInv
<1>2. ChainInv /\ DAOInv /\ [DAONext]_<<vars, daoVars>> => DAOInv'
  BY DAOStepInv
<1>3. DAOSpec => []ChainInv
  BY DAOIsLedger, ChainInvariant, PTL
<1> QED
  BY <1>1, <1>2, <1>3, PTL DEF DAOSpec

\* The ledger and the DAO keep their types.  States DAOTypeOK of GovernanceDAO.
THEOREM DAOTypes == DAOSpec => []DAOTypeOK
<1>1. ChainInv /\ DAOInv => DAOTypeOK
  BY DEF ChainInv, CachesInv, BlocksInv, DAOInv, TypeOK, DAOTypeOK, Proposal
<1> QED
  BY <1>1, DAOInvariant, PTL

\* An action once executed has the majority it was executed on, through forks,
\* restarts and late calls: votes are counted while the window is open, and
\* nothing passes before it is shut.  States ApprovedByMajority of GovernanceDAO.
THEOREM AlwaysApproved == DAOSpec => []ApprovedByMajority
<1>1. DAOInv => ApprovedByMajority
  BY DEF DAOInv, ApprovedByMajority
<1> QED
  BY <1>1, DAOInvariant, PTL
-----------------------------------------------------------------------------
(* MeshServices: the types of the five services, side by side.             *)

\* The decision takes one of the results.
LEMMA MajorityType ==
  ASSUME NEW rs \in Seq(Payloads), rs # <<>>
  PROVE  Majority(rs) \in Payloads
<1> DEFINE wins == {i \in DOMAIN rs : rs[i] # "error"}
           times(i) == Cardinality({j \in wins : rs[j] = rs[i]})
           Best(i) == \A j \in wins : \/ times(j) < times(i)
                                      \/ times(j) = times(i) /\ i <= j
<1>1. DOMAIN rs = 1 .. Len(rs) /\ Len(rs) \in Nat /\ Len(rs) >= 1
  OBVIOUS
<1>2. wins \in SUBSET Nat /\ IsFiniteSet(wins)
  <2>1. wins \in SUBSET (1 .. Len(rs)) /\ 1 .. Len(rs) \in SUBSET Nat
    BY <1>1
  <2>2. IsFiniteSet(1 .. Len(rs))
    BY <1>1, FS_Interval
  <2> HIDE DEF wins
  <2> QED
    BY <2>1, <2>2, FS_Subset
<1>3. CASE wins = {}
  BY <1>1, <1>3 DEF Majority
<1>4. CASE wins # {}
  <2> DEFINE T == {times(i) : i \in wins}
  <2>1. \A i \in wins : times(i) \in Nat
    BY <1>2, FS_Subset, FS_CardinalityType
  <2>2. IsFiniteSet(T)
    <3> DEFINE at == [i \in wins |-> times(i)]
    <3>1. at \in Surjection(wins, T)
      BY DEF Surjection
    <3> QED
      BY <1>2, <3>1, FS_Surjection
  <2>3. T \in SUBSET Nat /\ T # {}
    BY <1>4, <2>1
  <2> HIDE DEF times
  <2>4. PICK most \in T : \A k \in T : k <= most
    <3> HIDE DEF T
    <3> QED
      BY <2>2, <2>3, LargestMember
  <2> DEFINE W == {i \in wins : times(i) = most}
  <2>5. W \in SUBSET Nat /\ IsFiniteSet(W) /\ W # {}
    <3>1. W \in SUBSET wins /\ W # {}
      BY <2>4
    <3> HIDE DEF W, wins
    <3> QED
      BY <1>2, <3>1, FS_Subset
  <2>6. PICK first \in W : \A j \in W : first <= j
    <3> HIDE DEF W
    <3> QED
      BY <2>5, SmallestMember
  <2>7. Best(first)
    <3> SUFFICES ASSUME NEW j \in wins
                 PROVE  \/ times(j) < times(first)
                        \/ times(j) = times(first) /\ first <= j
      OBVIOUS
    <3>1. times(j) \in Nat /\ times(j) <= most /\ times(first) = most /\ most \in Nat
      BY <2>1, <2>3, <2>4, <2>6
    <3>2. times(j) = most => first <= j
      BY <2>6
    <3>3. times(j) < most \/ times(j) = most
      <4> HIDE DEF W, T, wins
      <4> QED
        BY <3>1
    <3>4. CASE times(j) = most
      BY <3>1, <3>2, <3>4, Zenon
    <3>5. CASE times(j) < most
      <4>1. times(first) = most
        BY <3>1
      <4>2. times(j) < times(first)
        BY ONLY <3>5, <4>1
      <4> QED
        BY <4>2, Zenon
    <3> QED
      BY <3>3, <3>4, <3>5, Zenon
  <2>8. (CHOOSE i \in wins : Best(i)) \in wins
    <3>1. first \in wins
      BY <2>6
    <3> HIDE DEF Best, wins
    <3> QED
      BY <2>7, <3>1
  <2>9. Majority(rs) = rs[CHOOSE i \in wins : Best(i)]
    BY <1>4 DEF Majority, times
  <2> HIDE DEF Best
  <2> QED
    BY <2>8, <2>9
<1> QED
  BY <1>3, <1>4

LEMMA RouterTypeStep == RouterTypeOK /\ [RouterNext]_routerVars => RouterTypeOK'
<1> SUFFICES ASSUME RouterTypeOK, [RouterNext]_routerVars PROVE RouterTypeOK'
  OBVIOUS
<1> USE DEF RouterTypeOK
<1>1. ASSUME NEW t \in Tasks, NEW p \in Payloads, Finalize(t, p)
      PROVE  /\ inflight' \in [Tasks -> {"none", "open", "done", "popped"}]
             /\ answers' \in [Tasks -> Seq(Payloads)]
  <2>1. CASE IsOpen(t)
    <3>1. Append(answers[t], p) \in Seq(Payloads)
      OBVIOUS
    <3> QED
      BY <1>1, <2>1, <3>1 DEF Finalize
  <2>2. CASE ~IsOpen(t)
    BY <1>1, <2>2 DEF Finalize
  <2> QED
    BY <2>1, <2>2
<1>2. "error" \in Payloads
  BY DEF Payloads
<1>3. ASSUME NEW t \in Tasks, Submit(t) \/ Cancel(t) PROVE RouterTypeOK'
  BY <1>3 DEF Submit, Cancel
<1>4. ASSUME NEW t \in Tasks, Dispatch(t) PROVE RouterTypeOK'
  <2>1. CASE DispatchPopped(t)
    BY <2>1 DEF DispatchPopped
  <2>2. CASE DispatchToNobody(t)
    BY <1>1, <1>2, <2>2 DEF DispatchToNobody
  <2>3. ASSUME NEW chosen \in SUBSET Workers, DispatchTo(t, chosen) PROVE RouterTypeOK'
    BY <2>3 DEF DispatchTo, Mails
  <2>4. \A eligible \in SUBSET nodes : Pool(eligible) \in SUBSET Workers
    BY DEF Pool
  <2> QED
    BY <1>4, <2>1, <2>2, <2>3, <2>4 DEF Dispatch
<1>5. ASSUME NEW t \in Tasks, Watchdog(t) PROVE RouterTypeOK'
  BY <1>1, <1>2, <1>5 DEF Watchdog
<1>6. ASSUME NEW t \in Tasks, NEW w \in Workers, DispatchDies(t, w) PROVE RouterTypeOK'
  BY <1>6 DEF DispatchDies
<1>7. ASSUME NEW w \in Workers, JoinMesh(w) \/ Quarantine(w) PROVE RouterTypeOK'
  BY <1>7 DEF JoinMesh, Quarantine
<1>8. ASSUME NEW m \in mail, Work(m) \/ LoseMail(m) PROVE RouterTypeOK'
  <2>1. m \in Mails
    OBVIOUS
  <2>2. m.task \in Tasks /\ m.worker \in Workers
    BY <2>1 DEF Mails
  <2>3. mail' \subseteq Mails
    <3>1. \A p \in Payloads :
            [type |-> "result", task |-> m.task, worker |-> m.worker, payload |-> p] \in Mails
      BY <2>2 DEF Mails
    <3> QED
      BY <1>8, <3>1 DEF Work, LoseMail
  <2> QED
    BY <1>8, <2>3 DEF Work, LoseMail
<1>9. ASSUME NEW m \in mail, HandleResult(m) PROVE RouterTypeOK'
  <2>1. m.task \in Tasks /\ m.payload \in Payloads
    <3>1. m \in Mails /\ m.type = "result"
      BY <1>9 DEF HandleResult
    <3> QED
      BY <3>1 DEF Mails
  <2>2. mail' \subseteq Mails /\ UNCHANGED <<nodes, sick, thread>>
    BY <1>9 DEF HandleResult
  <2>3. CASE ~IsOpen(m.task)
    BY <1>9, <2>2, <2>3 DEF HandleResult
  <2>4. CASE IsOpen(m.task)
    <3> DEFINE rs == Append(results[m.task], m.payload)
    <3>1. rs \in Seq(Payloads) /\ rs # <<>>
      <4>1. results[m.task] \in Seq(Payloads)
        BY <2>1
      <4> DEFINE s == results[m.task]
                 p == m.payload
      <4>2. s \in Seq(Payloads) /\ p \in Payloads
        BY <2>1, <4>1
      <4> HIDE DEF s, p
      <4>3. Append(s, p) \in Seq(Payloads) /\ Append(s, p) # <<>>
        BY <4>2, SMTT(60)
      <4> QED
        BY <4>3 DEF s, p
    <3>2. results' = [results EXCEPT ![m.task] = rs] /\ results'[m.task] = rs
      BY <1>9, <2>1, <2>4 DEF HandleResult
    <3> HIDE DEF rs
    <3>3. results' \in [Tasks -> Seq(Payloads)]
      BY <3>1, <3>2
    <3>4. Majority(rs) \in Payloads
      BY <3>1, MajorityType
    <3>5. Finalize(m.task, Majority(rs)) \/ UNCHANGED <<inflight, answers>>
      BY <1>9, <2>4, <3>2 DEF HandleResult
    <3>6. /\ inflight' \in [Tasks -> {"none", "open", "done", "popped"}]
          /\ answers' \in [Tasks -> Seq(Payloads)]
      BY <1>1, <2>1, <3>4, <3>5
    <3> QED
      BY <2>2, <3>3, <3>6
  <2> QED
    BY <2>3, <2>4
<1>10. CASE UNCHANGED routerVars
  BY <1>10 DEF routerVars
<1> QED
  BY <1>3, <1>4, <1>5, <1>6, <1>7, <1>8, <1>9, <1>10 DEF RouterNext

\* Where the thread of execute is bounds what the holder has.
LEMMA BrowserTypeStep ==
  ASSUME WaitInv, WaitInv', BrowserTypeOK, [BrowserNext]_browserVars
  PROVE  BrowserTypeOK'
<1> USE DEF BrowserTypeOK
<1>1. pickups' \in Seq(BrowserJobs) /\ IsInjective(pickups')
  BY DEF WaitInv, ListedWhileWaited, IsInjective
<1>2. run' \in [BrowserJobs -> {"idle", "won", "waiting", "woke", "expired", "returned"}]
  BY DEF WaitInv, Runs
<1>3. CASE RegisterProvider \/ GoStale \/ Heartbeat
  BY <1>1, <1>2, <1>3 DEF RegisterProvider, GoStale, Heartbeat
<1>4. CASE OpenJobs
  BY <1>1, <1>2, <1>4 DEF OpenJobs
<1>5. ASSUME NEW j \in BrowserJobs, WinJob(j) \/ StartExecute(j) \/ WakeUp(j) \/ TimeUp(j)
      PROVE  BrowserTypeOK'
  BY <1>1, <1>2, <1>5 DEF WinJob, StartExecute, WakeUp, TimeUp
<1>6. ASSUME NEW j \in BrowserJobs, FinishExecute(j) PROVE BrowserTypeOK'
  <2>1. run[j] = "expired" \/ box[j] \in Deliveries
    BY <1>6 DEF FinishExecute, WaitInv, HolderAgrees
  <2>2. outcome' \in [BrowserJobs -> Deliveries \cup {"none", "timeout", "error"}]
    BY <1>6, <2>1 DEF FinishExecute
  <2>3. UNCHANGED <<registered, fresh, offered, box, told, inTime>>
    BY <1>6 DEF FinishExecute
  <2> QED
    BY <1>1, <1>2, <2>2, <2>3
<1>7. ASSUME NEW j \in BrowserJobs, NEW r \in Deliveries, Deliver(j, r) PROVE BrowserTypeOK'
  BY <1>1, <1>2, <1>7 DEF Deliver
<1>8. CASE UNCHANGED browserVars
  BY <1>8 DEF browserVars
<1> QED
  BY <1>3, <1>4, <1>5, <1>6, <1>7, <1>8 DEF BrowserNext

LEMMA ForwarderTypeStep == ForwarderTypeOK /\ [ForwarderNext]_forwarderVars => ForwarderTypeOK'
<1> SUFFICES ASSUME ForwarderTypeOK, [ForwarderNext]_forwarderVars PROVE ForwarderTypeOK'
  OBVIOUS
<1> DEFINE Posts == [notice : Notices, by : Senders, state : PostStates]
<1> USE DelaysAssumption DEF ForwarderTypeOK
<1>1. ASSUME NEW n \in Notices, NEW s \in Senders, StartPost(n, s)
      PROVE  /\ posting' \subseteq Posts /\ resting' \subseteq Notices
             /\ attempts' \in [Notices -> 0..Delays]
  <2>1. [notice |-> n, by |-> s, state |-> "sent"] \in Posts
    BY DEF PostStates
  <2>2. attempts[n] \in 0..Delays
    OBVIOUS
  <2>3. (IF attempts[n] < Delays THEN attempts[n] + 1 ELSE attempts[n]) \in 0..Delays
    BY <2>2
  <2> QED
    BY <1>1, <2>1, <2>3 DEF StartPost
<1>2. ASSUME NEW n \in Notices, Forward(n) \/ RetryPost(n) PROVE ForwarderTypeOK'
  <2>1. /\ outbox' \in [Notices -> {"none", "pending", "delivered", "lost"}] /\ UNCHANGED books
        /\ StartPost(n, "forward") \/ StartPost(n, "retry")
    BY <1>2 DEF Forward, RetryPost
  <2>2. "forward" \in Senders /\ "retry" \in Senders
    BY DEF Senders
  <2> QED
    BY <1>1, <2>1, <2>2
<1>3. ASSUME NEW n \in Notices, PauseEnds(n) PROVE ForwarderTypeOK'
  BY <1>3 DEF PauseEnds
<1>4. ASSUME NEW p \in posting, Credit(p) PROVE ForwarderTypeOK'
  <2>1. p \in Posts /\ [p EXCEPT !.state = "credited"] \in Posts /\ p.notice \in Notices
    BY DEF PostStates
  <2> QED
    BY <1>4, <2>1 DEF Credit
<1>5. ASSUME NEW p \in posting, Acknowledge(p) \/ PostFails(p) PROVE ForwarderTypeOK'
  BY <1>5 DEF Acknowledge, PostFails
<1>6. CASE LoseOutbox
  <2>1. 0 \in 0..Delays
    OBVIOUS
  <2> QED
    BY <1>6, <2>1 DEF LoseOutbox
<1>7. CASE UNCHANGED forwarderVars
  BY <1>7 DEF forwarderVars
<1> QED
  BY <1>2, <1>3, <1>4, <1>5, <1>6, <1>7 DEF ForwarderNext

\* The youngest of some ages is one of them.
LEMMA MinType ==
  ASSUME NEW k \in Nat, NEW T \in SUBSET (0 .. k), T # {}
  PROVE  Min(T) \in T
<1>1. T \in SUBSET Nat /\ IsFiniteSet(T)
  <2>1. IsFiniteSet(0 .. k) /\ 0 .. k \in SUBSET Nat
    BY FS_Interval
  <2> QED
    BY <2>1, FS_Subset
<1>2. \E m \in T : \A x \in T : m <= x
  BY <1>1, SmallestMember
<1> QED
  BY <1>2 DEF Min

LEMMA LearnedType ==
  ASSUME GossipTypeOK, NEW n \in Peers, NEW m \in Peers, NEW asked, NEW answering \in SUBSET Peers
  PROVE  Learned(n, m, asked, answering) \in 0 .. Gone /\ Learned(n, n, asked, answering) = Gone
<1> DEFINE T == {FromWire(age[q][m]) : q \in answering} \cup {age[n][m]}
<1>1. Gone \in Nat /\ T \in SUBSET (0 .. Gone) /\ T # {}
  <2>1. Gone \in Nat
    BY StaleAssumption DEF Gone
  <2> HIDE DEF Gone
  <2>2. \A q \in Peers : age[q][m] \in 0 .. Gone
    BY DEF GossipTypeOK
  <2>3. \A a \in 0 .. Gone : FromWire(a) \in 0 .. Gone
    BY <2>1 DEF FromWire
  <2> QED
    BY <2>1, <2>2, <2>3
<1> HIDE DEF T
<1>2. Min(T) \in 0 .. Gone
  BY <1>1, MinType
<1> QED
  BY <1>1, <1>2 DEF Learned, T

LEMMA GossipTypeStep == GossipTypeOK /\ [GossipNext]_gossipVars => GossipTypeOK'
<1> SUFFICES ASSUME GossipTypeOK, [GossipNext]_gossipVars PROVE GossipTypeOK'
  OBVIOUS
<1> USE DEF GossipTypeOK
<1>1. Gone \in Nat /\ 0 \in 0 .. Gone /\ Gone \in 0 .. Gone /\ Gone = Stale + 2 /\ Stale \in Nat
  BY StaleAssumption DEF Gone
<1> HIDE DEF Gone
<1>2. ASSUME NEW n \in Peers, NEW boots \in SUBSET alive, StartNode(n, boots) PROVE GossipTypeOK'
  <2>1. n \notin boots /\ boots \subseteq Peers
    BY <1>2 DEF StartNode
  <2>2. alive' = alive \cup {n} /\ listed' = listed
        /\ age' = [q \in Peers |->
                 IF q = n THEN [m \in Peers |-> IF m \in boots THEN 0 ELSE Gone]
                 ELSE IF q \in boots THEN [age[q] EXCEPT ![n] = 0] ELSE age[q]]
    BY <1>2 DEF StartNode
  <2>3. \A q \in Peers : /\ age'[q] \in [Peers -> 0 .. Gone] /\ age'[q][q] = Gone
                         /\ q \notin alive' => age'[q] = NoView
    BY <1>1, <2>1, <2>2
  <2>4. alive' \subseteq Peers /\ listed' \subseteq Peers
    BY <2>2
  <2>5. age' = [q \in Peers |-> age'[q]]
    BY <2>2
  <2>6. age' \in [Peers -> [Peers -> 0 .. Gone]]
    <3> DEFINE Views == [Peers -> 0 .. Gone]
    <3>1. \A q \in Peers : age'[q] \in Views
      BY <2>3
    <3> HIDE DEF Views
    <3>2. age' \in [Peers -> Views]
      BY <2>5, <3>1
    <3> QED
      BY <3>2 DEF Views
  <2> QED
    BY ONLY <2>3, <2>4, <2>6 DEF GossipTypeOK, Gone, NoView
<1>3. ASSUME NEW n \in Peers, StopNode(n) PROVE GossipTypeOK'
  <2>1. NoView \in [Peers -> 0 .. Gone] /\ \A m \in Peers : NoView[m] = Gone
    BY <1>1 DEF NoView
  <2> QED
    BY <1>3, <2>1 DEF StopNode
<1>4. CASE Tick
  <2>1. age' = [n \in Peers |-> [m \in Peers |->
                 IF age[n][m] <= Stale THEN age[n][m] + 1 ELSE age[n][m]]]
        /\ UNCHANGED <<alive, listed>>
    BY <1>4 DEF Tick
  <2>2. \A n, m \in Peers : age'[n][m] \in 0 .. Gone /\ (age[n][m] = Gone => age'[n][m] = Gone)
    BY <1>1, <2>1
  <2>3. \A n \in Peers : age'[n] = [m \in Peers |-> age'[n][m]]
    BY <2>1
  <2>4. \A n \in Peers : age[n] = NoView => age'[n] = NoView
    <3>1. \A n \in Peers : age[n] = NoView => \A m \in Peers : age[n][m] = Gone
      BY DEF NoView
    <3> QED
      BY <2>2, <2>3, <3>1 DEF NoView
  <2> QED
    BY <2>1, <2>2, <2>3, <2>4
<1>5. ASSUME NEW n \in Peers, SeedRegister(n) \/ SeedForget(n) PROVE GossipTypeOK'
  BY <1>5 DEF SeedRegister, SeedForget
<1>6. ASSUME NEW n \in Peers, SeedPoll(n) PROVE GossipTypeOK'
  <2> DEFINE v == [m \in Peers |-> IF m \in listed \ {n} THEN 0 ELSE age[n][m]]
  <2>1. v \in [Peers -> 0 .. Gone] /\ v[n] = Gone
    BY <1>1
  <2>2. age' = [age EXCEPT ![n] = v] /\ n \in alive /\ UNCHANGED <<alive, listed>>
    BY <1>6 DEF SeedPoll
  <2> HIDE DEF v
  <2> QED
    BY <2>1, <2>2
<1>7. ASSUME NEW n \in Peers, Gossip(n) PROVE GossipTypeOK'
  <2>1. PICK asked \in Sample(n) : GossipRound(n, asked)
    BY <1>7 DEF Gossip
  <2> DEFINE answering == UNION {Answering(p) : p \in asked}
             v == [m \in Peers |-> Reap(Learned(n, m, asked, answering))]
  <2>2. answering \in SUBSET alive /\ answering \in SUBSET Peers
    BY DEF Answering
  <2>3. /\ n \in alive /\ UNCHANGED <<alive, listed>>
        /\ age' = [q \in Peers |-> IF q = n THEN v
                                   ELSE IF q \in answering THEN [age[q] EXCEPT ![n] = 0] ELSE age[q]]
    BY <2>1 DEF GossipRound
  <2>4. v \in [Peers -> 0 .. Gone] /\ v[n] = Gone
    <3>1. \A a \in 0 .. Gone : Reap(a) \in 0 .. Gone /\ Reap(Gone) = Gone
      BY <1>1 DEF Reap
    <3>2. \A m \in Peers : Learned(n, m, asked, answering) \in 0 .. Gone
      BY <2>2, LearnedType
    <3>3. Learned(n, n, asked, answering) = Gone
      BY <2>2, LearnedType
    <3> HIDE DEF answering
    <3> QED
      BY <1>1, <3>1, <3>2, <3>3
  <2> HIDE DEF v, answering
  <2>5. \A q \in Peers : /\ age'[q] \in [Peers -> 0 .. Gone] /\ age'[q][q] = Gone
                         /\ q \notin alive => age'[q] = NoView
    BY <1>1, <2>2, <2>3, <2>4
  <2>6. age' = [q \in Peers |-> age'[q]]
    BY <2>3
  <2>7. age' \in [Peers -> [Peers -> 0 .. Gone]]
    <3> DEFINE Views == [Peers -> 0 .. Gone]
    <3>1. \A q \in Peers : age'[q] \in Views
      BY <2>5
    <3> HIDE DEF Views
    <3>2. age' \in [Peers -> Views]
      BY <2>6, <3>1
    <3> QED
      BY <3>2 DEF Views
  <2>8. alive' = alive /\ alive' \subseteq Peers /\ listed' \subseteq Peers
    BY <2>3
  <2> QED
    BY ONLY <2>5, <2>7, <2>8 DEF GossipTypeOK, Gone, NoView
<1>8. CASE UNCHANGED gossipVars
  BY <1>8 DEF gossipVars
<1> QED
  BY <1>2, <1>3, <1>4, <1>5, <1>6, <1>7, <1>8 DEF GossipNext

\* What the types of all five rest on.
MeshInv == WaitInv /\ BlobInv /\ MeshTypeOK

LEMMA MeshStarts == MeshInit => MeshInv
<1> SUFFICES ASSUME MeshInit PROVE MeshInv
  OBVIOUS
<1>1. RouterTypeOK
  BY DEF MeshInit, RouterInit, RouterTypeOK
<1>2. WaitInv /\ BlobInv
  BY WaitStarts, BlobStarts DEF MeshInit
<1>3. BrowserTypeOK
  <2>1. pickups \in Seq(BrowserJobs) /\ IsInjective(pickups)
    BY <1>2 DEF WaitInv, ListedWhileWaited, IsInjective
  <2> QED
    BY <2>1 DEF MeshInit, BrowserInit, BrowserTypeOK
<1>4. ForwarderTypeOK
  BY DelaysAssumption DEF MeshInit, ForwarderInit, ForwarderTypeOK
<1>5. GossipTypeOK
  BY StaleAssumption DEF MeshInit, GossipInit, GossipTypeOK, NoView, Gone
<1> QED
  BY <1>1, <1>2, <1>3, <1>4, <1>5 DEF MeshInv, MeshTypeOK, BlobInv, DoneType

LEMMA MeshStep == MeshInv /\ [MeshNext]_meshVars => MeshInv'
<1> SUFFICES ASSUME MeshInv, [MeshNext]_meshVars PROVE MeshInv'
  OBVIOUS
<1>1. /\ [RouterNext]_routerVars /\ [BrowserNext]_browserVars
      /\ [ForwarderNext]_forwarderVars /\ [BlobNext]_blobVars /\ [GossipNext]_gossipVars
  BY DEF MeshNext, meshVars, NotRouter, NotBrowser, NotForwarder, NotBlob, NotGossip
<1>2. WaitInv' /\ BlobInv'
  BY <1>1, WaitStep, BlobStep DEF MeshInv
<1>3. BrowserTypeOK'
  BY <1>1, <1>2, BrowserTypeStep DEF MeshInv, MeshTypeOK
<1>4. RouterTypeOK' /\ ForwarderTypeOK' /\ GossipTypeOK'
  BY <1>1, RouterTypeStep, ForwarderTypeStep, GossipTypeStep DEF MeshInv, MeshTypeOK
<1> QED
  BY <1>2, <1>3, <1>4 DEF MeshInv, MeshTypeOK, BlobInv, DoneType

\* The services of the mesh keep their types: the tally of results decides for one
\* of them, a tab's delivery is what execute reports, no pause outlasts its
\* delays, and a view has no node itself, nor anything once its node stops.
\* States MeshTypeOK of MeshServices.
THEOREM MeshTypes == MeshSpec => []MeshTypeOK
<1>1. MeshInv => MeshTypeOK
  BY DEF MeshInv
<1>2. MeshSpec => []MeshInv
  BY MeshStarts, MeshStep, PTL DEF MeshSpec
<1> QED
  BY <1>1, <1>2, PTL

\* Each service does under MeshNext what its own specification says.
THEOREM MeshIsItsServices ==
  MeshSpec => /\ RouterInit /\ [][RouterNext]_routerVars
              /\ BrowserSpec /\ BlobSpec
              /\ ForwarderInit /\ [][ForwarderNext]_forwarderVars
              /\ GossipInit /\ [][GossipNext]_gossipVars
<1>1. MeshInit => /\ RouterInit /\ BrowserInit /\ ForwarderInit /\ BlobInit /\ GossipInit
  BY DEF MeshInit
<1>2. [MeshNext]_meshVars =>
        /\ [RouterNext]_routerVars /\ [BrowserNext]_browserVars
        /\ [ForwarderNext]_forwarderVars /\ [BlobNext]_blobVars /\ [GossipNext]_gossipVars
  BY DEF MeshNext, meshVars, NotRouter, NotBrowser, NotForwarder, NotBlob, NotGossip
<1> QED
  BY <1>1, <1>2, PTL DEF MeshSpec, BrowserSpec, BlobSpec

\* What router, browser provider and blob promise, they keep side by side: one
\* answer to a caller, no accepted work reported as a timeout, no blob but the
\* one sent.  States OneAnswer, AcceptedInTime and AssembledIsSent of the system
\* the run Mesh checks.
THEOREM MeshKeepsPromises == MeshSpec => [](OneAnswer /\ AcceptedInTime /\ AssembledIsSent)
<1>1. MeshSpec => []OneAnswer
  BY MeshIsItsServices, AnswersInvariant, AnswersOnce, PTL
<1>2. MeshSpec => []AcceptedInTime
  BY MeshIsItsServices, AcceptedInTimeAlways, PTL
<1>3. MeshSpec => []AssembledIsSent
  BY MeshIsItsServices, AssembledIsSentAlways, PTL
<1> QED
  BY <1>1, <1>2, <1>3, PTL
=============================================================================
