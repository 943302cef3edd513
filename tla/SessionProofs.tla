--------------------------- MODULE SessionProofs ----------------------------
(***************************************************************************)
(* Proofs about SessionTurns and SessionCrash, for any number of sessions, *)
(* workspaces, requests and calls.                                         *)
(*                                                                         *)
(* In one life of the host the writer lease is exclusive, a session marked *)
(* running has a run that will settle it, and no request is put into the   *)
(* conversation twice.  No message that was answered is lost on its path   *)
(* through ContinueWith, the queue and drainQueued, and the path is an     *)
(* implementation of the abstract Inbox.                                   *)
(*                                                                         *)
(* The same holds when the host dies and is started again, any number of   *)
(* times and between any two steps, but for the messages that were in the  *)
(* hands of a drain when it died.                                          *)
(***************************************************************************)
EXTENDS SessionCrash, TLAPS

\* The groups of variables, unfolded in every step.
USE DEF storeVars, engineVars, procVars, ghostVars

-----------------------------------------------------------------------------
(* Types *)

\* What the assumption on the constants says of one process.
LEMMA Homes ==
  /\ \A p \in Procs : SessionOf[p] \in Sessions
  /\ \A p \in Continues : p \in Procs
BY ConstantsAssumption, Zenon DEF Procs

(* Cancel and Terminate are called for sessions. *)
LEMMA StopsSessions == \A s \in Stoppable : s \in Sessions
BY ConstantsAssumption, Zenon

(* The initial state is well typed. *)
LEMMA TypeInit == Init => TypeOK
BY ConstantsAssumption
DEF Init, TypeOK, Statuses, Results, NoEntry, Locs, CarryLocs, RunLocs, EndLocs

\* What the acceptance transaction writes is well typed.
LEMMA AcceptType ==
  ASSUME TypeOK, NEW s \in Sessions, NEW e \in Entries, Accept(s, e)
  PROVE  /\ receipts' \in [Sessions -> [Requests -> Hashes \cup {None}]]
         /\ history' \in [Sessions -> Seq(Requests)]
         /\ outstanding' \in [Sessions -> BOOLEAN]
BY DEF TypeOK, Accept, Log, Entries

\* So is what a call that is answered leaves behind.
LEMMA AckType ==
  ASSUME TypeOK, NEW p \in Continues
  PROVE  /\ p \in Procs /\ SessionOf[p] \in Sessions /\ Entry(p) \in Entries
         /\ Ack(SessionOf[p], Entry(p)) => acked' \subseteq Sessions \X Entries
<1>1. p \in Procs /\ SessionOf[p] \in Sessions /\ Entry(p) \in Entries
  BY ConstantsAssumption, Zenon DEF Procs, Entry, Entries
<1>2. Ack(SessionOf[p], Entry(p)) => acked' \subseteq Sessions \X Entries
  BY <1>1 DEF TypeOK, Ack
<1> QED
  BY <1>1, <1>2, Zenon

\* A drain that holds a message holds a well-typed one.
LEMMA HeldType ==
  ASSUME TypeOK, NEW p \in Procs, pc[p] \in CarryLocs
  PROVE  SessionOf[p] \in Sessions /\ held[p] \in Entries
<1>1. \A q \in Procs : pc[q] \in CarryLocs => held[q] \in Entries
  BY Zenon DEF TypeOK
<1> QED
  BY <1>1, Homes, Zenon

\* EnqueueMessage adds a well-typed row or none.
LEMMA EnqueueType ==
  ASSUME TypeOK, NEW s \in Sessions, NEW e \in Entries, EnqueueMessage(s, e)
  PROVE  queue' \in [Sessions -> Seq(Entries)]
BY DEF TypeOK, EnqueueMessage

(* Every step keeps the types. *)
LEMMA TypeNext == TypeOK /\ [Next]_vars => TypeOK'
<1> SUFFICES ASSUME TypeOK, [Next]_vars PROVE TypeOK'
  BY Zenon
<1>a. \A p \in Continues :
        /\ Entry(p) \in Entries
        /\ Ack(SessionOf[p], Entry(p)) => acked' \subseteq Sessions \X Entries
  BY AckType, Zenon
<1>b. \A s \in Sessions, e \in Entries : Accept(s, e) =>
        /\ receipts' \in [Sessions -> [Requests -> Hashes \cup {None}]]
        /\ history' \in [Sessions -> Seq(Requests)]
        /\ outstanding' \in [Sessions -> BOOLEAN]
  BY AcceptType, Zenon
<1>c. \A s \in Sessions, e \in Entries :
        EnqueueMessage(s, e) => queue' \in [Sessions -> Seq(Entries)]
  BY EnqueueType, Zenon
<1> USE Homes
    DEF TypeOK, Goto, Statuses, Results, Locs, RunLocs, EndLocs, CarryLocs
<1>1. ASSUME NEW p \in Continues, ContinueRead(p) PROVE TypeOK'
  <2>0. UNCHANGED <<storeVars, engineVars, ctx, snap, held, result, leased, turned, abandoned>>
    BY <1>1, Zenon DEF ContinueRead
  <2>1. CASE Goto(p, "done") /\ UNCHANGED <<asked, acked>>
    BY <2>0, <2>1, Zenon
  <2>2. CASE Ack(SessionOf[p], Entry(p)) /\ Goto(p, "done") /\ UNCHANGED asked
    BY <2>0, <2>2, <1>a, Zenon
  <2>3. CASE /\ asked' = [asked EXCEPT ![p] = pending[SessionOf[p]] > 0]
            /\ Goto(p, "locked") /\ UNCHANGED acked
    BY <2>0, <2>3
  <2> HIDE DEF TypeOK
  <2> QED
    BY <1>1, <2>1, <2>2, <2>3, Zenon DEF ContinueRead
<1>2. ASSUME NEW p \in Continues, ContinueActive(p) PROVE TypeOK'
  BY <1>2, Zenon DEF ContinueActive
<1>3. ASSUME NEW p \in Continues, ContinueEnqueue(p) PROVE TypeOK'
  <2>0. UNCHANGED <<status, receipts, history, pending, outstanding, engineVars, ctx, snap, asked,
                    held, result, leased, turned, abandoned>>
    BY <1>3, Zenon DEF ContinueEnqueue
  <2>1. CASE Goto(p, "done") /\ EnqueueMessage(SessionOf[p], Entry(p)) /\ Ack(SessionOf[p], Entry(p))
    BY <2>0, <2>1, <1>a, <1>c, Zenon
  <2>2. CASE Goto(p, "done") /\ UNCHANGED <<queue, acked>>
    BY <2>0, <2>2, Zenon
  <2> HIDE DEF TypeOK
  <2> QED
    BY <1>3, <2>1, <2>2, Zenon DEF ContinueEnqueue
<1>4. ASSUME NEW p \in Continues, ContinueAccept(p) PROVE TypeOK'
  <2>0. UNCHANGED <<status, queue, pending, cancels, writers, terminating, ctx, snap, asked, held,
                    result, leased, ghostVars>>
    BY <1>4, Zenon DEF ContinueAccept
  <2>1. CASE /\ Accept(SessionOf[p], Entry(p)) /\ mu' = p
            /\ Goto(p, IF asked[p] THEN "accepted" ELSE "resolved")
    BY <2>0, <2>1, <1>a, <1>b, Zenon
  <2>2. CASE /\ mu' = p /\ UNCHANGED <<receipts, history, outstanding>>
            /\ Goto(p, IF asked[p] THEN "accepted" ELSE "resolved")
    BY <2>0, <2>2, Zenon
  <2>3. CASE Goto(p, "done") /\ UNCHANGED <<receipts, history, outstanding, mu>>
    BY <2>0, <2>3, Zenon
  <2> HIDE DEF TypeOK
  <2> QED
    BY <1>4, <2>1, <2>2, <2>3, Zenon DEF ContinueAccept
<1>5. ASSUME NEW p \in Continues, ContinueResolve(p) PROVE TypeOK'
  <2>0. UNCHANGED <<status, queue, receipts, history, outstanding, cancels, writers, terminating,
                    ctx, snap, asked, held, result, leased, ghostVars>>
    BY <1>5, Zenon DEF ContinueResolve
  <2>1. CASE /\ Resolvable(SessionOf[p]) /\ Goto(p, "resolved") /\ UNCHANGED mu
            /\ pending' = [pending EXCEPT ![SessionOf[p]] = @ - 1]
    <3>1. pending[SessionOf[p]] \in Nat /\ pending[SessionOf[p]] > 0
      BY <2>1, Zenon DEF Resolvable
    <3>2. pending[SessionOf[p]] - 1 \in Nat
      BY <3>1
    <3>3. pending' \in [Sessions -> Nat]
      BY <2>1, <3>2, Zenon
    <3> QED
      BY <2>0, <2>1, <3>3, Zenon
  <2>2. CASE ResolveFails(p) /\ UNCHANGED pending
    BY <2>0, <2>2, Zenon DEF ResolveFails
  <2> HIDE DEF TypeOK
  <2> QED
    BY <1>5, <2>1, <2>2, Zenon DEF ContinueResolve
<1>6. ASSUME NEW p \in Continues, ContinueLaunch(p) PROVE TypeOK'
  BY <1>6, <1>a DEF ContinueLaunch, SetStatus, Launch
<1>7. ASSUME NEW p \in Procs, AddBudgetRead(p) PROVE TypeOK'
  BY <1>7, Zenon DEF AddBudgetRead
<1>8. ASSUME NEW p \in Procs, AddBudgetLaunch(p) PROVE TypeOK'
  <2>0. UNCHANGED <<queue, receipts, history, pending, outstanding, mu, writers, terminating, ctx,
                    snap, asked, held, result, leased, acked, turned>>
    BY <1>8, Zenon DEF AddBudgetLaunch
  <2>1. CASE Goto(p, "done") /\ UNCHANGED <<status, abandoned, cancels>>
    BY <2>0, <2>1, Zenon
  <2>2. CASE SetStatus(SessionOf[p], "running") /\ Launch(p)
    BY <2>0, <2>2, Zenon DEF SetStatus, Launch
  <2> HIDE DEF TypeOK
  <2> QED
    BY <1>8, <2>1, <2>2, Zenon DEF AddBudgetLaunch
<1>9. ASSUME NEW p \in Procs, StartCreate(p) PROVE TypeOK'
  BY <1>9 DEF StartCreate, SetStatus, Log
<1>10. ASSUME NEW p \in Procs, StartRegister(p) PROVE TypeOK'
  BY <1>10, Zenon DEF StartRegister, Launch
<1>11. ASSUME NEW p \in Procs, AcquireWriter(p) PROVE TypeOK'
  <2>0. UNCHANGED <<storeVars, mu, cancels, terminating, ctx, snap, asked, held, ghostVars>>
    BY <1>11, Zenon DEF AcquireWriter
  <2>1. CASE Goto(p, "starting") /\ UNCHANGED <<writers, leased, result>>
    BY <2>0, <2>1, Zenon
  <2>2. CASE /\ writers' = [writers EXCEPT ![Workspace(p)] = SessionOf[p]]
            /\ leased' = [leased EXCEPT ![p] = TRUE]
            /\ Goto(p, "starting") /\ UNCHANGED result
    <3>1. Workspace(p) \in Workspaces
      BY ConstantsAssumption, Zenon DEF Workspace
    <3> QED
      BY <2>0, <2>2, <3>1, Zenon
  <2>3. CASE End(p, "fail") /\ UNCHANGED <<writers, leased>>
    BY <2>0, <2>3, Zenon DEF End
  <2> HIDE DEF TypeOK
  <2> QED
    BY <1>11, <2>1, <2>2, <2>3, Zenon DEF AcquireWriter
<1>12. ASSUME NEW p \in Procs, RunBegin(p) PROVE TypeOK'
  <2>1. outstanding' \in [Sessions -> BOOLEAN]
    BY <1>12, Zenon DEF RunBegin, Log
  <2> QED
    BY <1>12, <2>1, Zenon DEF RunBegin
<1>13. ASSUME NEW p \in Procs, RunRefused(p) PROVE TypeOK'
  BY <1>13 DEF RunRefused, End
<1>14. ASSUME NEW p \in Procs, RunPanics(p) PROVE TypeOK'
  BY <1>14, Zenon DEF RunPanics, End
<1>15. ASSUME NEW p \in Procs, TurnBoundary(p) PROVE TypeOK'
  <2>0. UNCHANGED <<status, queue, receipts, history, outstanding, engineVars, ctx, snap, asked,
                    held, leased, ghostVars>>
    BY <1>15, Zenon DEF TurnBoundary
  <2>1. CASE End(p, "cancelled") /\ UNCHANGED pending
    BY <2>0, <2>1, Zenon DEF End
  <2>2. CASE Ask(p) /\ UNCHANGED result
    BY <2>0, <2>2 DEF Ask
  <2>3. CASE Goto(p, "reading") /\ UNCHANGED <<result, pending>>
    BY <2>0, <2>3, Zenon
  <2> HIDE DEF TypeOK
  <2> QED
    BY <1>15, <2>1, <2>2, <2>3, Zenon DEF TurnBoundary
<1>16. ASSUME NEW p \in Procs, TurnRead(p) PROVE TypeOK'
  <2>0. UNCHANGED <<storeVars, engineVars, ctx, asked, held, result, leased, acked, turned>>
    BY <1>16, Zenon DEF TurnRead
  <2>1. CASE /\ snap' = [snap EXCEPT ![p] = status[SessionOf[p]]]
            /\ Goto(p, "calling") /\ UNCHANGED abandoned
    BY <2>0, <2>1
  <2>2. CASE /\ abandoned' = [abandoned EXCEPT ![SessionOf[p]] = TRUE]
            /\ Goto(p, "releasing") /\ UNCHANGED snap
    BY <2>0, <2>2, Zenon
  <2> HIDE DEF TypeOK
  <2> QED
    BY <1>16, <2>1, <2>2, Zenon DEF TurnRead
<1>17. ASSUME NEW p \in Procs, TurnAsks(p) PROVE TypeOK'
  BY <1>17 DEF TurnAsks, Ask
<1>18. ASSUME NEW p \in Procs, CallCancelled(p) PROVE TypeOK'
  BY <1>18, Zenon DEF CallCancelled, End
<1>19. ASSUME NEW p \in Procs, TurnReply(p) PROVE TypeOK'
  <2>0. UNCHANGED <<queue, receipts, history, outstanding, engineVars, ctx, snap, asked, held,
                    leased, ghostVars>>
    BY <1>19, Zenon DEF TurnReply
  <2>1. CASE WriteBack(p) /\ Goto(p, "boundary") /\ UNCHANGED <<result, pending>>
    BY <2>0, <2>1, Zenon DEF WriteBack
  <2>2. CASE WriteBack(p) /\ Ask(p) /\ UNCHANGED result
    <3>1. status' \in [Sessions -> Statuses]
      BY <2>2, Zenon DEF WriteBack
    <3>2. pending[SessionOf[p]] + 1 \in Nat
      <4>1. pending[SessionOf[p]] \in Nat
        BY Zenon
      <4> QED
        BY <4>1
    <3>3. pending' \in [Sessions -> Nat]
      BY <2>2, <3>2, Zenon DEF Ask
    <3> QED
      BY <2>0, <2>2, <3>1, <3>3, Zenon DEF Ask
  <2>3. CASE WriteBack(p) /\ End(p, "pass") /\ UNCHANGED pending
    BY <2>0, <2>3, Zenon DEF WriteBack, End
  <2>4. CASE WriteBack(p) /\ End(p, "fail") /\ UNCHANGED pending
    BY <2>0, <2>4, Zenon DEF WriteBack, End
  <2> HIDE DEF TypeOK
  <2> QED
    BY <1>19, <2>1, <2>2, <2>3, <2>4, Zenon DEF TurnReply
<1>20. ASSUME NEW p \in Procs, PauseWrite(p) PROVE TypeOK'
  BY <1>20, Zenon DEF PauseWrite, SetStatus
<1>21. ASSUME NEW p \in Procs, FinishRead(p) PROVE TypeOK'
  BY <1>21, Zenon DEF FinishRead
<1>22. ASSUME NEW p \in Procs, FinishWrite(p) PROVE TypeOK'
  <2>0. UNCHANGED <<queue, receipts, history, pending, outstanding, engineVars, ctx, snap, asked,
                    held, result, leased, acked, turned>>
    BY <1>22, Zenon DEF FinishWrite
  <2>1. CASE Goto(p, "terminal") /\ UNCHANGED <<status, abandoned>>
    BY <2>0, <2>1, Zenon
  <2>2. CASE Goto(p, "terminal") /\ SetStatus(SessionOf[p], result[p])
    BY <2>0, <2>2, Zenon DEF SetStatus
  <2> HIDE DEF TypeOK
  <2> QED
    BY <1>22, <2>1, <2>2, Zenon DEF FinishWrite, FinishStatus
<1>23. ASSUME NEW p \in Procs, EndEvent(p) PROVE TypeOK'
  BY <1>23, Zenon DEF EndEvent, Log
<1>24. ASSUME NEW p \in Procs, ReleaseWriter(p) PROVE TypeOK'
  <2>1. writers' \in [Workspaces -> Sessions \cup {None}]
    BY <1>24, Zenon DEF ReleaseWriter, Release
  <2> QED
    BY <1>24, <2>1, Zenon DEF ReleaseWriter
<1>25. ASSUME NEW p \in Procs, Unregister(p) PROVE TypeOK'
  BY <1>25, Zenon DEF Unregister
<1>26. ASSUME NEW p \in Procs, DrainCheck(p) PROVE TypeOK'
  BY <1>26, Zenon DEF DrainCheck
<1>27. ASSUME NEW p \in Procs, DrainRead(p) PROVE TypeOK'
  BY <1>27, Zenon DEF DrainRead
<1>28. ASSUME NEW p \in Procs, DrainDequeue(p) PROVE TypeOK'
  <2>0. UNCHANGED <<status, receipts, history, pending, outstanding, engineVars, ctx, snap, asked,
                    result, leased, ghostVars>>
    BY <1>28, Zenon DEF DrainDequeue
  <2>1. CASE Goto(p, "done") /\ UNCHANGED <<queue, held>>
    BY <2>0, <2>1, Zenon
  <2>2. CASE /\ queue[SessionOf[p]] # <<>>
            /\ held' = [held EXCEPT ![p] = Head(queue[SessionOf[p]])]
            /\ queue' = [queue EXCEPT ![SessionOf[p]] = Tail(@)]
            /\ Goto(p, "drainDeliver")
    BY <2>0, <2>2
  <2> HIDE DEF TypeOK
  <2> QED
    BY <1>28, <2>1, <2>2, Zenon DEF DrainDequeue
<1>29. ASSUME NEW p \in Procs, DrainDeliver(p) PROVE TypeOK'
  <2>0. UNCHANGED <<status, queue, pending, engineVars, ctx, snap, asked, held, result, leased,
                    ghostVars>>
    BY <1>29, Zenon DEF DrainDeliver
  <2>1. CASE Accept(SessionOf[p], held[p]) /\ Goto(p, "drainStatus") /\ held[p] \in Entries
    BY <2>0, <2>1, <1>b, Zenon
  <2>2. CASE /\ Goto(p, "drainStatus") /\ held[p] \in Entries
            /\ UNCHANGED <<receipts, history, outstanding>>
    BY <2>0, <2>2, Zenon
  <2>3. CASE /\ Goto(p, "drainRequeue") /\ held[p] \in Entries
            /\ UNCHANGED <<receipts, history, outstanding>>
    BY <2>0, <2>3, Zenon
  <2>4. held[p] \in Entries
    BY <1>29, Zenon DEF DrainDeliver
  <2> HIDE DEF TypeOK
  <2> QED
    BY <1>29, <2>1, <2>2, <2>3, <2>4, Zenon DEF DrainDeliver
<1>30. ASSUME NEW p \in Procs, DrainRequeue(p) PROVE TypeOK'
  <2>0. UNCHANGED <<status, receipts, history, pending, outstanding, engineVars, ctx, snap, asked,
                    result, leased, ghostVars>>
    BY <1>30, Zenon DEF DrainRequeue
  <2>1. CASE /\ EnqueueMessage(SessionOf[p], held[p]) /\ held[p] \in Entries
            /\ Goto(p, "drain") /\ held' = [held EXCEPT ![p] = NoEntry]
    BY <2>0, <2>1, <1>c, Zenon
  <2>2. CASE Goto(p, "done") /\ UNCHANGED queue /\ held' = [held EXCEPT ![p] = NoEntry]
    BY <2>0, <2>2, Zenon
  <2>4. held[p] \in Entries
    BY <1>30, Zenon DEF DrainRequeue
  <2> HIDE DEF TypeOK
  <2> QED
    BY <1>30, <2>1, <2>2, <2>4, Zenon DEF DrainRequeue
<1>31. ASSUME NEW p \in Procs, DrainStatus(p) PROVE TypeOK'
  BY <1>31, Zenon DEF DrainStatus, SetStatus
<1>32. ASSUME NEW p \in Procs, DrainRegister(p) PROVE TypeOK'
  <2>1. held[p] \in Entries /\ SessionOf[p] \in Sessions
    BY <1>32, Zenon DEF DrainRegister
  <2>2. turned' \subseteq Sessions \X Entries
    BY <1>32, <2>1 DEF DrainRegister
  <2> QED
    BY <1>32, <2>1, <2>2, Zenon DEF DrainRegister, Launch
<1>33. ASSUME NEW p \in Procs, TurnUpdate(p) PROVE TypeOK'
  BY <1>33, Zenon DEF TurnUpdate, WriteBack
<1>34. ASSUME NEW p \in Procs, Deadline(p) PROVE TypeOK'
  BY <1>34, Zenon DEF Deadline
<1>35. ASSUME NEW s \in Sessions, Cancel(s) PROVE TypeOK'
  BY <1>35, Zenon DEF Cancel, CancelRegistered
<1>36. ASSUME NEW s \in Sessions, TerminateCancel(s) PROVE TypeOK'
  BY <1>36, Zenon DEF TerminateCancel, CancelRegistered
<1>37. ASSUME NEW s \in Sessions, TerminateWrite(s) PROVE TypeOK'
  BY <1>37, Zenon DEF TerminateWrite, SetStatus
<1>38. CASE UNCHANGED vars
  BY <1>38, Zenon DEF vars
<1> HIDE Homes DEF TypeOK, Statuses, Results, Locs, RunLocs, EndLocs, CarryLocs
<1>39. ASSUME NEW p \in Procs, Step(p) PROVE TypeOK'
  BY <1>39, <1>1, <1>2, <1>3, <1>4, <1>5, <1>6, <1>7, <1>8, <1>9, <1>10, <1>11, <1>12, <1>13,
     <1>14, <1>15, <1>16, <1>17, <1>18, <1>19, <1>20, <1>21, <1>22, <1>23, <1>24, <1>25, <1>26,
     <1>27, <1>28, <1>29, <1>30, <1>31, <1>32
  DEF Step, ContinueWith, AddBudget, Start, Run, Settle, DrainQueued
<1> QED
  BY <1>33, <1>34, <1>35, <1>36, <1>37, <1>38, <1>39, StopsSessions, Zenon DEF Next

\* Every variable keeps its type, whatever calls overlap.
THEOREM TypeCorrect == Spec => []TypeOK
BY TypeInit, TypeNext, PTL DEF Spec

-----------------------------------------------------------------------------
(* The writer lease *)

\* The inductive invariant behind OneWriterPerWorkspace: a run that holds a lease
\* is recorded as its workspace's writer, no other run holds that lease, and a run
\* that may edit holds one.
LeaseInv ==
  /\ \A p \in Procs : leased[p] => writers[Workspace(p)] = SessionOf[p]
  /\ \A p, q \in Procs : leased[p] /\ leased[q] /\ Workspace(p) = Workspace(q) => p = q
  /\ \A p \in Procs : InRun(p) /\ SessionOf[p] \notin ReadOnly => leased[p]

\* What the lease depends on: steps other than taking and giving it up keep the
\* table and move no process into a run.
LeaseKept ==
  /\ UNCHANGED <<writers, leased>>
  /\ \A p \in Procs : pc'[p] \in RunLocs => pc[p] \in RunLocs

(* No run holds a lease at first. *)
LEMMA LeaseInit == Init => LeaseInv
BY DEF Init, LeaseInv, InRun, RunLocs

(* Every step keeps the leases exclusive. *)
LEMMA LeaseNext == TypeOK /\ LeaseInv /\ [Next]_vars => LeaseInv'
<1> SUFFICES ASSUME TypeOK, LeaseInv, [Next]_vars PROVE LeaseInv'
  BY Zenon
<1>t. /\ pc \in [Procs -> Locs] /\ leased \in [Procs -> BOOLEAN]
      /\ writers \in [Workspaces -> Sessions \cup {None}]
  BY Zenon DEF TypeOK
<1>h. \A p \in Procs : SessionOf[p] \in Sessions /\ SessionOf[p] # None /\ Workspace(p) \in Workspaces
  BY ConstantsAssumption, Zenon DEF Workspace
<1> USE <1>t DEF Goto, RunLocs
<1>1. ASSUME LeaseKept PROVE LeaseInv'
  BY <1>1, Zenon DEF LeaseKept, LeaseInv, InRun, Workspace
<1>2. ASSUME NEW p \in Procs, AcquireWriter(p) PROVE LeaseInv'
  <2>1. SessionOf[p] \in Sessions /\ Workspace(p) \in Workspaces
    BY <1>h, Zenon
  <2>2. pc' \in [Procs -> Locs] /\ \A q \in Procs : q # p => pc'[q] = pc[q]
    BY <1>2, TypeNext, Zenon DEF AcquireWriter, End, TypeOK
  <2>3. CASE SessionOf[p] \in ReadOnly
    <3>1. UNCHANGED <<writers, leased>>
      BY <1>2, <2>3, Zenon DEF AcquireWriter
    <3> QED
      BY <2>2, <2>3, <3>1, Zenon DEF LeaseInv, InRun, Workspace
  <2>4. CASE SessionOf[p] \notin ReadOnly /\ writers[Workspace(p)] = None
    <3>1. /\ writers' = [writers EXCEPT ![Workspace(p)] = SessionOf[p]]
          /\ leased' = [leased EXCEPT ![p] = TRUE]
      BY <1>2, <2>4, Zenon DEF AcquireWriter, LeaseFree
    <3>2. \A q \in Procs : leased[q] => Workspace(q) # Workspace(p)
      BY <2>4, <1>h, Zenon DEF LeaseInv
    <3>3. \A q \in Procs : leased'[q] => q = p \/ leased[q]
      BY <3>1, Zenon
    <3>4. leased'[p] /\ writers'[Workspace(p)] = SessionOf[p]
      BY <2>1, <3>1, Zenon
    <3>5. \A q \in Procs : leased[q] => leased'[q] /\ writers'[Workspace(q)] = SessionOf[q]
      BY <1>h, <2>1, <3>1, <3>2, Zenon DEF LeaseInv
    <3> QED
      BY <2>2, <3>2, <3>3, <3>4, <3>5, Zenon DEF LeaseInv, InRun, Workspace
  <2>5. CASE SessionOf[p] \notin ReadOnly /\ writers[Workspace(p)] # None
    <3>1. UNCHANGED <<writers, leased>> /\ pc' = [pc EXCEPT ![p] = "ending"]
      BY <1>2, <2>5, Zenon DEF AcquireWriter, LeaseFree, End
    <3> QED
      BY <1>1, <3>1, Zenon DEF LeaseKept
  <2> QED
    BY <2>3, <2>4, <2>5, Zenon
<1>3. ASSUME NEW p \in Procs, ReleaseWriter(p) PROVE LeaseInv'
  <2>1. /\ pc' = [pc EXCEPT ![p] = "unregister"]
        /\ leased' = [leased EXCEPT ![p] = FALSE]
        /\ pc[p] = "releasing"
    BY <1>3, Zenon DEF ReleaseWriter
  <2>2. \A q \in Procs : leased'[q] => leased[q] /\ q # p
    BY <2>1, Zenon
  <2>3. \A q \in Procs : pc'[q] \in RunLocs => pc[q] \in RunLocs /\ q # p
    BY <2>1, Zenon
  <2>4. \A q \in Procs : q # p /\ leased[q] => leased'[q]
    BY <2>1, Zenon
  <2>5. ASSUME NEW q \in Procs, q # p, leased[q] PROVE writers'[Workspace(q)] = SessionOf[q]
    <3>1. CASE leased[p]
      <4>1. Workspace(q) # Workspace(p)
        BY <2>5, <3>1, Zenon DEF LeaseInv
      <4> QED
        BY <1>h, <1>3, <2>5, <4>1, Zenon DEF ReleaseWriter, Release, LeaseInv
    <3>2. CASE ~leased[p]
      BY <1>3, <2>5, <3>2, Zenon DEF ReleaseWriter, Release, LeaseInv
    <3> QED
      BY <3>1, <3>2, Zenon
  <2> QED
    BY <2>2, <2>3, <2>4, <2>5, Zenon DEF LeaseInv, InRun, Workspace
<1>4. ASSUME NEW p \in Continues, ContinueRead(p) PROVE LeaseKept
  BY <1>4, Zenon DEF ContinueRead, LeaseKept
<1>5. ASSUME NEW p \in Continues, ContinueActive(p) PROVE LeaseKept
  BY <1>5, Zenon DEF ContinueActive, LeaseKept
<1>6. ASSUME NEW p \in Continues, ContinueEnqueue(p) PROVE LeaseKept
  BY <1>6, Zenon DEF ContinueEnqueue, LeaseKept
<1>7. ASSUME NEW p \in Continues, ContinueAccept(p) PROVE LeaseKept
  BY <1>7, Zenon DEF ContinueAccept, LeaseKept
<1>8. ASSUME NEW p \in Continues, ContinueResolve(p) PROVE LeaseKept
  BY <1>8, Zenon DEF ContinueResolve, ResolveFails, LeaseKept
<1>9. ASSUME NEW p \in Continues, ContinueLaunch(p) PROVE LeaseKept
  BY <1>9, Zenon DEF ContinueLaunch, Launch, LeaseKept
<1>10. ASSUME NEW p \in Procs, AddBudgetRead(p) PROVE LeaseKept
  BY <1>10, Zenon DEF AddBudgetRead, LeaseKept
<1>11. ASSUME NEW p \in Procs, AddBudgetLaunch(p) PROVE LeaseKept
  BY <1>11, Zenon DEF AddBudgetLaunch, Launch, LeaseKept
<1>12. ASSUME NEW p \in Procs, StartCreate(p) PROVE LeaseKept
  BY <1>12, Zenon DEF StartCreate, LeaseKept
<1>13. ASSUME NEW p \in Procs, StartRegister(p) PROVE LeaseKept
  BY <1>13, Zenon DEF StartRegister, Launch, LeaseKept
<1>14. ASSUME NEW p \in Procs, RunBegin(p) PROVE LeaseKept
  BY <1>14, Zenon DEF RunBegin, LeaseKept
<1>15. ASSUME NEW p \in Procs, RunRefused(p) PROVE LeaseKept
  BY <1>15, Zenon DEF RunRefused, End, LeaseKept
<1>16. ASSUME NEW p \in Procs, RunPanics(p) PROVE LeaseKept
  BY <1>16, Zenon DEF RunPanics, End, LeaseKept
<1>17. ASSUME NEW p \in Procs, TurnBoundary(p) PROVE LeaseKept
  BY <1>17, Zenon DEF TurnBoundary, End, Ask, LeaseKept
<1>18. ASSUME NEW p \in Procs, TurnRead(p) PROVE LeaseKept
  BY <1>18, Zenon DEF TurnRead, LeaseKept
<1>19. ASSUME NEW p \in Procs, TurnAsks(p) PROVE LeaseKept
  BY <1>19, Zenon DEF TurnAsks, Ask, LeaseKept
<1>20. ASSUME NEW p \in Procs, CallCancelled(p) PROVE LeaseKept
  BY <1>20, Zenon DEF CallCancelled, End, LeaseKept
<1>21. ASSUME NEW p \in Procs, TurnReply(p) PROVE LeaseKept
  BY <1>21, Zenon DEF TurnReply, End, Ask, LeaseKept
<1>22. ASSUME NEW p \in Procs, PauseWrite(p) PROVE LeaseKept
  BY <1>22, Zenon DEF PauseWrite, LeaseKept
<1>23. ASSUME NEW p \in Procs, FinishRead(p) PROVE LeaseKept
  BY <1>23, Zenon DEF FinishRead, LeaseKept
<1>24. ASSUME NEW p \in Procs, FinishWrite(p) PROVE LeaseKept
  BY <1>24, Zenon DEF FinishWrite, LeaseKept
<1>25. ASSUME NEW p \in Procs, EndEvent(p) PROVE LeaseKept
  BY <1>25, Zenon DEF EndEvent, LeaseKept
<1>26. ASSUME NEW p \in Procs, Unregister(p) PROVE LeaseKept
  BY <1>26, Zenon DEF Unregister, LeaseKept
<1>27. ASSUME NEW p \in Procs, DrainCheck(p) PROVE LeaseKept
  BY <1>27, Zenon DEF DrainCheck, LeaseKept
<1>28. ASSUME NEW p \in Procs, DrainRead(p) PROVE LeaseKept
  BY <1>28, Zenon DEF DrainRead, LeaseKept
<1>29. ASSUME NEW p \in Procs, DrainDequeue(p) PROVE LeaseKept
  BY <1>29, Zenon DEF DrainDequeue, LeaseKept
<1>30. ASSUME NEW p \in Procs, DrainDeliver(p) PROVE LeaseKept
  BY <1>30, Zenon DEF DrainDeliver, LeaseKept
<1>31. ASSUME NEW p \in Procs, DrainRequeue(p) PROVE LeaseKept
  BY <1>31, Zenon DEF DrainRequeue, LeaseKept
<1>32. ASSUME NEW p \in Procs, DrainStatus(p) PROVE LeaseKept
  BY <1>32, Zenon DEF DrainStatus, LeaseKept
<1>33. ASSUME NEW p \in Procs, DrainRegister(p) PROVE LeaseKept
  BY <1>33, Zenon DEF DrainRegister, Launch, LeaseKept
<1>34. ASSUME NEW p \in Procs, TurnUpdate(p) PROVE LeaseKept
  BY <1>34, Zenon DEF TurnUpdate, LeaseKept
<1>35. ASSUME NEW p \in Procs, Deadline(p) PROVE LeaseKept
  BY <1>35, Zenon DEF Deadline, LeaseKept
<1>36. ASSUME NEW s \in Sessions, Cancel(s) PROVE LeaseKept
  BY <1>36, Zenon DEF Cancel, LeaseKept
<1>37. ASSUME NEW s \in Sessions, TerminateCancel(s) PROVE LeaseKept
  BY <1>37, Zenon DEF TerminateCancel, LeaseKept
<1>38. ASSUME NEW s \in Sessions, TerminateWrite(s) PROVE LeaseKept
  BY <1>38, Zenon DEF TerminateWrite, LeaseKept
<1>39. CASE UNCHANGED vars
  BY <1>1, <1>39, Zenon DEF vars, LeaseKept
<1> HIDE <1>t DEF RunLocs
<1>40. ASSUME NEW p \in Procs, Step(p) PROVE AcquireWriter(p) \/ ReleaseWriter(p) \/ LeaseKept
  BY <1>40, <1>4, <1>5, <1>6, <1>7, <1>8, <1>9, <1>10, <1>11, <1>12, <1>13, <1>14, <1>15, <1>16,
     <1>17, <1>18, <1>19, <1>20, <1>21, <1>22, <1>23, <1>24, <1>25, <1>26, <1>27, <1>28, <1>29,
     <1>30, <1>31, <1>32, <1>33
  DEF Step, ContinueWith, AddBudget, Start, Run, Settle, DrainQueued
<1> QED
  BY <1>1, <1>2, <1>3, <1>34, <1>35, <1>36, <1>37, <1>38, <1>39, <1>40, StopsSessions, Zenon DEF Next

\* Two runs that may edit never share a checkout, for any number of sessions and
\* calls: the lease of engine.go:899-920 is exclusive even when drainQueued and
\* ContinueWith launch two turns of one session.
THEOREM WriterExclusion == Spec => []OneWriterPerWorkspace
<1>1. TypeOK /\ LeaseInv => OneWriterPerWorkspace
  BY Zenon DEF LeaseInv, OneWriterPerWorkspace
<1> QED
  BY <1>1, TypeInit, TypeNext, LeaseInit, LeaseNext, PTL DEF Spec

-----------------------------------------------------------------------------
(* A running session is on its way to another status *)

\* What a step of p may do without breaking RunningIsOwned: it leaves the other
\* processes and sessions alone, and its own session ends up owned by p, not
\* running, abandoned, or as it was with p not its owner.
OwnedKept(p) ==
  LET s == SessionOf[p]
  IN /\ \A q \in Procs : q # p => pc'[q] = pc[q] /\ snap'[q] = snap[q]
     /\ \A r \in Sessions : r # s => status'[r] = status[r] /\ abandoned'[r] = abandoned[r]
     /\ \/ WillSettle(p)'
        \/ status'[s] # "running"
        \/ abandoned'[s]
        \/ ~WillSettle(p) /\ status'[s] = status[s] /\ abandoned'[s] = abandoned[s]

(* Such a step leaves every running session with an owner. *)
LEMMA OwnedStep ==
  ASSUME TypeOK, RunningIsOwned, NEW p \in Procs, OwnedKept(p) PROVE RunningIsOwned'
<1> SUFFICES ASSUME NEW s \in Sessions, status'[s] = "running", ~abandoned'[s]
             PROVE  \E q \in Procs : SessionOf[q] = s /\ WillSettle(q)'
  BY Zenon DEF RunningIsOwned
<1>1. CASE s = SessionOf[p] /\ WillSettle(p)'
  BY <1>1, Zenon
<1>2. CASE ~(s = SessionOf[p] /\ WillSettle(p)')
  <2>1. status[s] = "running" /\ ~abandoned[s] /\ (s = SessionOf[p] => ~WillSettle(p))
    BY <1>2, Zenon DEF OwnedKept
  <2>2. PICK q \in Procs : SessionOf[q] = s /\ WillSettle(q)
    BY <2>1, Zenon DEF RunningIsOwned
  <2>3. q # p
    BY <2>1, <2>2, Zenon
  <2>4. WillSettle(q)'
    BY <2>2, <2>3, Zenon DEF OwnedKept, WillSettle
  <2> QED
    BY <2>2, <2>4, Zenon
<1> QED
  BY <1>1, <1>2, Zenon

(* No session is running at first. *)
LEMMA OwnedInit == Init => RunningIsOwned
BY DEF Init, RunningIsOwned

(* Every step leaves a running session with its owner. *)
LEMMA OwnedNext == TypeOK /\ RunningIsOwned /\ [Next]_vars => RunningIsOwned'
<1> SUFFICES ASSUME TypeOK, RunningIsOwned, [Next]_vars PROVE RunningIsOwned'
  BY Zenon
<1>t. /\ status \in [Sessions -> Statuses] /\ abandoned \in [Sessions -> BOOLEAN]
      /\ pc \in [Procs -> Locs] /\ snap \in [Procs -> Statuses] /\ result \in [Procs -> Results]
  BY Zenon DEF TypeOK
<1> USE <1>t, Homes DEF Goto, OwnedKept, WillSettle, RunLocs
<1>1. ASSUME NEW p \in Continues, ContinueRead(p) PROVE OwnedKept(p)
  BY <1>1, Zenon DEF ContinueRead
<1>2. ASSUME NEW p \in Continues, ContinueActive(p) PROVE OwnedKept(p)
  BY <1>2, Zenon DEF ContinueActive
<1>3. ASSUME NEW p \in Continues, ContinueEnqueue(p) PROVE OwnedKept(p)
  BY <1>3, Zenon DEF ContinueEnqueue
<1>4. ASSUME NEW p \in Continues, ContinueAccept(p) PROVE OwnedKept(p)
  BY <1>4, Zenon DEF ContinueAccept
<1>5. ASSUME NEW p \in Continues, ContinueResolve(p) PROVE OwnedKept(p)
  BY <1>5, Zenon DEF ContinueResolve, ResolveFails
<1>6. ASSUME NEW p \in Continues, ContinueLaunch(p) PROVE OwnedKept(p)
  BY <1>6, Zenon DEF ContinueLaunch, SetStatus, Launch
<1>7. ASSUME NEW p \in Procs, AddBudgetRead(p) PROVE OwnedKept(p)
  BY <1>7, Zenon DEF AddBudgetRead
<1>8. ASSUME NEW p \in Procs, AddBudgetLaunch(p) PROVE OwnedKept(p)
  BY <1>8, Zenon DEF AddBudgetLaunch, SetStatus, Launch
<1>9. ASSUME NEW p \in Procs, StartCreate(p) PROVE OwnedKept(p)
  BY <1>9, Zenon DEF StartCreate, SetStatus
<1>10. ASSUME NEW p \in Procs, StartRegister(p) PROVE OwnedKept(p)
  BY <1>10, Zenon DEF StartRegister, Launch
<1>11. ASSUME NEW p \in Procs, AcquireWriter(p) PROVE OwnedKept(p)
  BY <1>11, Zenon DEF AcquireWriter, End
<1>12. ASSUME NEW p \in Procs, RunBegin(p) PROVE OwnedKept(p)
  BY <1>12, Zenon DEF RunBegin
<1>13. ASSUME NEW p \in Procs, RunRefused(p) PROVE OwnedKept(p)
  BY <1>13, Zenon DEF RunRefused, End
<1>14. ASSUME NEW p \in Procs, RunPanics(p) PROVE OwnedKept(p)
  BY <1>14, Zenon DEF RunPanics, End
<1>15. ASSUME NEW p \in Procs, TurnBoundary(p) PROVE OwnedKept(p)
  BY <1>15, Zenon DEF TurnBoundary, End, Ask
<1>16. ASSUME NEW p \in Procs, TurnRead(p) PROVE OwnedKept(p)
  BY <1>16, Zenon DEF TurnRead
<1>17. ASSUME NEW p \in Procs, TurnAsks(p) PROVE OwnedKept(p)
  BY <1>17, Zenon DEF TurnAsks, Ask
<1>18. ASSUME NEW p \in Procs, CallCancelled(p) PROVE OwnedKept(p)
  BY <1>18, Zenon DEF CallCancelled, End
<1>19. ASSUME NEW p \in Procs, TurnReply(p) PROVE OwnedKept(p)
  BY <1>19, Zenon DEF TurnReply, WriteBack, End, Ask
<1>20. ASSUME NEW p \in Procs, PauseWrite(p) PROVE OwnedKept(p)
  BY <1>20, Zenon DEF PauseWrite, SetStatus
<1>21. ASSUME NEW p \in Procs, FinishRead(p) PROVE OwnedKept(p)
  BY <1>21, Zenon DEF FinishRead
<1>22. ASSUME NEW p \in Procs, FinishWrite(p) PROVE OwnedKept(p)
  <2>1. pc[p] = "finishing" /\ pc' = [pc EXCEPT ![p] = "terminal"] /\ UNCHANGED snap
    BY <1>22, Zenon DEF FinishWrite
  <2>2. CASE snap[p] = "terminated"
    BY <1>22, <2>1, <2>2, Zenon DEF FinishWrite, FinishStatus
  <2>3. CASE snap[p] # "terminated"
    <3>1. /\ status' = [status EXCEPT ![SessionOf[p]] = result[p]]
          /\ abandoned' = [abandoned EXCEPT ![SessionOf[p]] = FALSE]
      BY <1>22, <2>3, Zenon DEF FinishWrite, FinishStatus, SetStatus
    <3>2. result[p] # "running"
      BY Zenon DEF Results
    <3> QED
      BY <2>1, <3>1, <3>2, Zenon
  <2> QED
    BY <2>2, <2>3, Zenon
<1>23. ASSUME NEW p \in Procs, EndEvent(p) PROVE OwnedKept(p)
  BY <1>23, Zenon DEF EndEvent
<1>24. ASSUME NEW p \in Procs, ReleaseWriter(p) PROVE OwnedKept(p)
  BY <1>24, Zenon DEF ReleaseWriter
<1>25. ASSUME NEW p \in Procs, Unregister(p) PROVE OwnedKept(p)
  BY <1>25, Zenon DEF Unregister
<1>26. ASSUME NEW p \in Procs, DrainCheck(p) PROVE OwnedKept(p)
  BY <1>26, Zenon DEF DrainCheck
<1>27. ASSUME NEW p \in Procs, DrainRead(p) PROVE OwnedKept(p)
  BY <1>27, Zenon DEF DrainRead
<1>28. ASSUME NEW p \in Procs, DrainDequeue(p) PROVE OwnedKept(p)
  BY <1>28, Zenon DEF DrainDequeue
<1>29. ASSUME NEW p \in Procs, DrainDeliver(p) PROVE OwnedKept(p)
  BY <1>29, Zenon DEF DrainDeliver
<1>30. ASSUME NEW p \in Procs, DrainRequeue(p) PROVE OwnedKept(p)
  BY <1>30, Zenon DEF DrainRequeue
<1>31. ASSUME NEW p \in Procs, DrainStatus(p) PROVE OwnedKept(p)
  BY <1>31, Zenon DEF DrainStatus, SetStatus
<1>32. ASSUME NEW p \in Procs, DrainRegister(p) PROVE OwnedKept(p)
  BY <1>32, Zenon DEF DrainRegister, Launch
<1>33. ASSUME NEW p \in Procs, TurnUpdate(p) PROVE OwnedKept(p)
  BY <1>33, Zenon DEF TurnUpdate, WriteBack
<1>34. ASSUME NEW p \in Procs, Deadline(p) PROVE OwnedKept(p)
  BY <1>34, Zenon DEF Deadline
<1>35. ASSUME NEW s \in Sessions, Cancel(s) PROVE RunningIsOwned'
  BY <1>35, Zenon DEF Cancel, RunningIsOwned
<1>36. ASSUME NEW s \in Sessions, TerminateCancel(s) PROVE RunningIsOwned'
  BY <1>36, Zenon DEF TerminateCancel, RunningIsOwned
<1>37. ASSUME NEW s \in Sessions, TerminateWrite(s) PROVE RunningIsOwned'
  BY <1>37 DEF TerminateWrite, SetStatus, RunningIsOwned
<1>38. CASE UNCHANGED vars
  BY <1>38, Zenon DEF vars, RunningIsOwned
<1> HIDE <1>t, Homes DEF OwnedKept, WillSettle
<1>39. ASSUME NEW p \in Procs, Step(p) PROVE OwnedKept(p)
  BY <1>39, <1>1, <1>2, <1>3, <1>4, <1>5, <1>6, <1>7, <1>8, <1>9, <1>10, <1>11, <1>12, <1>13,
     <1>14, <1>15, <1>16, <1>17, <1>18, <1>19, <1>20, <1>21, <1>22, <1>23, <1>24, <1>25, <1>26,
     <1>27, <1>28, <1>29, <1>30, <1>31, <1>32, Zenon
  DEF Step, ContinueWith, AddBudget, Start, Run, Settle, DrainQueued
<1> QED
  BY <1>33, <1>34, <1>35, <1>36, <1>37, <1>38, <1>39, OwnedStep, StopsSessions, Zenon DEF Next

\* A session marked running has a goroutine that will write another status, for
\* any number of overlapping calls, unless its run lost its context between the
\* check and the read at engine.go:1188.
THEOREM RunningOwned == Spec => []RunningIsOwned
BY TypeInit, TypeNext, OwnedInit, OwnedNext, PTL DEF Spec

-----------------------------------------------------------------------------
(* Once in the conversation *)

\* The acceptance transaction adds the request exactly when it had no receipt.
LEMMA AcceptOnce ==
  ASSUME TypeOK, ExactlyOnce, NEW s \in Sessions, NEW e \in Entries,
         receipts[s][e.req] = None, Accept(s, e)
  PROVE  ExactlyOnce'
<1> DEFINE n == Len(history[s])
<1>1. e.req \in Requests /\ e.hash \in Hashes /\ e.hash # None
  BY ConstantsAssumption, Zenon DEF Entries
<1>2. /\ history' = [history EXCEPT ![s] = Append(history[s], e.req)]
      /\ receipts' = [receipts EXCEPT ![s][e.req] = e.hash]
  BY Zenon DEF Accept
<1>3. history[s] \in Seq(Requests) /\ n \in Nat /\ DOMAIN history[s] = 1 .. n
  BY DEF TypeOK
<1>4. /\ DOMAIN history'[s] = 1 .. (n + 1)
      /\ history'[s][n + 1] = e.req
      /\ \A i \in 1 .. n : history'[s][i] = history[s][i]
  BY <1>1, <1>2, <1>3 DEF TypeOK
<1>5. /\ receipts'[s][e.req] = e.hash
      /\ \A r \in Requests : r # e.req => receipts'[s][r] = receipts[s][r]
  BY <1>1, <1>2, Zenon DEF TypeOK
<1>6. \A i \in 1 .. n : history[s][i] # e.req
  BY <1>1, <1>3, Zenon DEF ExactlyOnce
<1>7. ASSUME NEW u \in Sessions, u # s
      PROVE  history'[u] = history[u] /\ receipts'[u] = receipts[u]
  BY <1>2, <1>7, Zenon DEF TypeOK
<1>8. \A r \in Requests :
        receipts'[s][r] # None <=> \E i \in DOMAIN history'[s] : history'[s][i] = r
  <2> SUFFICES ASSUME NEW r \in Requests
               PROVE  receipts'[s][r] # None <=> \E i \in 1 .. (n + 1) : history'[s][i] = r
    BY <1>4, Zenon
  <2>1. CASE r = e.req
    BY <1>1, <1>3, <1>4, <1>5, <2>1
  <2>2. CASE r # e.req
    <3>1. receipts[s][r] # None <=> \E i \in 1 .. n : history[s][i] = r
      BY <1>3 DEF ExactlyOnce
    <3>2. (\E i \in 1 .. (n + 1) : history'[s][i] = r) <=> \E i \in 1 .. n : history[s][i] = r
      <4>1. 1 .. (n + 1) = (1 .. n) \cup {n + 1}
        BY <1>3
      <4> QED
        BY <1>4, <2>2, <4>1, Zenon
    <3> QED
      BY <1>5, <2>2, <3>1, <3>2, Zenon
  <2> QED
    BY <2>1, <2>2, Zenon
<1>9. \A i, j \in DOMAIN history'[s] : history'[s][i] = history'[s][j] => i = j
  <2>1. \A i, j \in 1 .. n : history[s][i] = history[s][j] => i = j
    BY <1>3, Zenon DEF ExactlyOnce
  <2> QED
    BY <1>3, <1>4, <1>6, <2>1
<1>10. ASSUME NEW u \in Sessions
       PROVE  /\ \A r \in Requests :
                    receipts'[u][r] # None <=> \E i \in DOMAIN history'[u] : history'[u][i] = r
              /\ \A i, j \in DOMAIN history'[u] : history'[u][i] = history'[u][j] => i = j
  <2>1. CASE u = s
    BY <1>8, <1>9, <2>1, Zenon
  <2>2. CASE u # s
    BY <1>7, <2>2 DEF ExactlyOnce
  <2> QED
    BY <2>1, <2>2, Zenon
<1> QED
  BY <1>10, Zenon DEF ExactlyOnce

(* No message is in a conversation at first. *)
LEMMA OnceInit == Init => ExactlyOnce
<1> SUFFICES ASSUME Init, NEW s \in Sessions
             PROVE  /\ \A r \in Requests : receipts[s][r] = None
                    /\ DOMAIN history[s] = {}
  BY Zenon DEF ExactlyOnce
<1>1. history[s] = <<>>
  BY Zenon DEF Init
<1> QED
  BY <1>1 DEF Init

(* Every step keeps conversation and receipts in step. *)
LEMMA OnceNext == TypeOK /\ ExactlyOnce /\ [Next]_vars => ExactlyOnce'
<1> SUFFICES ASSUME TypeOK, ExactlyOnce, [Next]_vars PROVE ExactlyOnce'
  BY Zenon
<1>1. ASSUME UNCHANGED <<receipts, history>> PROVE ExactlyOnce'
  BY <1>1 DEF ExactlyOnce
<1>2. ASSUME NEW p \in Continues, ContinueAccept(p) PROVE ExactlyOnce'
  <2>1. SessionOf[p] \in Sessions /\ Entry(p) \in Entries
    BY AckType, Zenon
  <2>2. \/ UNCHANGED <<receipts, history>>
        \/ receipts[SessionOf[p]][Entry(p).req] = None /\ Accept(SessionOf[p], Entry(p))
    BY <1>2, Zenon DEF ContinueAccept
  <2> QED
    BY <1>1, <2>1, <2>2, AcceptOnce, Zenon
<1>3. ASSUME NEW p \in Procs, DrainDeliver(p) PROVE ExactlyOnce'
  <2>1. SessionOf[p] \in Sessions /\ held[p] \in Entries
    <3>1. pc[p] \in CarryLocs
      BY <1>3, Zenon DEF DrainDeliver, CarryLocs
    <3> QED
      BY <3>1, HeldType, Zenon
  <2>2. \/ UNCHANGED <<receipts, history>>
        \/ receipts[SessionOf[p]][held[p].req] = None /\ Accept(SessionOf[p], held[p])
    BY <1>3, Zenon DEF DrainDeliver
  <2> QED
    BY <1>1, <2>1, <2>2, AcceptOnce, Zenon
<1>4. ASSUME NEW p \in Continues, ContinueRead(p) PROVE UNCHANGED <<receipts, history>>
  BY <1>4, Zenon DEF ContinueRead
<1>5. ASSUME NEW p \in Continues, ContinueActive(p) PROVE UNCHANGED <<receipts, history>>
  BY <1>5, Zenon DEF ContinueActive
<1>6. ASSUME NEW p \in Continues, ContinueEnqueue(p) PROVE UNCHANGED <<receipts, history>>
  BY <1>6, Zenon DEF ContinueEnqueue
<1>7. ASSUME NEW p \in Continues, ContinueResolve(p) PROVE UNCHANGED <<receipts, history>>
  BY <1>7, Zenon DEF ContinueResolve
<1>8. ASSUME NEW p \in Continues, ContinueLaunch(p) PROVE UNCHANGED <<receipts, history>>
  BY <1>8, Zenon DEF ContinueLaunch
<1>9. ASSUME NEW p \in Procs, AddBudgetRead(p) PROVE UNCHANGED <<receipts, history>>
  BY <1>9, Zenon DEF AddBudgetRead
<1>10. ASSUME NEW p \in Procs, AddBudgetLaunch(p) PROVE UNCHANGED <<receipts, history>>
  BY <1>10, Zenon DEF AddBudgetLaunch
<1>11. ASSUME NEW p \in Procs, StartCreate(p) PROVE UNCHANGED <<receipts, history>>
  BY <1>11, Zenon DEF StartCreate
<1>12. ASSUME NEW p \in Procs, StartRegister(p) PROVE UNCHANGED <<receipts, history>>
  BY <1>12, Zenon DEF StartRegister
<1>13. ASSUME NEW p \in Procs, AcquireWriter(p) PROVE UNCHANGED <<receipts, history>>
  BY <1>13, Zenon DEF AcquireWriter
<1>14. ASSUME NEW p \in Procs, RunBegin(p) PROVE UNCHANGED <<receipts, history>>
  BY <1>14, Zenon DEF RunBegin
<1>15. ASSUME NEW p \in Procs, RunRefused(p) PROVE UNCHANGED <<receipts, history>>
  BY <1>15, Zenon DEF RunRefused
<1>16. ASSUME NEW p \in Procs, RunPanics(p) PROVE UNCHANGED <<receipts, history>>
  BY <1>16, Zenon DEF RunPanics
<1>17. ASSUME NEW p \in Procs, TurnBoundary(p) PROVE UNCHANGED <<receipts, history>>
  BY <1>17, Zenon DEF TurnBoundary
<1>18. ASSUME NEW p \in Procs, TurnRead(p) PROVE UNCHANGED <<receipts, history>>
  BY <1>18, Zenon DEF TurnRead
<1>19. ASSUME NEW p \in Procs, TurnAsks(p) PROVE UNCHANGED <<receipts, history>>
  BY <1>19, Zenon DEF TurnAsks
<1>20. ASSUME NEW p \in Procs, CallCancelled(p) PROVE UNCHANGED <<receipts, history>>
  BY <1>20, Zenon DEF CallCancelled
<1>21. ASSUME NEW p \in Procs, TurnReply(p) PROVE UNCHANGED <<receipts, history>>
  BY <1>21, Zenon DEF TurnReply
<1>22. ASSUME NEW p \in Procs, PauseWrite(p) PROVE UNCHANGED <<receipts, history>>
  BY <1>22, Zenon DEF PauseWrite
<1>23. ASSUME NEW p \in Procs, FinishRead(p) PROVE UNCHANGED <<receipts, history>>
  BY <1>23, Zenon DEF FinishRead
<1>24. ASSUME NEW p \in Procs, FinishWrite(p) PROVE UNCHANGED <<receipts, history>>
  BY <1>24, Zenon DEF FinishWrite
<1>25. ASSUME NEW p \in Procs, EndEvent(p) PROVE UNCHANGED <<receipts, history>>
  BY <1>25, Zenon DEF EndEvent
<1>26. ASSUME NEW p \in Procs, ReleaseWriter(p) PROVE UNCHANGED <<receipts, history>>
  BY <1>26, Zenon DEF ReleaseWriter
<1>27. ASSUME NEW p \in Procs, Unregister(p) PROVE UNCHANGED <<receipts, history>>
  BY <1>27, Zenon DEF Unregister
<1>28. ASSUME NEW p \in Procs, DrainCheck(p) PROVE UNCHANGED <<receipts, history>>
  BY <1>28, Zenon DEF DrainCheck
<1>29. ASSUME NEW p \in Procs, DrainRead(p) PROVE UNCHANGED <<receipts, history>>
  BY <1>29, Zenon DEF DrainRead
<1>30. ASSUME NEW p \in Procs, DrainDequeue(p) PROVE UNCHANGED <<receipts, history>>
  BY <1>30, Zenon DEF DrainDequeue
<1>31. ASSUME NEW p \in Procs, DrainRequeue(p) PROVE UNCHANGED <<receipts, history>>
  BY <1>31, Zenon DEF DrainRequeue
<1>32. ASSUME NEW p \in Procs, DrainStatus(p) PROVE UNCHANGED <<receipts, history>>
  BY <1>32, Zenon DEF DrainStatus
<1>33. ASSUME NEW p \in Procs, DrainRegister(p) PROVE UNCHANGED <<receipts, history>>
  BY <1>33, Zenon DEF DrainRegister
<1>34. ASSUME NEW p \in Procs, TurnUpdate(p) PROVE UNCHANGED <<receipts, history>>
  BY <1>34, Zenon DEF TurnUpdate
<1>35. ASSUME NEW p \in Procs, Deadline(p) PROVE UNCHANGED <<receipts, history>>
  BY <1>35, Zenon DEF Deadline
<1>36. ASSUME NEW s \in Sessions, Cancel(s) PROVE UNCHANGED <<receipts, history>>
  BY <1>36, Zenon DEF Cancel
<1>37. ASSUME NEW s \in Sessions, TerminateCancel(s) PROVE UNCHANGED <<receipts, history>>
  BY <1>37, Zenon DEF TerminateCancel
<1>38. ASSUME NEW s \in Sessions, TerminateWrite(s) PROVE UNCHANGED <<receipts, history>>
  BY <1>38, Zenon DEF TerminateWrite
<1>39. CASE UNCHANGED vars
  BY <1>1, <1>39, Zenon DEF vars
<1>40. ASSUME NEW p \in Procs, Step(p) PROVE ExactlyOnce'
  BY <1>40, <1>1, <1>2, <1>3, <1>4, <1>5, <1>6, <1>7, <1>8, <1>9, <1>10, <1>11, <1>12, <1>13,
     <1>14, <1>15, <1>16, <1>17, <1>18, <1>19, <1>20, <1>21, <1>22, <1>23, <1>24, <1>25, <1>26,
     <1>27, <1>28, <1>29, <1>30, <1>31, <1>32, <1>33, <1>34, Homes
  DEF Step, ContinueWith, AddBudget, Start, Run, Settle, DrainQueued
<1> QED
  BY <1>1, <1>34, <1>35, <1>36, <1>37, <1>38, <1>39, <1>40, StopsSessions, Zenon DEF Next

\* However a request is sent, queued, drained and retried, and under whatever
\* payloads, it is in the conversation once if it has a receipt and otherwise not.
THEOREM DeliveredOnce == Spec => []ExactlyOnce
BY TypeInit, TypeNext, OnceInit, OnceNext, PTL DEF Spec

-----------------------------------------------------------------------------
(* Nothing that was answered is lost *)

\* Some call sent this message to this session.
Sent(s, e) == \E p \in Continues : SessionOf[p] = s /\ Entry(p) = e

QueueSent == \A s \in Sessions : \A i \in DOMAIN queue[s] : Sent(s, queue[s][i])

HeldSent == \A p \in Procs : pc[p] = "drainDeliver" => Sent(SessionOf[p], held[p])

ReceiptSent ==
  \A s \in Sessions : \A r \in Requests :
    receipts[s][r] # None => Sent(s, [req |-> r, hash |-> receipts[s][r]])

\* Between AcceptMessage and the launch the call's receipt is there.
AcceptedHere ==
  \A p \in Continues :
    pc[p] \in {"accepted", "resolved"} => receipts[SessionOf[p]][RequestOf[p]] = HashOf[p]

\* A delivery never fails, so nothing is queued again.
NoRequeue == \A p \in Procs : pc[p] # "drainRequeue"

\* Every answered message is in the conversation, the queue or a drain's hands,
\* but for those in D.
KeptBut(D) ==
  \A s \in Sessions : \A e \in Entries :
    <<s, e>> \in acked =>
      receipts[s][e.req] = e.hash \/ Queued(s, e) \/ Carried(s, e) \/ <<s, e>> \in D

\* The inductive invariant behind AckedNotLost, where nothing is in D, and behind
\* AckedAcrossCrash, where D is what crashes have dropped.
PathInv(D) == QueueSent /\ HeldSent /\ ReceiptSent /\ AcceptedHere /\ NoRequeue /\ KeptBut(D)

\* When a retry sends what was sent, a session sees one payload per request.
LEMMA SentOnce ==
  ASSUME OnePayload, NEW s, NEW e, NEW f, Sent(s, e), Sent(s, f), e.req = f.req PROVE e = f
BY DEF OnePayload, Sent, Entry

(* The elements of a tail. *)
LEMMA TailOf ==
  ASSUME NEW S, NEW q \in Seq(S), q # <<>>
  PROVE  /\ DOMAIN Tail(q) = 1 .. (Len(q) - 1)
         /\ \A i \in 1 .. (Len(q) - 1) : Tail(q)[i] = q[i + 1]
<1>1. Len(q) \in Nat /\ Len(Tail(q)) = Len(q) - 1 /\ Tail(q) \in Seq(S)
  OBVIOUS
<1>2. DOMAIN Tail(q) = 1 .. Len(Tail(q))
  BY <1>1
<1>3. \A i \in 1 .. (Len(q) - 1) : Tail(q)[i] = q[i + 1]
  OBVIOUS
<1> QED
  BY <1>1, <1>2, <1>3, Zenon

(* The elements of an appended sequence. *)
LEMMA AppendOf ==
  ASSUME NEW S, NEW q \in Seq(S), NEW e \in S
  PROVE  /\ DOMAIN Append(q, e) = 1 .. (Len(q) + 1) /\ Append(q, e)[Len(q) + 1] = e
         /\ \A i \in 1 .. Len(q) : Append(q, e)[i] = q[i]
OBVIOUS

\* What a sequence holds, before and after Append and Tail.
LEMMA AppendHas ==
  ASSUME NEW S, NEW q \in Seq(S), NEW e \in S
  PROVE  \A f : (\E i \in DOMAIN Append(q, e) : Append(q, e)[i] = f)
               <=> (\E i \in DOMAIN q : q[i] = f) \/ f = e
<1> DEFINE n == Len(q)
<1>1. n \in Nat /\ DOMAIN q = 1 .. n /\ DOMAIN Append(q, e) = 1 .. (n + 1)
  OBVIOUS
<1>2. Append(q, e)[n + 1] = e /\ \A i \in 1 .. n : Append(q, e)[i] = q[i]
  OBVIOUS
<1>3. \A i : i \in 1 .. (n + 1) <=> i = n + 1 \/ i \in 1 .. n
  BY <1>1
<1> HIDE DEF n
<1> QED
  BY <1>1, <1>2, <1>3, Zenon

(* What a sequence holds is its head and what its tail holds. *)
LEMMA TailHas ==
  ASSUME NEW S, NEW q \in Seq(S), q # <<>>
  PROVE  \A f : (\E i \in DOMAIN q : q[i] = f)
               <=> (\E i \in DOMAIN Tail(q) : Tail(q)[i] = f) \/ f = Head(q)
<1> DEFINE n == Len(q)
<1>1. n \in Nat /\ n > 0 /\ DOMAIN q = 1 .. n /\ Head(q) = q[1]
  OBVIOUS
<1>2. DOMAIN Tail(q) = 1 .. (n - 1) /\ \A i \in 1 .. (n - 1) : Tail(q)[i] = q[i + 1]
  BY TailOf, Zenon
<1>3. ASSUME NEW f, NEW i \in 1 .. n, q[i] = f
      PROVE  (\E j \in 1 .. (n - 1) : Tail(q)[j] = f) \/ f = Head(q)
  <2>1. CASE i = 1
    BY <1>1, <1>3, <2>1, Zenon
  <2>2. CASE i # 1
    <3>1. i - 1 \in 1 .. (n - 1) /\ (i - 1) + 1 = i
      BY <1>1, <2>2
    <3> QED
      BY <1>2, <1>3, <3>1, Zenon
  <2> QED
    BY <2>1, <2>2, Zenon
<1>4. \A i \in 1 .. (n - 1) : i + 1 \in 1 .. n
  BY <1>1
<1>5. 1 \in 1 .. n
  BY <1>1
<1> HIDE DEF n
<1> QED
  BY <1>1, <1>2, <1>3, <1>4, <1>5, Zenon

\* Steps that keep queue, receipts and acknowledgements, and neither enter nor
\* leave the places the invariant speaks of.
PathKept(p) ==
  /\ UNCHANGED <<queue, receipts, acked>>
  /\ \A q \in Procs : q # p => pc'[q] = pc[q] /\ held'[q] = held[q]
  /\ pc[p] \notin {"drainDeliver", "drainRequeue"}
  /\ pc'[p] \notin {"drainDeliver", "drainRequeue", "accepted", "resolved"}

(* Such a step keeps the invariant. *)
LEMMA PathStep ==
  ASSUME NEW D, TypeOK, PathInv(D), NEW p \in Procs, PathKept(p) PROVE PathInv(D)'
<1>1. QueueSent' /\ ReceiptSent'
  BY Zenon DEF PathInv, PathKept, QueueSent, ReceiptSent
<1>2. HeldSent' /\ NoRequeue' /\ AcceptedHere'
  BY Zenon DEF PathInv, PathKept, HeldSent, NoRequeue, AcceptedHere, Procs
<1>3. ASSUME NEW s, NEW e PROVE Carried(s, e) => Carried(s, e)'
  BY Zenon DEF PathKept, Carried
<1>4. ASSUME NEW s, NEW e PROVE Queued(s, e)' <=> Queued(s, e)
  BY Zenon DEF PathKept, Queued
<1>5. KeptBut(D)'
  BY <1>3, <1>4, Zenon DEF PathInv, PathKept, KeptBut
<1> QED
  BY <1>1, <1>2, <1>5, Zenon DEF PathInv

\* A receipt, once written, stays.
LEMMA AcceptKeepsReceipts ==
  ASSUME TypeOK, NEW s \in Sessions, NEW e \in Entries, receipts[s][e.req] = None, Accept(s, e)
  PROVE  /\ receipts'[s][e.req] = e.hash
         /\ \A u \in Sessions, r \in Requests :
              <<u, r>> # <<s, e.req>> => receipts'[u][r] = receipts[u][r]
         /\ \A u \in Sessions, r \in Requests : receipts[u][r] # None => receipts'[u][r] = receipts[u][r]
BY DEF TypeOK, Accept, Entries

\* The parts of the invariant that speak of receipts, when a sent message is accepted.
LEMMA AcceptSent ==
  ASSUME NEW D, TypeOK, PathInv(D), NEW s \in Sessions, NEW e \in Entries, Sent(s, e),
         receipts[s][e.req] = None, Accept(s, e)
  PROVE  ReceiptSent'
<1> SUFFICES ASSUME NEW u \in Sessions, NEW r \in Requests, receipts'[u][r] # None
             PROVE  Sent(u, [req |-> r, hash |-> receipts'[u][r]])
  BY Zenon DEF ReceiptSent, Sent, Entry
<1>1. CASE u = s /\ r = e.req
  <2>1. e = [req |-> r, hash |-> receipts'[u][r]]
    BY <1>1, AcceptKeepsReceipts, Zenon DEF Entries
  <2> QED
    BY <1>1, <2>1, Zenon
<1>2. CASE ~(u = s /\ r = e.req)
  BY <1>2, AcceptKeepsReceipts DEF PathInv, ReceiptSent
<1> QED
  BY <1>1, <1>2, Zenon

(* No message is on its way at first. *)
LEMMA PathInit == Init => PathInv({})
<1> SUFFICES ASSUME Init PROVE PathInv({})
  BY Zenon
<1>1. QueueSent
  <2>1. \A s \in Sessions : queue[s] = <<>>
    BY Zenon DEF Init
  <2> QED
    BY <2>1 DEF QueueSent
<1> QED
  BY <1>1, Zenon DEF Init, PathInv, HeldSent, ReceiptSent, AcceptedHere, NoRequeue, KeptBut, Procs

\* A step of the message path, and every other step.
PathAction(p) ==
  \/ p \in Continues /\ (\/ ContinueRead(p) \/ ContinueEnqueue(p) \/ ContinueAccept(p)
                         \/ ContinueResolve(p) \/ ContinueLaunch(p))
  \/ DrainDequeue(p) \/ DrainDeliver(p) \/ DrainRequeue(p)

OtherStep ==
  \/ \E p \in Procs : PathKept(p) /\ UNCHANGED history
  \/ UNCHANGED <<queue, receipts, history, acked, pc, held>>

(* Every step is one of the message path or leaves the path alone. *)
LEMMA OtherSteps ==
  ASSUME TypeOK, [Next]_vars
  PROVE  (\E p \in Procs : PathAction(p)) \/ OtherStep
<1>t. /\ pc \in [Procs -> Locs] /\ held \in [Procs -> Entries \cup {NoEntry}]
  BY Zenon DEF TypeOK
<1>h. (\A p \in Procs : SessionOf[p] \in Sessions) /\ (\A p \in Continues : p \in Procs)
  BY Homes, Zenon
<1> USE <1>t, <1>h DEF Goto
<1>1. ASSUME NEW p \in Continues, ContinueActive(p) PROVE OtherStep
  <2>1. p \in Procs /\ PathKept(p) /\ UNCHANGED history
    BY <1>1, Zenon DEF ContinueActive, PathKept
  <2> QED
    BY <2>1, Zenon DEF OtherStep
<1>2. ASSUME NEW p \in Procs, AddBudgetRead(p) PROVE OtherStep
  <2>1. p \in Procs /\ PathKept(p) /\ UNCHANGED history
    BY <1>2, Zenon DEF AddBudgetRead, PathKept
  <2> QED
    BY <2>1, Zenon DEF OtherStep
<1>3. ASSUME NEW p \in Procs, AddBudgetLaunch(p) PROVE OtherStep
  <2>1. p \in Procs /\ PathKept(p) /\ UNCHANGED history
    BY <1>3, Zenon DEF AddBudgetLaunch, Launch, PathKept
  <2> QED
    BY <2>1, Zenon DEF OtherStep
<1>4. ASSUME NEW p \in Procs, StartCreate(p) PROVE OtherStep
  <2>1. p \in Procs /\ PathKept(p) /\ UNCHANGED history
    BY <1>4, Zenon DEF StartCreate, PathKept
  <2> QED
    BY <2>1, Zenon DEF OtherStep
<1>5. ASSUME NEW p \in Procs, StartRegister(p) PROVE OtherStep
  <2>1. p \in Procs /\ PathKept(p) /\ UNCHANGED history
    BY <1>5, Zenon DEF StartRegister, Launch, PathKept
  <2> QED
    BY <2>1, Zenon DEF OtherStep
<1>6. ASSUME NEW p \in Procs, AcquireWriter(p) PROVE OtherStep
  <2>1. p \in Procs /\ PathKept(p) /\ UNCHANGED history
    BY <1>6, Zenon DEF AcquireWriter, End, PathKept
  <2> QED
    BY <2>1, Zenon DEF OtherStep
<1>7. ASSUME NEW p \in Procs, RunBegin(p) PROVE OtherStep
  <2>1. p \in Procs /\ PathKept(p) /\ UNCHANGED history
    BY <1>7, Zenon DEF RunBegin, PathKept
  <2> QED
    BY <2>1, Zenon DEF OtherStep
<1>8. ASSUME NEW p \in Procs, RunRefused(p) PROVE OtherStep
  <2>1. p \in Procs /\ PathKept(p) /\ UNCHANGED history
    BY <1>8, Zenon DEF RunRefused, End, PathKept
  <2> QED
    BY <2>1, Zenon DEF OtherStep
<1>9. ASSUME NEW p \in Procs, RunPanics(p) PROVE OtherStep
  <2>1. p \in Procs /\ PathKept(p) /\ UNCHANGED history
    BY <1>9, Zenon DEF RunPanics, End, PathKept
  <2> QED
    BY <2>1, Zenon DEF OtherStep
<1>10. ASSUME NEW p \in Procs, TurnBoundary(p) PROVE OtherStep
  <2>1. p \in Procs /\ PathKept(p) /\ UNCHANGED history
    BY <1>10, Zenon DEF TurnBoundary, End, Ask, PathKept
  <2> QED
    BY <2>1, Zenon DEF OtherStep
<1>11. ASSUME NEW p \in Procs, TurnRead(p) PROVE OtherStep
  <2>1. p \in Procs /\ PathKept(p) /\ UNCHANGED history
    BY <1>11, Zenon DEF TurnRead, PathKept
  <2> QED
    BY <2>1, Zenon DEF OtherStep
<1>12. ASSUME NEW p \in Procs, TurnAsks(p) PROVE OtherStep
  <2>1. p \in Procs /\ PathKept(p) /\ UNCHANGED history
    BY <1>12, Zenon DEF TurnAsks, Ask, PathKept
  <2> QED
    BY <2>1, Zenon DEF OtherStep
<1>13. ASSUME NEW p \in Procs, CallCancelled(p) PROVE OtherStep
  <2>1. p \in Procs /\ PathKept(p) /\ UNCHANGED history
    BY <1>13, Zenon DEF CallCancelled, End, PathKept
  <2> QED
    BY <2>1, Zenon DEF OtherStep
<1>14. ASSUME NEW p \in Procs, TurnReply(p) PROVE OtherStep
  <2>1. p \in Procs /\ PathKept(p) /\ UNCHANGED history
    BY <1>14, Zenon DEF TurnReply, End, Ask, PathKept
  <2> QED
    BY <2>1, Zenon DEF OtherStep
<1>15. ASSUME NEW p \in Procs, PauseWrite(p) PROVE OtherStep
  <2>1. p \in Procs /\ PathKept(p) /\ UNCHANGED history
    BY <1>15, Zenon DEF PauseWrite, PathKept
  <2> QED
    BY <2>1, Zenon DEF OtherStep
<1>16. ASSUME NEW p \in Procs, FinishRead(p) PROVE OtherStep
  <2>1. p \in Procs /\ PathKept(p) /\ UNCHANGED history
    BY <1>16, Zenon DEF FinishRead, PathKept
  <2> QED
    BY <2>1, Zenon DEF OtherStep
<1>17. ASSUME NEW p \in Procs, FinishWrite(p) PROVE OtherStep
  <2>1. p \in Procs /\ PathKept(p) /\ UNCHANGED history
    BY <1>17, Zenon DEF FinishWrite, PathKept
  <2> QED
    BY <2>1, Zenon DEF OtherStep
<1>18. ASSUME NEW p \in Procs, EndEvent(p) PROVE OtherStep
  <2>1. p \in Procs /\ PathKept(p) /\ UNCHANGED history
    BY <1>18, Zenon DEF EndEvent, PathKept
  <2> QED
    BY <2>1, Zenon DEF OtherStep
<1>19. ASSUME NEW p \in Procs, ReleaseWriter(p) PROVE OtherStep
  <2>1. p \in Procs /\ PathKept(p) /\ UNCHANGED history
    BY <1>19, Zenon DEF ReleaseWriter, PathKept
  <2> QED
    BY <2>1, Zenon DEF OtherStep
<1>20. ASSUME NEW p \in Procs, Unregister(p) PROVE OtherStep
  <2>1. p \in Procs /\ PathKept(p) /\ UNCHANGED history
    BY <1>20, Zenon DEF Unregister, PathKept
  <2> QED
    BY <2>1, Zenon DEF OtherStep
<1>21. ASSUME NEW p \in Procs, DrainCheck(p) PROVE OtherStep
  <2>1. p \in Procs /\ PathKept(p) /\ UNCHANGED history
    BY <1>21, Zenon DEF DrainCheck, PathKept
  <2> QED
    BY <2>1, Zenon DEF OtherStep
<1>22. ASSUME NEW p \in Procs, DrainRead(p) PROVE OtherStep
  <2>1. p \in Procs /\ PathKept(p) /\ UNCHANGED history
    BY <1>22, Zenon DEF DrainRead, PathKept
  <2> QED
    BY <2>1, Zenon DEF OtherStep
<1>23. ASSUME NEW p \in Procs, DrainStatus(p) PROVE OtherStep
  <2>1. p \in Procs /\ PathKept(p) /\ UNCHANGED history
    BY <1>23, Zenon DEF DrainStatus, PathKept
  <2> QED
    BY <2>1, Zenon DEF OtherStep
<1>24. ASSUME NEW p \in Procs, DrainRegister(p) PROVE OtherStep
  <2>1. p \in Procs /\ PathKept(p) /\ UNCHANGED history
    BY <1>24, Zenon DEF DrainRegister, Launch, PathKept
  <2> QED
    BY <2>1, Zenon DEF OtherStep
<1>25. ASSUME NEW p \in Procs, TurnUpdate(p) PROVE OtherStep
  <2>1. UNCHANGED <<queue, receipts, history, acked, pc, held>>
    BY <1>25, Zenon DEF TurnUpdate
  <2> QED
    BY <2>1, Zenon DEF OtherStep
<1>26. ASSUME NEW p \in Procs, Deadline(p) PROVE OtherStep
  <2>1. UNCHANGED <<queue, receipts, history, acked, pc, held>>
    BY <1>26, Zenon DEF Deadline
  <2> QED
    BY <2>1, Zenon DEF OtherStep
<1>27. ASSUME NEW s \in Sessions, Cancel(s) PROVE OtherStep
  <2>1. UNCHANGED <<queue, receipts, history, acked, pc, held>>
    BY <1>27, Zenon DEF Cancel
  <2> QED
    BY <2>1, Zenon DEF OtherStep
<1>28. ASSUME NEW s \in Sessions, TerminateCancel(s) PROVE OtherStep
  <2>1. UNCHANGED <<queue, receipts, history, acked, pc, held>>
    BY <1>28, Zenon DEF TerminateCancel
  <2> QED
    BY <2>1, Zenon DEF OtherStep
<1>29. ASSUME NEW s \in Sessions, TerminateWrite(s) PROVE OtherStep
  <2>1. UNCHANGED <<queue, receipts, history, acked, pc, held>>
    BY <1>29, Zenon DEF TerminateWrite
  <2> QED
    BY <2>1, Zenon DEF OtherStep
<1>30. CASE UNCHANGED vars
  BY <1>30, Zenon DEF vars, OtherStep
<1> HIDE DEF Goto
<1>31. ASSUME NEW p \in Procs, Step(p) PROVE PathAction(p) \/ OtherStep
  BY <1>31, <1>1, <1>2, <1>3, <1>4, <1>5, <1>6, <1>7, <1>8, <1>9, <1>10, <1>11, <1>12,
     <1>13, <1>14, <1>15, <1>16, <1>17, <1>18, <1>19, <1>20, <1>21, <1>22, <1>23, <1>24
  DEF Step, ContinueWith, AddBudget, Start, Run, Settle, DrainQueued, PathAction
<1> HIDE <1>t, <1>h
<1> QED
  BY <1>25, <1>26, <1>27, <1>28, <1>29, <1>30, <1>31, StopsSessions, Zenon DEF Next

\* The receipt a carried message meets is its own.
LEMMA ReceiptMatches ==
  ASSUME OnePayload, NEW D, PathInv(D), NEW s \in Sessions, NEW e \in Entries, Sent(s, e)
  PROVE  receipts[s][e.req] \in {None, e.hash}
<1> SUFFICES ASSUME receipts[s][e.req] # None PROVE receipts[s][e.req] = e.hash
  BY Zenon
<1> DEFINE f == [req |-> e.req, hash |-> receipts[s][e.req]]
<1>1. Sent(s, f)
  BY Zenon DEF PathInv, ReceiptSent, Entries
<1>2. f = e
  BY <1>1, SentOnce, Zenon
<1> QED
  BY <1>2

(* Every step keeps the invariant. *)
LEMMA PathNext ==
  ASSUME OnePayload, NEW D PROVE TypeOK /\ PathInv(D) /\ [Next]_vars => PathInv(D)'
<1> SUFFICES ASSUME TypeOK, PathInv(D), [Next]_vars PROVE PathInv(D)'
  BY Zenon
<1>t. /\ queue \in [Sessions -> Seq(Entries)] /\ history \in [Sessions -> Seq(Requests)]
      /\ receipts \in [Sessions -> [Requests -> Hashes \cup {None}]]
      /\ pc \in [Procs -> Locs] /\ held \in [Procs -> Entries \cup {NoEntry}]
  BY Zenon DEF TypeOK
<1>h. (\A p \in Procs : SessionOf[p] \in Sessions) /\ (\A p \in Continues : p \in Procs)
  BY Homes, Zenon
<1> USE <1>t, <1>h DEF Goto
<1>1. ASSUME NEW p \in Continues, ContinueRead(p) PROVE PathInv(D)'
  <2>1. p \in Procs /\ SessionOf[p] \in Sessions /\ Entry(p) \in Entries
    BY AckType, Zenon
  <2>2. CASE UNCHANGED acked
    BY <1>1, <2>1, <2>2, PathStep, ZenonT(30) DEF ContinueRead, PathKept
  <2>3. CASE /\ receipts[SessionOf[p]][Entry(p).req] = Entry(p).hash
             /\ Ack(SessionOf[p], Entry(p)) /\ Goto(p, "done")
    <3>1. UNCHANGED <<queue, receipts, held>> /\ pc[p] = "idle"
      BY <1>1, Zenon DEF ContinueRead
    <3>2. pc' = [pc EXCEPT ![p] = "done"]
      BY <2>3, Zenon
    <3>3. QueueSent' /\ ReceiptSent'
      BY <3>1, Zenon DEF PathInv, QueueSent, ReceiptSent
    <3>4. HeldSent' /\ NoRequeue' /\ AcceptedHere'
      BY <2>1, <3>1, <3>2, Zenon DEF PathInv, HeldSent, NoRequeue, AcceptedHere
    <3>5. ASSUME NEW s, NEW e PROVE Carried(s, e) => Carried(s, e)'
      BY <2>1, <3>1, <3>2, Zenon DEF Carried
    <3>6. ASSUME NEW s, NEW e PROVE Queued(s, e)' <=> Queued(s, e)
      BY <3>1, Zenon DEF Queued
    <3>7. KeptBut(D)'
      BY <2>3, <3>1, <3>5, <3>6, Zenon DEF PathInv, KeptBut, Ack
    <3> QED
      BY <3>3, <3>4, <3>7, Zenon DEF PathInv
  <2> QED
    BY <1>1, <2>2, <2>3, Zenon DEF ContinueRead
<1>2. ASSUME NEW p \in Continues, ContinueEnqueue(p) PROVE PathInv(D)'
  <2> DEFINE s == SessionOf[p]
             e == Entry(p)
             n == Len(queue[s])
  <2>1. p \in Procs /\ s \in Sessions /\ e \in Entries /\ Sent(s, e)
    BY AckType, Zenon DEF Sent
  <2>2. CASE UNCHANGED <<queue, acked>>
    BY <1>2, <2>1, <2>2, PathStep, ZenonT(30) DEF ContinueEnqueue, PathKept
  <2>3. CASE CanEnqueue(s, e) /\ EnqueueMessage(s, e) /\ Ack(s, e)
    <3>1. UNCHANGED <<receipts, held>> /\ pc' = [pc EXCEPT ![p] = "done"] /\ pc[p] = "enqueue"
      BY <1>2, Zenon DEF ContinueEnqueue
    <3>2. queue[s] \in Seq(Entries) /\ n \in Nat /\ DOMAIN queue[s] = 1 .. n
      BY <2>1
    <3>3. Queued(s, e)' /\ \A i \in DOMAIN queue[s] : i \in DOMAIN queue'[s] /\ queue'[s][i] = queue[s][i]
      <4>1. CASE QueuedRequest(s, e.req)
        BY <2>3, <4>1, Zenon DEF EnqueueMessage, CanEnqueue, QueuedRequest, Queued
      <4>2. CASE ~QueuedRequest(s, e.req)
        <5>1. queue' = [queue EXCEPT ![s] = Append(queue[s], e)]
          BY <2>3, <4>2, Zenon DEF EnqueueMessage
        <5>2. queue'[s] = Append(queue[s], e)
          BY <2>1, <5>1, Zenon
        <5>3. DOMAIN queue'[s] = 1 .. (n + 1) /\ queue'[s][n + 1] = e
          BY <2>1, <3>2, <5>2, AppendOf
        <5>4. \A i \in 1 .. n : queue'[s][i] = queue[s][i]
          BY <2>1, <3>2, <5>2, AppendOf
        <5>5. n + 1 \in DOMAIN queue'[s] /\ \A i \in 1 .. n : i \in DOMAIN queue'[s]
          BY <3>2, <5>3
        <5> HIDE DEF n, s, e
        <5> QED
          BY <3>2, <5>3, <5>4, <5>5, Zenon DEF Queued
      <4> QED
        BY <4>1, <4>2, Zenon
    <3>4. \A i \in DOMAIN queue'[s] : queue'[s][i] = e \/ (i \in DOMAIN queue[s] /\ queue'[s][i] = queue[s][i])
      <4>1. CASE QueuedRequest(s, e.req)
        BY <2>3, <4>1, Zenon DEF EnqueueMessage
      <4>2. CASE ~QueuedRequest(s, e.req)
        <5>2. queue'[s] = Append(queue[s], e)
          BY <2>1, <2>3, <4>2, Zenon DEF EnqueueMessage
        <5>3. DOMAIN queue'[s] = 1 .. (n + 1) /\ queue'[s][n + 1] = e
          BY <2>1, <3>2, <5>2, AppendOf
        <5>4. \A i \in 1 .. n : queue'[s][i] = queue[s][i]
          BY <2>1, <3>2, <5>2, AppendOf
        <5>5. \A i \in 1 .. (n + 1) : i = n + 1 \/ i \in 1 .. n
          BY <3>2
        <5> SUFFICES ASSUME NEW i \in 1 .. (n + 1)
                     PROVE  queue'[s][i] = e \/ (i \in 1 .. n /\ queue'[s][i] = queue[s][i])
          BY <3>2, <5>3, Zenon
        <5>6. CASE i = n + 1
          BY <5>3, <5>6, Zenon
        <5>7. CASE i \in 1 .. n
          BY <5>4, <5>7, Zenon
        <5> QED
          BY <5>5, <5>6, <5>7, Zenon
      <4> QED
        BY <4>1, <4>2, Zenon
    <3>5. \A u \in Sessions : u # s => queue'[u] = queue[u]
      BY <2>1, <2>3, Zenon DEF EnqueueMessage
    <3>6. QueueSent'
      <4> SUFFICES ASSUME NEW u \in Sessions, NEW i \in DOMAIN queue'[u] PROVE Sent(u, queue'[u][i])
        BY Zenon DEF QueueSent, Sent, Entry
      <4> QED
        BY <2>1, <3>4, <3>5, ZenonT(30) DEF PathInv, QueueSent
    <3>7. ReceiptSent'
      BY <3>1, Zenon DEF PathInv, ReceiptSent
    <3>8. HeldSent' /\ NoRequeue' /\ AcceptedHere'
      BY <2>1, <3>1, Zenon DEF PathInv, HeldSent, NoRequeue, AcceptedHere
    <3>9. ASSUME NEW u, NEW f PROVE Carried(u, f) => Carried(u, f)'
      BY <2>1, <3>1, Zenon DEF Carried
    <3>10. ASSUME NEW u \in Sessions, NEW f PROVE Queued(u, f) => Queued(u, f)'
      BY <3>3, <3>5, ZenonT(30) DEF Queued
    <3>11. KeptBut(D)'
      BY <2>1, <2>3, <3>1, <3>3, <3>9, <3>10, Zenon DEF PathInv, KeptBut, Ack
    <3> QED
      BY <3>6, <3>7, <3>8, <3>11, Zenon DEF PathInv
  <2> QED
    BY <1>2, <2>2, <2>3, Zenon DEF ContinueEnqueue
<1>3. ASSUME NEW p \in Continues, ContinueAccept(p) PROVE PathInv(D)'
  <2> DEFINE s == SessionOf[p]
             e == Entry(p)
             loc == IF asked[p] THEN "accepted" ELSE "resolved"
  <2>1. p \in Procs /\ s \in Sessions /\ e \in Entries /\ Sent(s, e)
    BY AckType, Zenon DEF Sent
  <2>2. UNCHANGED <<queue, acked, held>> /\ pc[p] = "locked"
    BY <1>3, Zenon DEF ContinueAccept
  <2>3. CASE UNCHANGED receipts /\ pc' = [pc EXCEPT ![p] = "done"]
    BY <2>1, <2>2, <2>3, PathStep, ZenonT(30) DEF PathKept
  <2>4. CASE /\ pc' = [pc EXCEPT ![p] = loc] /\ receipts'[s][e.req] = e.hash
             /\ ReceiptSent'
             /\ \A u \in Sessions, r \in Requests :
                  receipts[u][r] # None => receipts'[u][r] = receipts[u][r]
    <3>1. QueueSent'
      BY <2>2, Zenon DEF PathInv, QueueSent
    <3>2. HeldSent' /\ NoRequeue'
      BY <2>1, <2>2, <2>4, Zenon DEF PathInv, HeldSent, NoRequeue
    <3>3. AcceptedHere'
      <4> SUFFICES ASSUME NEW q \in Continues, pc'[q] \in {"accepted", "resolved"}
                   PROVE  receipts'[SessionOf[q]][RequestOf[q]] = HashOf[q]
        BY Zenon DEF AcceptedHere
      <4>1. CASE q = p
        BY <2>4, <4>1, Zenon DEF Entry
      <4>2. CASE q # p
        <5>1. receipts[SessionOf[q]][RequestOf[q]] = HashOf[q]
          BY <2>4, <4>2, Zenon DEF PathInv, AcceptedHere
        <5>2. SessionOf[q] \in Sessions /\ RequestOf[q] \in Requests /\ HashOf[q] # None
          BY ConstantsAssumption
        <5> QED
          BY <2>4, <5>1, <5>2, Zenon
      <4> QED
        BY <4>1, <4>2, Zenon
    <3>4. ASSUME NEW u, NEW f PROVE Carried(u, f) => Carried(u, f)'
      BY <2>1, <2>2, <2>4, Zenon DEF Carried
    <3>5. ASSUME NEW u, NEW f PROVE Queued(u, f)' <=> Queued(u, f)
      BY <2>2, Zenon DEF Queued
    <3>6. KeptBut(D)'
      <4> SUFFICES ASSUME NEW u \in Sessions, NEW f \in Entries, <<u, f>> \in acked
                   PROVE  receipts'[u][f.req] = f.hash \/ Queued(u, f)' \/ Carried(u, f)' \/ <<u, f>> \in D
        BY <2>2, Zenon DEF KeptBut
      <4>1. f.req \in Requests /\ f.hash # None
        BY ConstantsAssumption, Zenon DEF Entries
      <4> QED
        BY <2>4, <3>4, <3>5, <4>1, Zenon DEF PathInv, KeptBut
    <3> QED
      BY <2>4, <3>1, <3>2, <3>3, <3>6, Zenon DEF PathInv
  <2>5. CASE receipts[s][e.req] = None /\ Accept(s, e) /\ pc' = [pc EXCEPT ![p] = loc]
    BY <2>1, <2>4, <2>5, AcceptKeepsReceipts, AcceptSent, Zenon
  <2>6. CASE /\ receipts[s][e.req] = e.hash /\ UNCHANGED receipts
             /\ pc' = [pc EXCEPT ![p] = loc]
    <3>1. ReceiptSent'
      BY <2>6, Zenon DEF PathInv, ReceiptSent
    <3> QED
      BY <2>4, <2>6, <3>1, Zenon
  <2> QED
    BY <1>3, <2>3, <2>5, <2>6, Zenon DEF ContinueAccept
<1>4. ASSUME NEW p \in Continues, ContinueResolve(p) PROVE PathInv(D)'
  <2>1. p \in Procs
    BY Zenon DEF Procs
  <2>2. UNCHANGED <<queue, receipts, acked, held>> /\ pc[p] = "accepted"
    BY <1>4, Zenon DEF ContinueResolve
  <2>3. CASE pc' = [pc EXCEPT ![p] = "done"]
    BY <2>1, <2>2, <2>3, PathStep, ZenonT(30) DEF PathKept
  <2>4. CASE pc' = [pc EXCEPT ![p] = "resolved"]
    <3>1. QueueSent' /\ ReceiptSent'
      BY <2>2, Zenon DEF PathInv, QueueSent, ReceiptSent
    <3>2. HeldSent' /\ NoRequeue' /\ AcceptedHere'
      BY <2>1, <2>2, <2>4, Zenon DEF PathInv, HeldSent, NoRequeue, AcceptedHere
    <3>3. ASSUME NEW u, NEW f PROVE Carried(u, f) => Carried(u, f)'
      BY <2>1, <2>2, <2>4, Zenon DEF Carried
    <3>4. ASSUME NEW u, NEW f PROVE Queued(u, f)' <=> Queued(u, f)
      BY <2>2, Zenon DEF Queued
    <3>5. KeptBut(D)'
      BY <2>2, <3>3, <3>4, Zenon DEF PathInv, KeptBut
    <3> QED
      BY <3>1, <3>2, <3>5, Zenon DEF PathInv
  <2> QED
    BY <1>4, <2>3, <2>4, Zenon DEF ContinueResolve, ResolveFails
<1>5. ASSUME NEW p \in Continues, ContinueLaunch(p) PROVE PathInv(D)'
  <2> DEFINE s == SessionOf[p]
             e == Entry(p)
  <2>1. p \in Procs /\ s \in Sessions /\ e \in Entries
    BY AckType, Zenon
  <2>2. /\ UNCHANGED <<queue, receipts, held>> /\ pc[p] = "resolved"
        /\ pc' = [pc EXCEPT ![p] = "launched"] /\ acked' = acked \cup {<<s, e>>}
    BY <1>5, Zenon DEF ContinueLaunch, Launch, Ack
  <2>3. receipts'[s][e.req] = e.hash
    BY <2>2, Zenon DEF PathInv, AcceptedHere, Entry
  <2>4. QueueSent' /\ ReceiptSent'
    BY <2>2, Zenon DEF PathInv, QueueSent, ReceiptSent
  <2>5. HeldSent' /\ NoRequeue' /\ AcceptedHere'
    BY <2>1, <2>2, Zenon DEF PathInv, HeldSent, NoRequeue, AcceptedHere
  <2>6. ASSUME NEW u, NEW f PROVE Carried(u, f) => Carried(u, f)'
    BY <2>1, <2>2, Zenon DEF Carried
  <2>7. ASSUME NEW u, NEW f PROVE Queued(u, f)' <=> Queued(u, f)
    BY <2>2, Zenon DEF Queued
  <2>8. KeptBut(D)'
    BY <2>2, <2>3, <2>6, <2>7, Zenon DEF PathInv, KeptBut
  <2> QED
    BY <2>4, <2>5, <2>8, Zenon DEF PathInv
<1>6. ASSUME NEW p \in Procs, DrainDequeue(p) PROVE PathInv(D)'
  <2> DEFINE s == SessionOf[p]
             n == Len(queue[s])
  <2>1. s \in Sessions /\ queue[s] \in Seq(Entries)
    BY Zenon
  <2>2. UNCHANGED <<receipts, acked>> /\ pc[p] = "drainDequeue"
    BY <1>6, Zenon DEF DrainDequeue
  <2>3. CASE UNCHANGED <<queue, held>> /\ pc' = [pc EXCEPT ![p] = "done"]
    BY <2>2, <2>3, PathStep, ZenonT(30) DEF PathKept
  <2>4. CASE /\ queue[s] # <<>>
             /\ held' = [held EXCEPT ![p] = Head(queue[s])]
             /\ queue' = [queue EXCEPT ![s] = Tail(queue[s])]
             /\ pc' = [pc EXCEPT ![p] = "drainDeliver"]
    <3>1. n \in Nat /\ n > 0 /\ DOMAIN queue[s] = 1 .. n /\ Head(queue[s]) = queue[s][1]
      BY <2>1, <2>4
    <3>2. queue'[s] = Tail(queue[s]) /\ \A u \in Sessions : u # s => queue'[u] = queue[u]
      BY <2>1, <2>4, Zenon
    <3>3. DOMAIN queue'[s] = 1 .. (n - 1) /\ \A i \in 1 .. (n - 1) : queue'[s][i] = queue[s][i + 1]
      <4>1. /\ DOMAIN Tail(queue[s]) = 1 .. (Len(queue[s]) - 1)
            /\ \A i \in 1 .. (Len(queue[s]) - 1) : Tail(queue[s])[i] = queue[s][i + 1]
        <5> HIDE DEF s
        <5> QED
          BY <2>1, <2>4, TailOf, Zenon
      <4> QED
        BY <3>2, <4>1, Zenon
    <3>4. held'[p] = queue[s][1] /\ pc'[p] = "drainDeliver"
      BY <2>4, <3>1, Zenon
    <3>5. \A q \in Procs : q # p => held'[q] = held[q] /\ pc'[q] = pc[q]
      BY <2>4, Zenon
    <3>6. \A i \in 1 .. (n - 1) : i + 1 \in 1 .. n
      BY <3>1
    <3>7. 1 \in 1 .. n
      BY <3>1
    <3>8. QueueSent'
      <4> SUFFICES ASSUME NEW u \in Sessions, NEW i \in DOMAIN queue'[u] PROVE Sent(u, queue'[u][i])
        BY Zenon DEF QueueSent, Sent, Entry
      <4> QED
        BY <3>1, <3>2, <3>3, <3>6, ZenonT(30) DEF PathInv, QueueSent
    <3>9. HeldSent'
      <4> SUFFICES ASSUME NEW q \in Procs, pc'[q] = "drainDeliver" PROVE Sent(SessionOf[q], held'[q])
        BY Zenon DEF HeldSent, Sent, Entry
      <4>1. CASE q = p
        BY <2>1, <3>1, <3>4, <3>7, <4>1, Zenon DEF PathInv, QueueSent
      <4>2. CASE q # p
        BY <3>5, <4>2, Zenon DEF PathInv, HeldSent
      <4> QED
        BY <4>1, <4>2, Zenon
    <3>10. ReceiptSent'
      BY <2>2, Zenon DEF PathInv, ReceiptSent
    <3>11. NoRequeue' /\ AcceptedHere'
      BY <2>2, <3>4, <3>5 DEF PathInv, NoRequeue, AcceptedHere
    <3>12. ASSUME NEW u, NEW f PROVE Carried(u, f) => Carried(u, f)'
      BY <2>2, <3>5, ZenonT(30) DEF Carried
    <3>13. ASSUME NEW u \in Sessions, NEW f, Queued(u, f) PROVE Queued(u, f)' \/ Carried(u, f)'
      <4>1. PICK i \in DOMAIN queue[u] : queue[u][i] = f
        BY <3>13, Zenon DEF Queued
      <4>2. CASE u # s
        BY <3>2, <4>1, <4>2, ZenonT(30) DEF Queued
      <4>3. CASE u = s /\ i = 1
        BY <3>4, <4>1, <4>3, Zenon DEF Carried
      <4>4. CASE u = s /\ i # 1
        <5>1. i - 1 \in 1 .. (n - 1) /\ (i - 1) + 1 = i
          BY <3>1, <4>1, <4>4
        <5>2. queue'[s][i - 1] = f
          BY <3>3, <4>1, <4>4, <5>1, Zenon
        <5> QED
          BY <3>3, <4>4, <5>1, <5>2, Zenon DEF Queued
      <4> QED
        BY <4>2, <4>3, <4>4, Zenon
    <3>14. KeptBut(D)'
      BY <2>2, <3>12, <3>13, Zenon DEF PathInv, KeptBut
    <3> QED
      BY <3>8, <3>9, <3>10, <3>11, <3>14, Zenon DEF PathInv
  <2> QED
    BY <1>6, <2>3, <2>4, Zenon DEF DrainDequeue
<1>7. ASSUME NEW p \in Procs, DrainDeliver(p) PROVE PathInv(D)'
  <2> DEFINE s == SessionOf[p]
             e == held[p]
  <2>1. UNCHANGED <<queue, acked, held>> /\ pc[p] = "drainDeliver"
    BY <1>7, Zenon DEF DrainDeliver
  <2>2. s \in Sessions /\ e \in Entries /\ Sent(s, e)
    <3>1. pc[p] \in CarryLocs
      BY <2>1, Zenon DEF CarryLocs
    <3>2. s \in Sessions /\ e \in Entries
      BY <3>1, HeldType, Zenon
    <3> QED
      BY <2>1, <3>2, Zenon DEF PathInv, HeldSent
  <2>3. CASE /\ pc' = [pc EXCEPT ![p] = "drainStatus"] /\ receipts'[s][e.req] = e.hash
             /\ ReceiptSent'
             /\ \A u \in Sessions, r \in Requests :
                  receipts[u][r] # None => receipts'[u][r] = receipts[u][r]
    <3>1. QueueSent'
      BY <2>1, Zenon DEF PathInv, QueueSent
    <3>2. HeldSent' /\ NoRequeue'
      BY <2>1, <2>3, Zenon DEF PathInv, HeldSent, NoRequeue
    <3>3. AcceptedHere'
      <4> SUFFICES ASSUME NEW q \in Continues, pc'[q] \in {"accepted", "resolved"}
                   PROVE  receipts'[SessionOf[q]][RequestOf[q]] = HashOf[q]
        BY Zenon DEF AcceptedHere
      <4>1. receipts[SessionOf[q]][RequestOf[q]] = HashOf[q]
        BY <2>3, Zenon DEF PathInv, AcceptedHere
      <4>2. SessionOf[q] \in Sessions /\ RequestOf[q] \in Requests /\ HashOf[q] # None
        BY ConstantsAssumption
      <4> QED
        BY <2>3, <4>1, <4>2, Zenon
    <3>4. ASSUME NEW u, NEW f PROVE Carried(u, f) => Carried(u, f)' \/ <<u, f>> = <<s, e>>
      BY <2>1, <2>3, Zenon DEF Carried
    <3>5. ASSUME NEW u, NEW f PROVE Queued(u, f)' <=> Queued(u, f)
      BY <2>1, Zenon DEF Queued
    <3>6. KeptBut(D)'
      <4> SUFFICES ASSUME NEW u \in Sessions, NEW f \in Entries, <<u, f>> \in acked
                   PROVE  receipts'[u][f.req] = f.hash \/ Queued(u, f)' \/ Carried(u, f)' \/ <<u, f>> \in D
        BY <2>1, Zenon DEF KeptBut
      <4>1. f.req \in Requests /\ f.hash # None
        BY ConstantsAssumption, Zenon DEF Entries
      <4> QED
        BY <2>3, <3>4, <3>5, <4>1, ZenonT(30) DEF PathInv, KeptBut
    <3> QED
      BY <2>3, <3>1, <3>2, <3>3, <3>6, Zenon DEF PathInv
  <2>4. CASE receipts[s][e.req] = None /\ Accept(s, e) /\ pc' = [pc EXCEPT ![p] = "drainStatus"]
    BY <2>2, <2>3, <2>4, AcceptKeepsReceipts, AcceptSent, Zenon
  <2>5. CASE /\ receipts[s][e.req] = e.hash /\ UNCHANGED receipts
             /\ pc' = [pc EXCEPT ![p] = "drainStatus"]
    <3>1. ReceiptSent'
      BY <2>5, Zenon DEF PathInv, ReceiptSent
    <3> QED
      BY <2>3, <2>5, <3>1, Zenon
  <2>6. receipts[s][e.req] \in {None, e.hash}
    BY <2>2, ReceiptMatches, Zenon
  <2> QED
    BY <1>7, <2>4, <2>5, <2>6, Zenon DEF DrainDeliver
<1>8. ASSUME NEW p \in Procs, DrainRequeue(p) PROVE FALSE
  BY <1>8, Zenon DEF DrainRequeue, PathInv, NoRequeue
<1>9. CASE OtherStep
  <2>1. CASE UNCHANGED <<queue, receipts, history, acked, pc, held>>
    <3>1. QueueSent' /\ ReceiptSent'
      BY <2>1, Zenon DEF PathInv, QueueSent, ReceiptSent
    <3>2. HeldSent' /\ AcceptedHere' /\ NoRequeue'
      BY <2>1, Zenon DEF PathInv, HeldSent, AcceptedHere, NoRequeue
    <3>3. ASSUME NEW u, NEW f PROVE (Queued(u, f)' <=> Queued(u, f)) /\ (Carried(u, f)' <=> Carried(u, f))
      BY <2>1, Zenon DEF Queued, Carried
    <3>4. KeptBut(D)'
      BY <2>1, <3>3, Zenon DEF PathInv, KeptBut
    <3> QED
      BY <3>1, <3>2, <3>4, Zenon DEF PathInv
  <2> QED
    BY <1>9, <2>1, PathStep, Zenon DEF OtherStep
<1> QED
  BY OtherSteps, <1>1, <1>2, <1>3, <1>4, <1>5, <1>6, <1>7, <1>8, <1>9, Zenon DEF PathAction

\* No interleaving of calls, turns, cancellations and drains loses a message that
\* was answered with Accepted, as long as a retry sends what was sent before.
THEOREM AckedKept == ASSUME OnePayload PROVE Spec => []AckedNotLost
<1>1. PathInv({}) => AckedNotLost
  BY Zenon DEF PathInv, KeptBut, AckedNotLost
<1>2. TypeOK /\ PathInv({}) /\ [Next]_vars => PathInv({})'
  BY PathNext, Zenon
<1> QED
  BY <1>1, <1>2, TypeCorrect, PathInit, PTL DEF Spec

-----------------------------------------------------------------------------
(* The message path implements Inbox *)

InFlight(s, e) == Queued(s, e) \/ Carried(s, e)

WaitsFor(s, r) ==
  receipts[s][r] = None /\ \E h \in Hashes : InFlight(s, [req |-> r, hash |-> h])

(* The messages that wait are those in the queue or in a drain. *)
LEMMA WaitingIs ==
  /\ Waiting = [s \in Sessions |-> {r \in Requests : WaitsFor(s, r)}]
  /\ Waiting' = [s \in Sessions |-> {r \in Requests : WaitsFor(s, r)'}]
BY Zenon DEF Waiting, WaitsFor, InFlight

\* A step that changes no receipt, and what is in flight of no request without
\* one, is invisible.
LEMMA Invisible ==
  ASSUME UNCHANGED <<receipts, history>>,
         \A s \in Sessions, e \in Entries :
           receipts[s][e.req] = None => (InFlight(s, e)' <=> InFlight(s, e))
  PROVE  UNCHANGED MessagePath!vars
<1>1. \A r \in Requests, h \in Hashes : [req |-> r, hash |-> h] \in Entries
  BY Zenon DEF Entries
<1>2. ASSUME NEW s \in Sessions, NEW r \in Requests PROVE WaitsFor(s, r)' <=> WaitsFor(s, r)
  <2>1. CASE receipts[s][r] # None
    BY <2>1, Zenon DEF WaitsFor
  <2>2. CASE receipts[s][r] = None
    <3>1. \A h \in Hashes :
            InFlight(s, [req |-> r, hash |-> h])' <=> InFlight(s, [req |-> r, hash |-> h])
      BY <1>1, <2>2, Zenon
    <3> QED
      BY <2>2, <3>1, ZenonT(30) DEF WaitsFor
  <2> QED
    BY <2>1, <2>2, Zenon
<1>3. Waiting' = Waiting
  BY <1>2, WaitingIs, Zenon
<1> QED
  BY <1>3, Zenon DEF MessagePath!vars

(* A message that starts to wait joins those that do. *)
LEMMA WaitingTakes ==
  ASSUME NEW s \in Sessions, NEW r \in Requests, WaitsFor(s, r)',
         \A u \in Sessions, v \in Requests :
           <<u, v>> # <<s, r>> => (WaitsFor(u, v)' <=> WaitsFor(u, v))
  PROVE  Waiting' = [Waiting EXCEPT ![s] = @ \cup {r}]
<1>1. \A u \in Sessions :
        u # s => {v \in Requests : WaitsFor(u, v)'} = {v \in Requests : WaitsFor(u, v)}
  BY Zenon
<1>2. {v \in Requests : WaitsFor(s, v)'} = {v \in Requests : WaitsFor(s, v)} \cup {r}
  BY Zenon
<1>3. \A u \in Sessions : Waiting[u] = {v \in Requests : WaitsFor(u, v)}
  BY WaitingIs, Zenon
<1>4. \A u \in Sessions : Waiting'[u] = {v \in Requests : WaitsFor(u, v)'}
  BY WaitingIs, Zenon
<1>5. Waiting'[s] = Waiting[s] \cup {r} /\ \A u \in Sessions : u # s => Waiting'[u] = Waiting[u]
  BY <1>1, <1>2, <1>3, <1>4, Zenon
<1>6. Waiting = [u \in Sessions |-> Waiting[u]] /\ Waiting' = [u \in Sessions |-> Waiting'[u]]
  BY WaitingIs, Zenon
<1> QED
  BY <1>5, <1>6, Zenon

\* A receipt says whether the request is in the conversation.
LEMMA DeliveredIs ==
  ASSUME ExactlyOnce, NEW s \in Sessions, NEW r \in Requests
  PROVE  MessagePath!Delivered(s, r) <=> receipts[s][r] # None
BY Zenon DEF ExactlyOnce, MessagePath!Delivered

\* Accepting a message is a delivery, whatever else is in flight.
LEMMA AcceptDelivers ==
  ASSUME TypeOK, ExactlyOnce, NEW s \in Sessions, NEW e \in Entries,
         receipts[s][e.req] = None, Accept(s, e),
         \A u \in Sessions, f \in Entries :
           <<u, f.req>> # <<s, e.req>> => (InFlight(u, f)' <=> InFlight(u, f))
  PROVE  MessagePath!Next
<1>1. e.req \in Requests /\ e.hash # None
  BY ConstantsAssumption, Zenon DEF Entries
<1>2. ~MessagePath!Delivered(s, e.req)
  BY <1>1, DeliveredIs, Zenon
<1>3. history' = [history EXCEPT ![s] = Append(@, e.req)]
  BY Zenon DEF Accept
<1>4. ~WaitsFor(s, e.req)'
  BY <1>1, AcceptKeepsReceipts, Zenon DEF WaitsFor
<1>5. ASSUME NEW u \in Sessions, NEW r \in Requests, <<u, r>> # <<s, e.req>>
      PROVE  WaitsFor(u, r)' <=> WaitsFor(u, r)
  <2>1. receipts'[u][r] = receipts[u][r]
    BY <1>5, AcceptKeepsReceipts
  <2>2. \A h \in Hashes : [req |-> r, hash |-> h] \in Entries
    BY Zenon DEF Entries
  <2>3. \A h \in Hashes :
          InFlight(u, [req |-> r, hash |-> h])' <=> InFlight(u, [req |-> r, hash |-> h])
    BY <1>5, <2>2, Zenon
  <2> QED
    BY <2>1, <2>3, Zenon DEF WaitsFor
<1>6. Waiting' = [Waiting EXCEPT ![s] = @ \ {e.req}]
  <2>1. \A u \in Sessions : u # s => {r \in Requests : WaitsFor(u, r)'} = {r \in Requests : WaitsFor(u, r)}
    BY <1>5, Zenon
  <2>2. {r \in Requests : WaitsFor(s, r)'} = {r \in Requests : WaitsFor(s, r)} \ {e.req}
    BY <1>4, <1>5, Zenon
  <2> QED
    BY <2>1, <2>2, WaitingIs, ZenonT(30)
<1>7. MessagePath!Deliver(s, e.req)
  BY <1>2, <1>3, <1>6, Zenon DEF MessagePath!Deliver
<1> QED
  BY <1>1, <1>7, Zenon DEF MessagePath!Next

(* Every step is a step of the inbox or leaves it unchanged. *)
LEMMA PathSteps ==
  ASSUME OnePayload, TypeOK, PathInv({}), ExactlyOnce, [Next]_vars
  PROVE  [MessagePath!Next]_(MessagePath!vars)
<1>t. /\ queue \in [Sessions -> Seq(Entries)] /\ history \in [Sessions -> Seq(Requests)]
      /\ receipts \in [Sessions -> [Requests -> Hashes \cup {None}]]
      /\ pc \in [Procs -> Locs] /\ held \in [Procs -> Entries \cup {NoEntry}]
  BY Zenon DEF TypeOK
<1>h. (\A p \in Procs : SessionOf[p] \in Sessions) /\ (\A p \in Continues : p \in Procs)
  BY Homes, Zenon
<1> USE <1>t, <1>h DEF Goto
<1>1. ASSUME NEW p \in Procs, UNCHANGED <<queue, receipts, history>>,
             \A q \in Procs : q # p => pc'[q] = pc[q] /\ held'[q] = held[q],
             pc[p] \notin {"drainDeliver", "drainRequeue"},
             pc'[p] \notin {"drainDeliver", "drainRequeue"}
      PROVE  UNCHANGED MessagePath!vars
  <2>1. ASSUME NEW s, NEW e PROVE InFlight(s, e)' <=> InFlight(s, e)
    BY <1>1, ZenonT(30) DEF InFlight, Queued, Carried
  <2> QED
    BY <1>1, <2>1, Invisible, Zenon
<1>2. ASSUME NEW p \in Continues, ContinueRead(p) \/ ContinueResolve(p) \/ ContinueLaunch(p)
      PROVE  UNCHANGED MessagePath!vars
  <2>1. p \in Procs
    BY Zenon DEF Procs
  <2>2. UNCHANGED <<queue, receipts, history, held>> /\ pc[p] \in {"idle", "accepted", "resolved"}
    BY <1>2, Zenon DEF ContinueRead, ContinueResolve, ContinueLaunch
  <2>3. \E loc \in {"done", "locked", "resolved", "launched"} : pc' = [pc EXCEPT ![p] = loc]
    BY <1>2, Zenon DEF ContinueRead, ContinueResolve, ResolveFails, ContinueLaunch, Launch
  <2> QED
    BY <1>1, <2>1, <2>2, <2>3, Zenon
<1>3. ASSUME NEW p \in Continues, ContinueEnqueue(p) PROVE [MessagePath!Next]_(MessagePath!vars)
  <2> DEFINE s == SessionOf[p]
             e == Entry(p)
  <2>1. p \in Procs /\ s \in Sessions /\ e \in Entries
    BY AckType, Zenon
  <2>2. UNCHANGED <<receipts, history, held>> /\ pc[p] = "enqueue" /\ pc' = [pc EXCEPT ![p] = "done"]
    BY <1>3, Zenon DEF ContinueEnqueue
  <2>3. CASE UNCHANGED queue
    BY <1>1, <2>1, <2>2, <2>3, ZenonT(30)
  <2>4. CASE ~QueuedRequest(s, e.req) /\ queue' = [queue EXCEPT ![s] = Append(queue[s], e)]
    <3>1. \A u, f : Carried(u, f)' <=> Carried(u, f)
      BY <2>1, <2>2, Zenon DEF Carried
    <3>2. \A u \in Sessions : \A f : Queued(u, f)' <=> Queued(u, f) \/ (u = s /\ f = e)
      <4>1. queue'[s] = Append(queue[s], e) /\ queue[s] \in Seq(Entries)
        BY <2>1, <2>4, Zenon
      <4>2. \A f : (\E i \in DOMAIN queue'[s] : queue'[s][i] = f)
                   <=> (\E i \in DOMAIN queue[s] : queue[s][i] = f) \/ f = e
        <5> HIDE <1>t, <1>h DEF s, e
        <5>1. ASSUME NEW q \in Seq(Entries), NEW x \in Entries
              PROVE  \A f : (\E i \in DOMAIN Append(q, x) : Append(q, x)[i] = f)
                           <=> (\E i \in DOMAIN q : q[i] = f) \/ f = x
          BY AppendHas
        <5>2. \A f : (\E i \in DOMAIN Append(queue[s], e) : Append(queue[s], e)[i] = f)
                     <=> (\E i \in DOMAIN queue[s] : queue[s][i] = f) \/ f = e
          BY <2>1, <4>1, <5>1, Zenon
        <5> QED
          BY <4>1, <5>2, Zenon
      <4>3. \A u \in Sessions : u # s => queue'[u] = queue[u]
        BY <2>1, <2>4, Zenon
      <4> QED
        BY <2>1, <4>2, <4>3, ZenonT(30) DEF Queued
    <3>3. \A u \in Sessions : \A f : InFlight(u, f)' <=> InFlight(u, f) \/ (u = s /\ f = e)
      BY <3>1, <3>2, Zenon DEF InFlight
    <3>4. CASE receipts[s][e.req] # None
      <4>1. \A u \in Sessions, f \in Entries :
              receipts[u][f.req] = None => (InFlight(u, f)' <=> InFlight(u, f))
        BY <3>3, <3>4, Zenon
      <4> QED
        BY <2>2, <4>1, Invisible, Zenon
    <3>5. CASE receipts[s][e.req] = None
      <4>1. e.req \in Requests /\ e.hash \in Hashes /\ e = [req |-> e.req, hash |-> e.hash]
        BY <2>1, Zenon DEF Entries
      <4>2. WaitsFor(s, e.req)'
        <5>1. InFlight(s, [req |-> e.req, hash |-> e.hash])'
          BY <2>1, <3>3, <4>1, Zenon
        <5> QED
          BY <2>2, <3>5, <4>1, <5>1, Zenon DEF WaitsFor
      <4>3. ASSUME NEW u \in Sessions, NEW r \in Requests, <<u, r>> # <<s, e.req>>
            PROVE  WaitsFor(u, r)' <=> WaitsFor(u, r)
        <5>1. \A h \in Hashes : u = s => [req |-> r, hash |-> h] # e
          BY <4>1, <4>3
        <5>2. \A h \in Hashes :
                InFlight(u, [req |-> r, hash |-> h])' <=> InFlight(u, [req |-> r, hash |-> h])
          BY <3>3, <5>1, Zenon
        <5> QED
          BY <2>2, <5>2, ZenonT(30) DEF WaitsFor
      <4>4. Waiting' = [Waiting EXCEPT ![s] = @ \cup {e.req}]
        BY <2>1, <4>1, <4>2, <4>3, WaitingTakes, Zenon
      <4>5. MessagePath!TakeIn(s, e.req)
        BY <2>1, <2>2, <3>5, <4>1, <4>4, DeliveredIs, Zenon DEF MessagePath!TakeIn
      <4> QED
        BY <2>1, <4>1, <4>5, Zenon DEF MessagePath!Next
    <3> QED
      BY <3>4, <3>5, Zenon
  <2> QED
    BY <1>3, <2>3, <2>4, Zenon DEF ContinueEnqueue, EnqueueMessage
<1>4. ASSUME NEW p \in Continues, ContinueAccept(p) PROVE [MessagePath!Next]_(MessagePath!vars)
  <2> DEFINE s == SessionOf[p]
             e == Entry(p)
  <2>1. p \in Procs /\ s \in Sessions /\ e \in Entries
    BY AckType, Zenon
  <2>2. /\ UNCHANGED <<queue, held>> /\ pc[p] = "locked"
        /\ \E loc \in {"done", "accepted", "resolved"} : pc' = [pc EXCEPT ![p] = loc]
    BY <1>4, Zenon DEF ContinueAccept
  <2>3. CASE UNCHANGED <<receipts, history>>
    BY <1>1, <2>1, <2>2, <2>3, ZenonT(30)
  <2>4. CASE receipts[s][e.req] = None /\ Accept(s, e)
    <3>1. \A u, f : InFlight(u, f)' <=> InFlight(u, f)
      BY <2>1, <2>2, Zenon DEF InFlight, Queued, Carried
    <3> QED
      BY <2>1, <2>4, <3>1, AcceptDelivers, ZenonT(30)
  <2> QED
    BY <1>4, <2>3, <2>4, Zenon DEF ContinueAccept
<1>5. ASSUME NEW p \in Procs, DrainDequeue(p) PROVE UNCHANGED MessagePath!vars
  <2> DEFINE s == SessionOf[p]
  <2>1. s \in Sessions /\ queue[s] \in Seq(Entries)
    BY Zenon
  <2>2. UNCHANGED <<receipts, history>> /\ pc[p] = "drainDequeue"
    BY <1>5, Zenon DEF DrainDequeue
  <2>3. CASE UNCHANGED <<queue, held>> /\ pc' = [pc EXCEPT ![p] = "done"]
    BY <1>1, <2>2, <2>3, ZenonT(30)
  <2>4. CASE /\ queue[s] # <<>>
             /\ held' = [held EXCEPT ![p] = Head(queue[s])]
             /\ queue' = [queue EXCEPT ![s] = Tail(queue[s])]
             /\ pc' = [pc EXCEPT ![p] = "drainDeliver"]
    <3>1. queue'[s] = Tail(queue[s]) /\ \A u \in Sessions : u # s => queue'[u] = queue[u]
      BY <2>1, <2>4, Zenon
    <3>2. \A f : Queued(s, f) <=> Queued(s, f)' \/ f = Head(queue[s])
      <4>1. \A f : (\E i \in DOMAIN queue[s] : queue[s][i] = f)
                   <=> (\E i \in DOMAIN Tail(queue[s]) : Tail(queue[s])[i] = f) \/ f = Head(queue[s])
        BY <2>1, <2>4, TailHas, ZenonT(30)
      <4> QED
        BY <3>1, <4>1, ZenonT(30) DEF Queued
    <3>3. \A u, f : Carried(u, f)' <=> Carried(u, f) \/ (u = s /\ f = Head(queue[s]))
      BY <2>1, <2>2, <2>4, Zenon DEF Carried
    <3>4. \A u \in Sessions : \A f : InFlight(u, f)' <=> InFlight(u, f)
      BY <3>1, <3>2, <3>3, ZenonT(30) DEF InFlight, Queued
    <3> QED
      BY <2>2, <3>4, Invisible, Zenon
  <2> QED
    BY <1>5, <2>3, <2>4, Zenon DEF DrainDequeue
<1>6. ASSUME NEW p \in Procs, DrainDeliver(p) PROVE [MessagePath!Next]_(MessagePath!vars)
  <2> DEFINE s == SessionOf[p]
             e == held[p]
  <2>1. UNCHANGED <<queue, held>> /\ pc[p] = "drainDeliver"
    BY <1>6, Zenon DEF DrainDeliver
  <2>2. s \in Sessions /\ e \in Entries /\ Sent(s, e)
    <3>1. pc[p] \in CarryLocs
      BY <2>1, Zenon DEF CarryLocs
    <3>2. s \in Sessions /\ e \in Entries
      BY <3>1, HeldType, Zenon
    <3> QED
      BY <2>1, <3>2, Zenon DEF PathInv, HeldSent
  <2>3. receipts[s][e.req] \in {None, e.hash} /\ e.hash # None
    <3>1. e.hash # None
      BY <2>2, ConstantsAssumption, Zenon DEF Entries
    <3> QED
      BY <2>2, <3>1, ReceiptMatches, Zenon
  <2>4. pc' = [pc EXCEPT ![p] = "drainStatus"]
    BY <1>6, <2>3, Zenon DEF DrainDeliver
  <2>5. \A u, f : <<u, f>> # <<s, e>> => (InFlight(u, f)' <=> InFlight(u, f))
    BY <2>1, <2>4, Zenon DEF InFlight, Queued, Carried
  <2>6. CASE receipts[s][e.req] = None /\ Accept(s, e)
    <3>1. \A u \in Sessions, f \in Entries :
            <<u, f.req>> # <<s, e.req>> => (InFlight(u, f)' <=> InFlight(u, f))
      BY <2>5, Zenon
    <3> QED
      BY <2>2, <2>6, <3>1, AcceptDelivers, Zenon
  <2>7. CASE receipts[s][e.req] = e.hash /\ UNCHANGED <<receipts, history>>
    <3>1. \A u \in Sessions, f \in Entries :
            receipts[u][f.req] = None => (InFlight(u, f)' <=> InFlight(u, f))
      BY <2>3, <2>5, <2>7, Zenon
    <3> QED
      BY <2>7, <3>1, Invisible, Zenon
  <2> QED
    BY <1>6, <2>3, <2>6, <2>7, Zenon DEF DrainDeliver
<1>7. ASSUME NEW p \in Procs, DrainRequeue(p) PROVE FALSE
  BY <1>7, Zenon DEF DrainRequeue, PathInv, NoRequeue
<1>8. CASE OtherStep
  <2>1. CASE UNCHANGED <<queue, receipts, history, acked, pc, held>>
    <3>1. \A u, f : InFlight(u, f)' <=> InFlight(u, f)
      BY <2>1, Zenon DEF InFlight, Queued, Carried
    <3> QED
      BY <2>1, <3>1, Invisible, Zenon
  <2>2. ASSUME NEW p \in Procs, PathKept(p), UNCHANGED history PROVE UNCHANGED MessagePath!vars
    BY <1>1, <2>2, Zenon DEF PathKept
  <2> QED
    BY <1>8, <2>1, <2>2, Zenon DEF OtherStep
<1> QED
  BY OtherSteps, <1>2, <1>3, <1>4, <1>5, <1>6, <1>7, <1>8, Zenon DEF PathAction

(* The initial state is one of the inbox. *)
LEMMA PathStart == Init => MessagePath!Init
<1> SUFFICES ASSUME Init PROVE MessagePath!Init
  BY Zenon
<1>1. \A s \in Sessions : queue[s] = <<>> /\ \A p \in Procs : pc[p] = "idle"
  BY Zenon DEF Init
<1>2. ASSUME NEW s \in Sessions, NEW e PROVE ~InFlight(s, e)
  <2>1. DOMAIN queue[s] = {}
    BY <1>1
  <2> QED
    BY <1>1, <2>1, Zenon DEF InFlight, Queued, Carried
<1>3. Waiting = [s \in Sessions |-> {}]
  BY <1>2, WaitingIs, ZenonT(30) DEF WaitsFor
<1> QED
  BY <1>3, Zenon DEF Init, MessagePath!Init

\* The engine's message path, with its queue, receipts, locks and drains,
\* implements the abstract inbox: every step takes one message in, hands one to
\* the conversation, or is invisible.
THEOREM ImplementsInbox == ASSUME OnePayload PROVE Spec => MessagePathSpec
<1>1. TypeOK /\ PathInv({}) /\ ExactlyOnce /\ [Next]_vars => [MessagePath!Next]_(MessagePath!vars)
  BY PathSteps, Zenon
<1>2. TypeOK /\ PathInv({}) /\ [Next]_vars => PathInv({})'
  BY PathNext, Zenon
<1> QED
  BY <1>1, <1>2, TypeCorrect, PathInit, DeliveredOnce, PathStart, PTL
  DEF Spec, MessagePathSpec, MessagePath!Spec

-----------------------------------------------------------------------------
(* The host dies and is started again *)

\* Every step is one of SessionTurns, one of a resume, the restart, or none.
LEMMA CrashSteps ==
  ASSUME [CrashNext]_allVars
  PROVE  \/ [Next]_vars /\ dropped' = dropped
         \/ (\E p \in Procs : ResumeSession(p)) /\ dropped' = dropped
         \/ Restart
BY Zenon DEF CrashNext, allVars, crashVars

\* The restart leaves well-typed tables and an engine without turns.
LEMMA RestartTypes == ASSUME TypeOK, Restart PROVE TypeOK'
<1>1. /\ status' \in [Sessions -> Statuses] /\ mu' \in Procs \cup {None}
      /\ cancels' \in [Sessions -> Procs \cup {None}]
      /\ writers' \in [Workspaces -> Sessions \cup {None}]
      /\ terminating' \in [Sessions -> BOOLEAN] /\ abandoned' \in [Sessions -> BOOLEAN]
  BY Zenon DEF TypeOK, Restart, MarkRunningInterrupted, Statuses
<1>2. /\ pc' \in [Procs -> Locs] /\ ctx' \in [Procs -> {"live", "cancelled", "deadline"}]
      /\ snap' \in [Procs -> Statuses] /\ asked' \in [Procs -> BOOLEAN]
      /\ held' \in [Procs -> Entries \cup {NoEntry}] /\ result' \in [Procs -> Results]
      /\ leased' \in [Procs -> BOOLEAN]
  BY Zenon DEF TypeOK, Restart, Statuses, Results, Locs
<1>3. UNCHANGED <<queue, receipts, history, pending, outstanding, acked, turned>>
  BY Zenon DEF Restart, KeepTables
<1>4. \A p \in Procs : pc'[p] \notin CarryLocs
  BY Zenon DEF Restart, CarryLocs
<1> QED
  BY <1>1, <1>2, <1>3, <1>4, Zenon DEF TypeOK

\* So does a resume.
LEMMA ResumeTypes == ASSUME TypeOK, NEW p \in Procs, ResumeSession(p) PROVE TypeOK'
<1>h. SessionOf[p] \in Sessions
  BY Homes, Zenon
<1> USE <1>h DEF TypeOK, Goto, Statuses, Locs, CarryLocs
<1>1. CASE ResumeRead(p)
  BY <1>1, Zenon DEF ResumeRead
<1>2. CASE ResumeLog(p)
  BY <1>2, Zenon DEF ResumeLog
<1>3. CASE ResumeAccept(p)
  <2>1. outstanding' \in [Sessions -> BOOLEAN] /\ mu' \in Procs \cup {None}
    BY <1>3, Zenon DEF ResumeAccept, Log
  <2>2. /\ pc' \in [Procs -> Locs]
        /\ \A q \in Procs : pc'[q] \in CarryLocs => pc[q] \in CarryLocs
    BY <1>3, Zenon DEF ResumeAccept
  <2>3. UNCHANGED <<status, queue, receipts, history, pending, cancels, writers, terminating,
                    ctx, snap, asked, held, result, leased, ghostVars>>
    BY <1>3, Zenon DEF ResumeAccept
  <2> HIDE DEF Goto, Statuses, Locs, CarryLocs
  <2> QED
    BY <2>1, <2>2, <2>3, Zenon DEF ghostVars
<1>4. CASE ResumeLaunch(p)
  <2>1. /\ status' \in [Sessions -> Statuses] /\ abandoned' \in [Sessions -> BOOLEAN]
        /\ cancels' \in [Sessions -> Procs \cup {None}] /\ mu' \in Procs \cup {None}
    BY <1>4, Zenon DEF ResumeLaunch, Launch, SetStatus
  <2>2. /\ pc' \in [Procs -> Locs]
        /\ \A q \in Procs : pc'[q] \in CarryLocs => pc[q] \in CarryLocs
    BY <1>4, Zenon DEF ResumeLaunch, Launch
  <2>3. UNCHANGED <<queue, receipts, history, pending, outstanding, writers, terminating,
                    ctx, snap, asked, held, result, leased, acked, turned>>
    BY <1>4, Zenon DEF ResumeLaunch
  <2> HIDE DEF Goto, Statuses, Locs, CarryLocs
  <2> QED
    BY <2>1, <2>2, <2>3, Zenon
<1> HIDE DEF TypeOK
<1> QED
  BY <1>1, <1>2, <1>3, <1>4, Zenon DEF ResumeSession

\* A resume keeps what it should leave alone, and owns the session it marks.
LEMMA ResumeKeeps ==
  ASSUME TypeOK, NEW p \in Procs, ResumeSession(p)
  PROVE  /\ UNCHANGED <<receipts, history>>
         /\ LeaseKept
         /\ OwnedKept(p)
         /\ PathKept(p)
<1>t. pc \in [Procs -> Locs] /\ status \in [Sessions -> Statuses]
      /\ abandoned \in [Sessions -> BOOLEAN] /\ SessionOf[p] \in Sessions
  BY Homes, Zenon DEF TypeOK
<1> USE <1>t DEF Goto, LeaseKept, OwnedKept, PathKept, WillSettle, RunLocs
<1>1. CASE ResumeRead(p)
  BY <1>1, Zenon DEF ResumeRead
<1>2. CASE ResumeLog(p)
  BY <1>2, Zenon DEF ResumeLog
<1>3. CASE ResumeAccept(p)
  BY <1>3, Zenon DEF ResumeAccept
<1>4. CASE ResumeLaunch(p)
  BY <1>4, Zenon DEF ResumeLaunch, Launch, SetStatus
<1> QED
  BY <1>1, <1>2, <1>3, <1>4, Zenon DEF ResumeSession

-----------------------------------------------------------------------------
(* Types, leases, statuses and receipts across a crash *)

\* The inductive invariant of the sessions across crashes.
LivesInv == TypeOK /\ LeaseInv /\ RunningIsOwned /\ ExactlyOnce

\* Every step of every life keeps it.
LEMMA LivesNext == LivesInv /\ [CrashNext]_allVars => LivesInv'
<1> SUFFICES ASSUME LivesInv, [CrashNext]_allVars PROVE LivesInv'
  BY Zenon
<1>0. TypeOK /\ LeaseInv /\ RunningIsOwned /\ ExactlyOnce
  BY Zenon DEF LivesInv
<1>1. CASE [Next]_vars
  BY <1>0, <1>1, TypeNext, LeaseNext, OwnedNext, OnceNext, Zenon DEF LivesInv
<1>2. ASSUME NEW p \in Procs, ResumeSession(p) PROVE LivesInv'
  <2>1. TypeOK' /\ UNCHANGED <<receipts, history>> /\ LeaseKept /\ OwnedKept(p)
    BY <1>0, <1>2, ResumeTypes, ResumeKeeps, Zenon
  <2>2. LeaseInv'
    BY <1>0, <2>1, Zenon DEF LeaseInv, LeaseKept, InRun
  <2>3. RunningIsOwned'
    BY <1>0, <2>1, OwnedStep, Zenon
  <2>4. ExactlyOnce'
    BY <1>0, <2>1, Zenon DEF ExactlyOnce
  <2> QED
    BY <2>1, <2>2, <2>3, <2>4, Zenon DEF LivesInv
<1>3. CASE Restart
  <2>1. TypeOK'
    BY <1>0, <1>3, RestartTypes, Zenon
  <2>2. \A p \in Procs : pc'[p] \notin RunLocs /\ ~leased'[p]
    BY <1>3, Zenon DEF Restart, RunLocs
  <2>3. \A s \in Sessions : status'[s] # "running"
    BY <1>3, Zenon DEF Restart, MarkRunningInterrupted
  <2>4. UNCHANGED <<receipts, history>>
    BY <1>3, Zenon DEF Restart, KeepTables
  <2>5. LeaseInv'
    BY <2>2, Zenon DEF LeaseInv, InRun
  <2>6. RunningIsOwned'
    BY <2>3, Zenon DEF RunningIsOwned
  <2>7. ExactlyOnce'
    BY <1>0, <2>4, Zenon DEF ExactlyOnce
  <2> QED
    BY <2>1, <2>5, <2>6, <2>7, Zenon DEF LivesInv
<1> QED
  BY <1>1, <1>2, <1>3, CrashSteps, Zenon

\* The sessions are sound in every life of the host (MarkRunningInterrupted,
\* ResumeInterrupted).
THEOREM LivesSound == CrashSpec => []LivesInv
<1>1. CrashInit => LivesInv
  BY TypeInit, LeaseInit, OwnedInit, OnceInit, Zenon DEF CrashInit, LivesInv
<1> QED
  BY <1>1, LivesNext, PTL DEF CrashSpec

\* After any crashes too a session marked running has a goroutine that will
\* settle it: MarkRunningInterrupted frees the ones whose owner died, and
\* resumeSession marks only the session it launches.
THEOREM RunningOwnedAcrossCrash == CrashSpec => []RunningIsOwned
<1>1. LivesInv => RunningIsOwned
  BY Zenon DEF LivesInv
<1> QED
  BY <1>1, LivesSound, PTL

\* No crash, resume or retry after it puts a request into the conversation twice:
\* the receipt and the message are written in one transaction.
THEOREM DeliveredOnceAcrossCrash == CrashSpec => []ExactlyOnce
<1>1. LivesInv => ExactlyOnce
  BY Zenon DEF LivesInv
<1> QED
  BY <1>1, LivesSound, PTL

\* A crash leaves no lease behind and the resumed runs take theirs like others.
THEOREM WriterExclusionAcrossCrash == CrashSpec => []OneWriterPerWorkspace
<1>1. LivesInv => OneWriterPerWorkspace
  BY Zenon DEF LivesInv, LeaseInv, OneWriterPerWorkspace
<1> QED
  BY <1>1, LivesSound, PTL

-----------------------------------------------------------------------------
(* What was answered survives the crash *)

\* Every step keeps the path's invariant, but for what crashes drop.
LEMMA DroppedNext ==
  ASSUME OnePayload
  PROVE  TypeOK /\ PathInv(dropped) /\ [CrashNext]_allVars => PathInv(dropped)'
<1> SUFFICES ASSUME TypeOK, PathInv(dropped), [CrashNext]_allVars PROVE PathInv(dropped)'
  BY Zenon
<1>d. PICK D : D = dropped
  BY Zenon
<1>0. PathInv(D)
  BY <1>d, Zenon
<1>1. ASSUME PathInv(D)', dropped' = dropped PROVE PathInv(dropped)'
  BY <1>1, <1>d, Zenon DEF PathInv, KeptBut
<1>2. CASE [Next]_vars /\ dropped' = dropped
  BY <1>0, <1>1, <1>2, PathNext, Zenon
<1>3. ASSUME NEW p \in Procs, ResumeSession(p), dropped' = dropped PROVE PathInv(dropped)'
  BY <1>0, <1>1, <1>3, ResumeKeeps, PathStep, Zenon
<1>4. CASE Restart
  <2>1. UNCHANGED <<queue, receipts, acked>>
    BY <1>4, Zenon DEF Restart, KeepTables
  <2>2. \A p \in Procs : pc'[p] \in {"idle", "done"}
    BY <1>4, Zenon DEF Restart
  <2>3. QueueSent' /\ ReceiptSent'
    BY <1>0, <2>1, Zenon DEF PathInv, QueueSent, ReceiptSent
  <2>4. HeldSent' /\ NoRequeue' /\ AcceptedHere'
    BY <2>2, Homes, Zenon DEF HeldSent, NoRequeue, AcceptedHere
  <2>5. ASSUME NEW s, NEW e PROVE Queued(s, e)' <=> Queued(s, e)
    BY <2>1, Zenon DEF Queued
  <2>6. ASSUME NEW s, NEW e, Carried(s, e) PROVE <<s, e>> \in dropped'
    <3>1. PICK p \in Procs : /\ SessionOf[p] = s /\ held[p] = e
                             /\ pc[p] \in {"drainDeliver", "drainRequeue"}
      BY <2>6, Zenon DEF Carried
    <3>2. p \in {q \in Procs : pc[q] \in {"drainDeliver", "drainRequeue"}}
      BY <3>1, Zenon
    <3> QED
      BY <1>4, <3>1, <3>2, Zenon DEF Restart
  <2>7. dropped \subseteq dropped'
    BY <1>4, Zenon DEF Restart
  <2>8. KeptBut(dropped)'
    <3> SUFFICES ASSUME NEW s \in Sessions, NEW e \in Entries, <<s, e>> \in acked'
                 PROVE  receipts'[s][e.req] = e.hash \/ Queued(s, e)' \/ <<s, e>> \in dropped'
      BY Zenon DEF KeptBut
    <3>1. receipts[s][e.req] = e.hash \/ Queued(s, e) \/ Carried(s, e) \/ <<s, e>> \in dropped
      BY <2>1, Zenon DEF PathInv, KeptBut
    <3> QED
      BY <2>1, <2>5, <2>6, <2>7, <3>1, Zenon
  <2> QED
    BY <2>3, <2>4, <2>8, Zenon DEF PathInv
<1> QED
  BY <1>2, <1>3, <1>4, CrashSteps, Zenon

\* Across any number of crashes, an answered message is in the conversation, in
\* the queue or in a drain's hands, or was in a drain's hands when the host died
\* (engine.go:816-830), as long as a retry sends what was sent before.
THEOREM AckedKeptAcrossCrash == ASSUME OnePayload PROVE CrashSpec => []AckedAcrossCrash
<1>1. CrashInit => PathInv(dropped)
  <2> SUFFICES ASSUME CrashInit PROVE PathInv(dropped)
    BY Zenon
  <2>1. dropped = {} /\ PathInv({})
    BY PathInit, Zenon DEF CrashInit
  <2> QED
    BY <2>1, Zenon
<1>2. PathInv(dropped) => AckedAcrossCrash
  BY Zenon DEF PathInv, KeptBut, AckedAcrossCrash
<1>3. LivesInv => TypeOK
  BY Zenon DEF LivesInv
<1>4. TypeOK /\ PathInv(dropped) /\ [CrashNext]_allVars => PathInv(dropped)'
  BY DroppedNext, Zenon
<1> QED
  BY <1>1, <1>2, <1>3, <1>4, LivesSound, PTL DEF CrashSpec
=============================================================================
