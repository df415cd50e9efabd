------------------------ MODULE UppaalExecutorProofs ------------------------
(***************************************************************************)
(* Proofs about UppaalExecutor, for every number of jobs, pipe capacity,    *)
(* set of outputs and number of subscriptions.                              *)
(***************************************************************************)
EXTENDS UppaalExecutor, TLAPS

\* What the calling thread is in the middle of: the arguments that make each of its
\* steps well defined (a kill has a pid, a fork has a job number left).
CallerInv ==
    /\ pc \in {"kill", "reset_pid", "set_pid", "spawn", "return"} => job \in Jobs
    /\ child_pid # NoPid => job \in Jobs
    /\ op = "start" /\ pc \in {"check", "kill", "reset_pid", "join", "start_worker", "fork"}
         => job < MaxJobs
    /\ pc \in {"start_worker", "fork"} => op = "start"
    /\ joinable => Launched \in Jobs

TypeInv == TypeOK /\ CallerInv

\* The list of those that have been told is empty at first.
LEMMA EmptyTyped == ASSUME NEW S PROVE <<>> \in Seq(S)
  OBVIOUS

LEMMA TypeInit == Init => TypeInv
<1> SUFFICES ASSUME Init PROVE TypeInv
  OBVIOUS
<1> USE ExecutorAssumption
<1>1. /\ visited \in [Jobs -> 0 .. MaxSubscriptions] /\ last \in [Jobs -> 0 .. MaxSubscriptions]
      /\ kind \in Kinds /\ subscribers \in 0 .. MaxSubscriptions
  BY DEF Init
<1>2. received \in [Jobs -> Seq(Subscriptions)]
  <2>1. <<>> \in Seq(Subscriptions)
    BY EmptyTyped
  <2> QED
    BY <2>1, Zenon DEF Init
<1>3. child \in [Jobs -> Children] /\ wpc \in [Jobs -> Workers]
  BY DEF Init, Children, Workers
<1>4. status \in [Jobs -> {"none"} \cup Exits] /\ termed \in [Jobs -> BOOLEAN]
  BY DEF Init
<1>5. CallerInv
  BY DEF Init, CallerInv, NoPid, Launched, Jobs
<1>6. /\ total \in [Jobs -> Nat] /\ pipe \in [Jobs -> Nat] /\ got \in [Jobs -> Nat]
  BY DEF Init
<1>7. process = "up" /\ pc \in Pcs /\ op = "none" /\ aborted = "none"
  BY DEF Init, Pcs
<1>8. job \in 0 .. MaxJobs /\ child_pid \in 0 .. MaxJobs
  BY DEF Init, NoPid
<1>9. joinable \in BOOLEAN /\ intact \in BOOLEAN
  BY DEF Init
<1>10. target \in [Jobs -> StrayPid .. MaxJobs]
  BY DEF Init, NoPid, StrayPid
<1> QED
  BY <1>1, <1>2, <1>3, <1>4, <1>5, <1>6, <1>7, <1>8, <1>9, <1>10 DEF TypeInv, TypeOK

\* The types by the side that works on the variables.
CallerTypes ==
    /\ process \in {"up", "exited", "assigned_joinable", "destroyed_joinable",
                    "uncaught", "race"}
    /\ pc \in Pcs /\ op \in {"none", "start", "abort", "wait"}
    /\ job \in 0 .. MaxJobs /\ child_pid \in 0 .. MaxJobs
    /\ joinable \in BOOLEAN /\ aborted \in {"none", "true", "false"}
    /\ kind \in Kinds /\ subscribers \in 0 .. MaxSubscriptions
ChildTypes ==
    /\ child \in [Jobs -> Children] /\ termed \in [Jobs -> BOOLEAN]
    /\ total \in [Jobs -> Nat] /\ pipe \in [Jobs -> Nat] /\ got \in [Jobs -> Nat]
WorkerTypes ==
    /\ wpc \in [Jobs -> Workers] /\ target \in [Jobs -> StrayPid .. MaxJobs]
    /\ intact \in BOOLEAN
    /\ status \in [Jobs -> {"none"} \cup Exits]
LoopTypes ==
    visited \in [Jobs -> 0 .. MaxSubscriptions] /\ last \in [Jobs -> 0 .. MaxSubscriptions]
ReceivedType == received \in [Jobs -> Seq(Subscriptions)]

LEMMA TypesSplit == TypeOK <=> CallerTypes /\ ChildTypes /\ WorkerTypes /\ LoopTypes /\ ReceivedType
  BY DEF TypeOK, CallerTypes, ChildTypes, WorkerTypes, LoopTypes, ReceivedType

LEMMA CallerTypeStep == TypeInv /\ [Next]_vars => CallerTypes'
<1> SUFFICES ASSUME TypeInv, [Next]_vars PROVE CallerTypes'
  OBVIOUS
<1>0. CallerTypes /\ CallerInv
  BY TypesSplit DEF TypeInv
<1> USE <1>0, ExecutorAssumption DEF CallerTypes, CallerInv, Jobs, NoPid, Pcs, Goto, WorkerGoto, ReturnFromAbort,
     schedulerVars, callerVars, childVars, loopVars, workerVars
<1>1. CASE Start BY <1>1 DEF Start
<1>2. CASE Abort BY <1>2 DEF Abort
<1>3. CASE WaitForResult BY <1>3 DEF WaitForResult
<1>4. CASE Destroy BY <1>4 DEF Destroy
<1>5. CASE AddSubscriber BY <1>5 DEF AddSubscriber
<1>6. CASE AbortCheck BY <1>6 DEF AbortCheck
<1>7. CASE AbortKill BY <1>7 DEF AbortKill
<1>8. CASE AbortResetPid BY <1>8 DEF AbortResetPid
<1>9. CASE Join BY <1>9 DEF Join
<1>10. CASE StartWorker BY <1>10 DEF StartWorker
<1>11. CASE Fork BY <1>11 DEF Fork
<1>12. CASE SetPid BY <1>12 DEF SetPid
<1>13. CASE SpawnWorker BY <1>13 DEF SpawnWorker
<1>14. CASE ExecuteReturn BY <1>14 DEF ExecuteReturn
<1>15. ASSUME NEW i \in Jobs, ChildWrite(i) PROVE CallerTypes'
  BY <1>15 DEF ChildWrite
<1>16. ASSUME NEW i \in Jobs, ChildExit(i) PROVE CallerTypes'
  BY <1>16 DEF ChildExit, ChildEnds
<1>17. ASSUME NEW i \in Jobs, ChildFail(i) PROVE CallerTypes'
  BY <1>17 DEF ChildFail, ChildEnds
<1>18. ASSUME NEW i \in Jobs, ChildTerminated(i) PROVE CallerTypes'
  BY <1>18 DEF ChildTerminated, ChildEnds
<1>19. ASSUME NEW i \in Jobs, ChildStolen(i) PROVE CallerTypes'
  BY <1>19 DEF ChildStolen
<1>20. ASSUME NEW i \in Jobs, WorkerReadPid(i) PROVE CallerTypes'
  BY <1>20 DEF WorkerReadPid
<1>21. ASSUME NEW i \in Jobs, WorkerWaitpid(i) PROVE CallerTypes'
  BY <1>21 DEF WorkerWaitpid
<1>22. ASSUME NEW i \in Jobs, WorkerReset(i) PROVE CallerTypes'
  BY <1>22 DEF WorkerReset
<1>23. ASSUME NEW i \in Jobs, WorkerStatus(i) PROVE CallerTypes'
  BY <1>23 DEF WorkerStatus, WorkerEnds
<1>24. ASSUME NEW i \in Jobs, WorkerResetAgain(i) PROVE CallerTypes'
  BY <1>24 DEF WorkerResetAgain, WorkerEnds
<1>25. ASSUME NEW i \in Jobs, WorkerRead(i) PROVE CallerTypes'
  BY <1>25 DEF WorkerRead
<1>26. ASSUME NEW i \in Jobs, WorkerCallback(i) PROVE CallerTypes'
  BY <1>26 DEF WorkerCallback, WorkerEnds
<1>27. ASSUME NEW i \in Jobs, WorkerNotify(i) PROVE CallerTypes'
  BY <1>27 DEF WorkerNotify, WorkerEnds
<1>28. CASE UNCHANGED vars BY <1>28 DEF vars
<1> QED
  BY <1>1, <1>2, <1>3, <1>4, <1>5, <1>6, <1>7, <1>8, <1>9, <1>10, <1>11, <1>12, <1>13, <1>14,
     <1>15, <1>16, <1>17, <1>18, <1>19, <1>20, <1>21, <1>22, <1>23, <1>24, <1>25, <1>26, <1>27,
     <1>28
  DEF Next, Call, CallerStep, ChildProgress, WorkerStep, Ended

LEMMA CallerInvStep == TypeInv /\ [Next]_vars => CallerInv'
<1> SUFFICES ASSUME TypeInv, [Next]_vars PROVE CallerInv'
  OBVIOUS
<1>0. CallerTypes /\ CallerInv
  BY TypesSplit DEF TypeInv
<1> USE <1>0, ExecutorAssumption DEF CallerTypes, CallerInv, Jobs, NoPid, Launched, Goto, WorkerGoto, ReturnFromAbort,
     schedulerVars, callerVars, childVars, loopVars, workerVars
<1>1. CASE Start BY <1>1 DEF Start
<1>2. CASE Abort BY <1>2 DEF Abort
<1>3. CASE WaitForResult BY <1>3 DEF WaitForResult
<1>4. CASE Destroy BY <1>4 DEF Destroy
<1>5. CASE AddSubscriber BY <1>5 DEF AddSubscriber
<1>6. CASE AbortCheck BY <1>6 DEF AbortCheck
<1>7. CASE AbortKill BY <1>7 DEF AbortKill
<1>8. CASE AbortResetPid BY <1>8 DEF AbortResetPid
<1>9. CASE Join BY <1>9 DEF Join
<1>10. CASE StartWorker BY <1>10 DEF StartWorker
<1>11. CASE Fork BY <1>11 DEF Fork
<1>12. CASE SetPid BY <1>12 DEF SetPid
<1>13. CASE SpawnWorker BY <1>13 DEF SpawnWorker
<1>14. CASE ExecuteReturn BY <1>14 DEF ExecuteReturn
<1>15. ASSUME NEW i \in Jobs, ChildWrite(i) PROVE CallerInv'
  BY <1>15 DEF ChildWrite
<1>16. ASSUME NEW i \in Jobs, ChildExit(i) PROVE CallerInv'
  BY <1>16 DEF ChildExit, ChildEnds
<1>17. ASSUME NEW i \in Jobs, ChildFail(i) PROVE CallerInv'
  BY <1>17 DEF ChildFail, ChildEnds
<1>18. ASSUME NEW i \in Jobs, ChildTerminated(i) PROVE CallerInv'
  BY <1>18 DEF ChildTerminated, ChildEnds
<1>19. ASSUME NEW i \in Jobs, ChildStolen(i) PROVE CallerInv'
  BY <1>19 DEF ChildStolen
<1>20. ASSUME NEW i \in Jobs, WorkerReadPid(i) PROVE CallerInv'
  BY <1>20 DEF WorkerReadPid
<1>21. ASSUME NEW i \in Jobs, WorkerWaitpid(i) PROVE CallerInv'
  BY <1>21 DEF WorkerWaitpid
<1>22. ASSUME NEW i \in Jobs, WorkerReset(i) PROVE CallerInv'
  BY <1>22 DEF WorkerReset
<1>23. ASSUME NEW i \in Jobs, WorkerStatus(i) PROVE CallerInv'
  BY <1>23 DEF WorkerStatus, WorkerEnds
<1>24. ASSUME NEW i \in Jobs, WorkerResetAgain(i) PROVE CallerInv'
  BY <1>24 DEF WorkerResetAgain, WorkerEnds
<1>25. ASSUME NEW i \in Jobs, WorkerRead(i) PROVE CallerInv'
  BY <1>25 DEF WorkerRead
<1>26. ASSUME NEW i \in Jobs, WorkerCallback(i) PROVE CallerInv'
  BY <1>26 DEF WorkerCallback, WorkerEnds
<1>27. ASSUME NEW i \in Jobs, WorkerNotify(i) PROVE CallerInv'
  BY <1>27 DEF WorkerNotify, WorkerEnds
<1>28. CASE UNCHANGED vars BY <1>28 DEF vars
<1> QED
  BY <1>1, <1>2, <1>3, <1>4, <1>5, <1>6, <1>7, <1>8, <1>9, <1>10, <1>11, <1>12, <1>13, <1>14,
     <1>15, <1>16, <1>17, <1>18, <1>19, <1>20, <1>21, <1>22, <1>23, <1>24, <1>25, <1>26, <1>27,
     <1>28
  DEF Next, Call, CallerStep, ChildProgress, WorkerStep, Ended

LEMMA ChildTypeStep == TypeInv /\ [Next]_vars => ChildTypes'
<1> SUFFICES ASSUME TypeInv, [Next]_vars PROVE ChildTypes'
  OBVIOUS
<1>0. ChildTypes /\ CallerTypes
  BY TypesSplit DEF TypeInv
<1> USE <1>0, ExecutorAssumption DEF ChildTypes, Children, Exits, Jobs, Goto, WorkerGoto,
     schedulerVars, callerVars, childVars, loopVars, workerVars
<1>1. CASE Start BY <1>1 DEF Start
<1>2. CASE Abort BY <1>2 DEF Abort
<1>3. CASE WaitForResult BY <1>3 DEF WaitForResult
<1>4. CASE Destroy BY <1>4 DEF Destroy
<1>5. CASE AddSubscriber BY <1>5 DEF AddSubscriber
<1>6. CASE AbortCheck BY <1>6 DEF AbortCheck
<1>7. CASE AbortKill
  <2>1. termed' \in [Jobs -> BOOLEAN]
    BY <1>7 DEF AbortKill
  <2> QED
    BY <1>7, <2>1 DEF AbortKill
<1>8. CASE AbortResetPid BY <1>8 DEF AbortResetPid
<1>9. CASE Join BY <1>9 DEF Join
<1>10. CASE StartWorker BY <1>10 DEF StartWorker
<1>11. CASE Fork
  <2>1. PICK c \in {"running", "nofork"}, n \in Outputs :
          /\ child' = [child EXCEPT ![job + 1] = c]
          /\ total' = [total EXCEPT ![job + 1] = n]
    BY <1>11 DEF Fork
  <2>2. child' \in [Jobs -> Children] /\ total' \in [Jobs -> Nat]
    BY <2>1
  <2> QED
    BY <1>11, <2>2 DEF Fork
<1>12. CASE SetPid BY <1>12 DEF SetPid
<1>13. CASE SpawnWorker BY <1>13 DEF SpawnWorker
<1>14. CASE ExecuteReturn BY <1>14 DEF ExecuteReturn
<1>15. ASSUME NEW i \in Jobs, ChildWrite(i) PROVE ChildTypes'
  BY <1>15 DEF ChildWrite
<1>16. ASSUME NEW i \in Jobs, ChildExit(i) PROVE ChildTypes'
  BY <1>16 DEF ChildExit, ChildEnds
<1>17. ASSUME NEW i \in Jobs, ChildFail(i) PROVE ChildTypes'
  <2>1. PICK e \in {"error", "signaled"} : ChildEnds(i, e)
    BY <1>17 DEF ChildFail
  <2>2. UNCHANGED <<callerVars, pipe, workerVars>>
    BY <1>17 DEF ChildFail
  <2> QED
    BY <2>1, <2>2 DEF ChildEnds
<1>18. ASSUME NEW i \in Jobs, ChildTerminated(i) PROVE ChildTypes'
  BY <1>18 DEF ChildTerminated, ChildEnds
<1>19. ASSUME NEW i \in Jobs, ChildStolen(i) PROVE ChildTypes'
  BY <1>19 DEF ChildStolen
<1>20. ASSUME NEW i \in Jobs, WorkerReadPid(i) PROVE ChildTypes'
  BY <1>20 DEF WorkerReadPid
<1>21. ASSUME NEW i \in Jobs, WorkerWaitpid(i) PROVE ChildTypes'
  <2>1. child' \in [Jobs -> Children]
    <3>1. CASE child' = child
      BY <3>1
    <3>2. ASSUME NEW k \in Awaited(i), child' = [child EXCEPT ![k] = "reaped"]
          PROVE  child' \in [Jobs -> Children]
      BY <3>2
    <3> QED
      BY <1>21, <3>1, <3>2 DEF WorkerWaitpid
  <2> QED
    BY <1>21, <2>1 DEF WorkerWaitpid
<1>22. ASSUME NEW i \in Jobs, WorkerReset(i) PROVE ChildTypes'
  BY <1>22 DEF WorkerReset
<1>23. ASSUME NEW i \in Jobs, WorkerStatus(i) PROVE ChildTypes'
  BY <1>23 DEF WorkerStatus, WorkerEnds
<1>24. ASSUME NEW i \in Jobs, WorkerResetAgain(i) PROVE ChildTypes'
  BY <1>24 DEF WorkerResetAgain, WorkerEnds
<1>25. ASSUME NEW i \in Jobs, WorkerRead(i) PROVE ChildTypes'
  <2>1. CASE got' = [got EXCEPT ![i] = @ + pipe[i]] /\ pipe' = [pipe EXCEPT ![i] = 0]
    <3>1. got[i] + pipe[i] \in Nat
      OBVIOUS
    <3>2. UNCHANGED <<child, termed, total>>
      BY <1>25 DEF WorkerRead
    <3> QED
      BY <2>1, <3>1, <3>2
  <2>2. CASE UNCHANGED <<got, pipe>>
    BY <1>25, <2>2 DEF WorkerRead
  <2> QED
    BY <1>25, <2>1, <2>2 DEF WorkerRead
<1>26. ASSUME NEW i \in Jobs, WorkerCallback(i) PROVE ChildTypes'
  <2>1. CASE got' = got
    BY <1>26, <2>1 DEF WorkerCallback
  <2>2. CASE got' = [got EXCEPT ![i] = 0]
    BY <1>26, <2>2 DEF WorkerCallback
  <2> QED
    BY <1>26, <2>1, <2>2 DEF WorkerCallback, WorkerEnds
<1>27. ASSUME NEW i \in Jobs, WorkerNotify(i) PROVE ChildTypes'
  BY <1>27 DEF WorkerNotify, WorkerEnds
<1>28. CASE UNCHANGED vars BY <1>28 DEF vars
<1> QED
  BY <1>1, <1>2, <1>3, <1>4, <1>5, <1>6, <1>7, <1>8, <1>9, <1>10, <1>11, <1>12, <1>13, <1>14,
     <1>15, <1>16, <1>17, <1>18, <1>19, <1>20, <1>21, <1>22, <1>23, <1>24, <1>25, <1>26, <1>27,
     <1>28
  DEF Next, Call, CallerStep, ChildProgress, WorkerStep, Ended

LEMMA WorkerTypeStep == TypeInv /\ [Next]_vars => WorkerTypes'
<1> SUFFICES ASSUME TypeInv, [Next]_vars PROVE WorkerTypes'
  OBVIOUS
<1>0. ChildTypes /\ CallerTypes /\ WorkerTypes
  BY TypesSplit DEF TypeInv
<1> USE <1>0, ExecutorAssumption DEF WorkerTypes, CallerTypes, Workers, Exits, Jobs, Goto, WorkerGoto,
     schedulerVars, callerVars, childVars, loopVars, workerVars
<1>1. CASE Start BY <1>1 DEF Start
<1>2. CASE Abort BY <1>2 DEF Abort
<1>3. CASE WaitForResult BY <1>3 DEF WaitForResult
<1>4. CASE Destroy BY <1>4 DEF Destroy
<1>5. CASE AddSubscriber BY <1>5 DEF AddSubscriber
<1>6. CASE AbortCheck BY <1>6 DEF AbortCheck
<1>7. CASE AbortKill BY <1>7 DEF AbortKill
<1>8. CASE AbortResetPid BY <1>8 DEF AbortResetPid
<1>9. CASE Join BY <1>9 DEF Join
<1>10. CASE StartWorker BY <1>10 DEF StartWorker
<1>11. CASE Fork BY <1>11 DEF Fork
<1>12. CASE SetPid BY <1>12 DEF SetPid
<1>13. CASE SpawnWorker BY <1>13 DEF SpawnWorker
<1>14. CASE ExecuteReturn BY <1>14 DEF ExecuteReturn
<1>15. ASSUME NEW i \in Jobs, ChildWrite(i) PROVE WorkerTypes'
  BY <1>15 DEF ChildWrite
<1>16. ASSUME NEW i \in Jobs, ChildExit(i) PROVE WorkerTypes'
  BY <1>16 DEF ChildExit, ChildEnds
<1>17. ASSUME NEW i \in Jobs, ChildFail(i) PROVE WorkerTypes'
  BY <1>17 DEF ChildFail, ChildEnds
<1>18. ASSUME NEW i \in Jobs, ChildTerminated(i) PROVE WorkerTypes'
  BY <1>18 DEF ChildTerminated, ChildEnds
<1>19. ASSUME NEW i \in Jobs, ChildStolen(i) PROVE WorkerTypes'
  BY <1>19 DEF ChildStolen
<1>20. ASSUME NEW i \in Jobs, WorkerReadPid(i) PROVE WorkerTypes'
  <2>1. \A k \in 1 .. job : Stored(k) \in StrayPid .. MaxJobs
    BY DEF Stored, StrayPid, AnyPid
  <2>2. PICK p \in {Stored(k) : k \in 1 .. job} \cup {AnyPid, StrayPid} :
          target' = [target EXCEPT ![i] = p] /\ intact' = (intact /\ p = Stored(i))
    BY <1>20 DEF WorkerReadPid
  <2>3. p \in StrayPid .. MaxJobs
    BY <2>1 DEF StrayPid, AnyPid
  <2>4. target' \in [Jobs -> StrayPid .. MaxJobs]
    BY <2>2, <2>3
  <2>5. intact' \in BOOLEAN
    BY <2>2, Zenon
  <2> QED
    BY <1>20, <2>4, <2>5 DEF WorkerReadPid
<1>21. ASSUME NEW i \in Jobs, WorkerWaitpid(i) PROVE WorkerTypes'
  <2>1. PICK e \in Exits : status' = [status EXCEPT ![i] = e]
    BY <1>21 DEF WorkerWaitpid
  <2>2. target' \in [Jobs -> StrayPid .. MaxJobs]
    BY <1>21 DEF WorkerWaitpid, StrayPid, NoPid
  <2> QED
    BY <1>21, <2>1, <2>2 DEF WorkerWaitpid
<1>22. ASSUME NEW i \in Jobs, WorkerReset(i) PROVE WorkerTypes'
  BY <1>22 DEF WorkerReset
<1>23. ASSUME NEW i \in Jobs, WorkerStatus(i) PROVE WorkerTypes'
  BY <1>23 DEF WorkerStatus, WorkerEnds
<1>24. ASSUME NEW i \in Jobs, WorkerResetAgain(i) PROVE WorkerTypes'
  BY <1>24 DEF WorkerResetAgain, WorkerEnds
<1>25. ASSUME NEW i \in Jobs, WorkerRead(i) PROVE WorkerTypes'
  BY <1>25 DEF WorkerRead
<1>26. ASSUME NEW i \in Jobs, WorkerCallback(i) PROVE WorkerTypes'
  BY <1>26 DEF WorkerCallback, WorkerEnds
<1>27. ASSUME NEW i \in Jobs, WorkerNotify(i) PROVE WorkerTypes'
  BY <1>27 DEF WorkerNotify, WorkerEnds
<1>28. CASE UNCHANGED vars BY <1>28 DEF vars
<1> QED
  BY <1>1, <1>2, <1>3, <1>4, <1>5, <1>6, <1>7, <1>8, <1>9, <1>10, <1>11, <1>12, <1>13, <1>14,
     <1>15, <1>16, <1>17, <1>18, <1>19, <1>20, <1>21, <1>22, <1>23, <1>24, <1>25, <1>26, <1>27,
     <1>28
  DEF Next, Call, CallerStep, ChildProgress, WorkerStep, Ended

\* The notification loop counts subscriptions and never more of them than there are.
LEMMA LoopTypeStep == TypeInv /\ [Next]_vars => LoopTypes'
<1> SUFFICES ASSUME TypeInv, [Next]_vars PROVE LoopTypes'
  OBVIOUS
<1>0. LoopTypes /\ CallerTypes
  BY TypesSplit DEF TypeInv
<1> USE <1>0, ExecutorAssumption DEF LoopTypes, CallerTypes, schedulerVars, callerVars, childVars, loopVars, workerVars
<1>1. CASE Start BY <1>1 DEF Start
<1>2. CASE Abort BY <1>2 DEF Abort
<1>3. CASE WaitForResult BY <1>3 DEF WaitForResult
<1>4. CASE Destroy BY <1>4 DEF Destroy
<1>5. CASE AddSubscriber BY <1>5 DEF AddSubscriber
<1>6. CASE AbortCheck BY <1>6 DEF AbortCheck
<1>7. CASE AbortKill BY <1>7 DEF AbortKill
<1>8. CASE AbortResetPid BY <1>8 DEF AbortResetPid
<1>9. CASE Join BY <1>9 DEF Join
<1>10. CASE StartWorker BY <1>10 DEF StartWorker
<1>11. CASE Fork BY <1>11 DEF Fork
<1>12. CASE SetPid BY <1>12 DEF SetPid
<1>13. CASE SpawnWorker BY <1>13 DEF SpawnWorker
<1>14. CASE ExecuteReturn BY <1>14 DEF ExecuteReturn
<1>15. ASSUME NEW i \in Jobs, ChildWrite(i) PROVE LoopTypes'
  BY <1>15 DEF ChildWrite
<1>16. ASSUME NEW i \in Jobs, ChildExit(i) PROVE LoopTypes'
  BY <1>16 DEF ChildExit, ChildEnds
<1>17. ASSUME NEW i \in Jobs, ChildFail(i) PROVE LoopTypes'
  BY <1>17 DEF ChildFail, ChildEnds
<1>18. ASSUME NEW i \in Jobs, ChildTerminated(i) PROVE LoopTypes'
  BY <1>18 DEF ChildTerminated, ChildEnds
<1>19. ASSUME NEW i \in Jobs, ChildStolen(i) PROVE LoopTypes'
  BY <1>19 DEF ChildStolen
<1>20. ASSUME NEW i \in Jobs, WorkerReadPid(i) PROVE LoopTypes'
  BY <1>20 DEF WorkerReadPid
<1>21. ASSUME NEW i \in Jobs, WorkerWaitpid(i) PROVE LoopTypes'
  BY <1>21 DEF WorkerWaitpid
<1>22. ASSUME NEW i \in Jobs, WorkerReset(i) PROVE LoopTypes'
  BY <1>22 DEF WorkerReset
<1>23. ASSUME NEW i \in Jobs, WorkerStatus(i) PROVE LoopTypes'
  BY <1>23 DEF WorkerStatus, WorkerEnds
<1>24. ASSUME NEW i \in Jobs, WorkerResetAgain(i) PROVE LoopTypes'
  BY <1>24 DEF WorkerResetAgain, WorkerEnds
<1>25. ASSUME NEW i \in Jobs, WorkerRead(i) PROVE LoopTypes'
  BY <1>25 DEF WorkerRead
<1>26. ASSUME NEW i \in Jobs, WorkerCallback(i) PROVE LoopTypes'
  <2>1. 0 \in 0 .. MaxSubscriptions
    OBVIOUS
  <2>2. CASE visited' = visited /\ last' = [last EXCEPT ![i] = subscribers]
    BY <2>2
  <2>3. CASE WorkerEnds(i, "callback")
    BY <2>1, <2>3 DEF WorkerEnds
  <2> QED
    BY <1>26, <2>2, <2>3 DEF WorkerCallback
<1>27. ASSUME NEW i \in Jobs, WorkerNotify(i) PROVE LoopTypes'
  <2>1. CASE visited[i] < last[i] /\ visited' = [visited EXCEPT ![i] = @ + 1] /\ last' = last
    <3>1. visited[i] + 1 \in 0 .. MaxSubscriptions
      BY <2>1
    <3> QED
      BY <2>1, <3>1
  <2>2. CASE visited' = [visited EXCEPT ![i] = 0] /\ last' = [last EXCEPT ![i] = 0]
    BY <2>2
  <2> QED
    BY <1>27, <2>1, <2>2 DEF WorkerNotify, WorkerEnds
<1>28. CASE UNCHANGED vars BY <1>28 DEF vars
<1> QED
  BY <1>1, <1>2, <1>3, <1>4, <1>5, <1>6, <1>7, <1>8, <1>9, <1>10, <1>11, <1>12, <1>13, <1>14,
     <1>15, <1>16, <1>17, <1>18, <1>19, <1>20, <1>21, <1>22, <1>23, <1>24, <1>25, <1>26, <1>27,
     <1>28
  DEF Next, Call, CallerStep, ChildProgress, WorkerStep, Ended

LEMMA ReceivedTypeStep == TypeInv /\ [Next]_vars => ReceivedType'
<1> SUFFICES ASSUME TypeInv, [Next]_vars PROVE ReceivedType'
  OBVIOUS
<1>0. ReceivedType /\ LoopTypes
  BY TypesSplit DEF TypeInv
<1> USE <1>0, ExecutorAssumption DEF ReceivedType, LoopTypes, schedulerVars, callerVars, childVars, loopVars, workerVars
<1>1. CASE Start BY <1>1 DEF Start
<1>2. CASE Abort BY <1>2 DEF Abort
<1>3. CASE WaitForResult BY <1>3 DEF WaitForResult
<1>4. CASE Destroy BY <1>4 DEF Destroy
<1>5. CASE AddSubscriber BY <1>5 DEF AddSubscriber
<1>6. CASE AbortCheck BY <1>6 DEF AbortCheck
<1>7. CASE AbortKill BY <1>7 DEF AbortKill
<1>8. CASE AbortResetPid BY <1>8 DEF AbortResetPid
<1>9. CASE Join BY <1>9 DEF Join
<1>10. CASE StartWorker BY <1>10 DEF StartWorker
<1>11. CASE Fork BY <1>11 DEF Fork
<1>12. CASE SetPid BY <1>12 DEF SetPid
<1>13. CASE SpawnWorker BY <1>13 DEF SpawnWorker
<1>14. CASE ExecuteReturn BY <1>14 DEF ExecuteReturn
<1>15. ASSUME NEW i \in Jobs, ChildWrite(i) PROVE ReceivedType'
  BY <1>15 DEF ChildWrite
<1>16. ASSUME NEW i \in Jobs, ChildExit(i) PROVE ReceivedType'
  BY <1>16 DEF ChildExit, ChildEnds
<1>17. ASSUME NEW i \in Jobs, ChildFail(i) PROVE ReceivedType'
  BY <1>17 DEF ChildFail, ChildEnds
<1>18. ASSUME NEW i \in Jobs, ChildTerminated(i) PROVE ReceivedType'
  BY <1>18 DEF ChildTerminated, ChildEnds
<1>19. ASSUME NEW i \in Jobs, ChildStolen(i) PROVE ReceivedType'
  BY <1>19 DEF ChildStolen
<1>20. ASSUME NEW i \in Jobs, WorkerReadPid(i) PROVE ReceivedType'
  BY <1>20 DEF WorkerReadPid
<1>21. ASSUME NEW i \in Jobs, WorkerWaitpid(i) PROVE ReceivedType'
  BY <1>21 DEF WorkerWaitpid
<1>22. ASSUME NEW i \in Jobs, WorkerReset(i) PROVE ReceivedType'
  BY <1>22 DEF WorkerReset
<1>23. ASSUME NEW i \in Jobs, WorkerStatus(i) PROVE ReceivedType'
  BY <1>23 DEF WorkerStatus, WorkerEnds
<1>24. ASSUME NEW i \in Jobs, WorkerResetAgain(i) PROVE ReceivedType'
  BY <1>24 DEF WorkerResetAgain, WorkerEnds
<1>25. ASSUME NEW i \in Jobs, WorkerRead(i) PROVE ReceivedType'
  BY <1>25 DEF WorkerRead
<1>26. ASSUME NEW i \in Jobs, WorkerCallback(i) PROVE ReceivedType'
  BY <1>26 DEF WorkerCallback, WorkerEnds
<1>27. ASSUME NEW i \in Jobs, WorkerNotify(i) PROVE ReceivedType'
  <2>1. CASE visited[i] < last[i] /\ received' = [received EXCEPT ![i] = Append(@, visited[i] + 1)]
    <3>1. visited[i] + 1 \in Subscriptions
      BY <2>1 DEF Subscriptions
    <3>2. Append(received[i], visited[i] + 1) \in Seq(Subscriptions)
      BY <3>1
    <3>3. received' = [received EXCEPT ![i] = Append(received[i], visited[i] + 1)]
      BY <2>1
    <3> QED
      BY ONLY <1>0, <3>2, <3>3, Zenon DEF ReceivedType
  <2> QED
    BY <1>27, <2>1 DEF WorkerNotify
<1>28. CASE UNCHANGED vars BY <1>28 DEF vars
<1> QED
  BY <1>1, <1>2, <1>3, <1>4, <1>5, <1>6, <1>7, <1>8, <1>9, <1>10, <1>11, <1>12, <1>13, <1>14,
     <1>15, <1>16, <1>17, <1>18, <1>19, <1>20, <1>21, <1>22, <1>23, <1>24, <1>25, <1>26, <1>27,
     <1>28
  DEF Next, Call, CallerStep, ChildProgress, WorkerStep, Ended

LEMMA TypeStep == TypeInv /\ [Next]_vars => TypeInv'
<1> SUFFICES ASSUME TypeInv, [Next]_vars PROVE TypeInv'
  OBVIOUS
<1>1. CallerTypes' /\ CallerInv' /\ ChildTypes' /\ WorkerTypes' /\ LoopTypes' /\ ReceivedType'
  BY CallerTypeStep, CallerInvStep, ChildTypeStep, WorkerTypeStep, LoopTypeStep, ReceivedTypeStep
<1>2. TypeOK'
  BY <1>1 DEF TypeOK, CallerTypes, ChildTypes, WorkerTypes, LoopTypes, ReceivedType
<1> QED
  BY <1>1, <1>2 DEF TypeInv

\* Every variable keeps its type, in every build and whatever the caller calls.
THEOREM TypeCorrect == Spec => []TypeOK
<1>1. Spec => []TypeInv
  BY TypeInit, TypeStep, PTL DEF Spec
<1> QED
  BY <1>1, PTL DEF TypeInv

-----------------------------------------------------------------------------
(* Threads and notifications.                                                *)

\* The handle on the worker: a job that has not been launched has no thread.
ThreadInv ==
    /\ OneWorker
    /\ \A j \in Jobs : j > Launched => wpc[j] = "none"
    /\ job \in Jobs /\ pc \notin {"set_pid", "spawn"} => wpc[job] # "none"

\* The notification loop goes forward, and only through the output of a child that
\* ended well.
NotifyInv ==
    \A j \in Jobs :
      /\ wpc[j] \in {"read", "callback", "notify"} => status[j] = "ok"
      /\ wpc[j] \notin {"notify", "done"} => received[j] = <<>>
      /\ wpc[j] \in {"notify", "done"} \/ visited[j] = 0
      /\ wpc[j] = "notify" => \A n \in 1 .. Len(received[j]) : received[j][n] <= visited[j]

LEMMA ThreadInit == Init => ThreadInv
  BY ExecutorAssumption DEF Init, ThreadInv, OneWorker, Busy, Launched, Jobs

LEMMA ThreadStep == TypeInv /\ ThreadInv /\ [Next]_vars => ThreadInv'
<1> SUFFICES ASSUME TypeInv, ThreadInv, [Next]_vars PROVE ThreadInv'
  OBVIOUS
<1>0. CallerTypes /\ CallerInv /\ WorkerTypes
  BY TypesSplit DEF TypeInv
<1> USE <1>0, ExecutorAssumption DEF CallerTypes, CallerInv, WorkerTypes, Jobs, NoPid, ThreadInv, OneWorker,
     Busy, Launched, Goto, WorkerGoto, ReturnFromAbort,
     schedulerVars, callerVars, childVars, loopVars, workerVars
<1>1. CASE Start BY <1>1 DEF Start
<1>2. CASE Abort BY <1>2 DEF Abort
<1>3. CASE WaitForResult BY <1>3 DEF WaitForResult
<1>4. CASE Destroy BY <1>4 DEF Destroy
<1>5. CASE AddSubscriber BY <1>5 DEF AddSubscriber
<1>6. CASE AbortCheck BY <1>6 DEF AbortCheck
<1>7. CASE AbortKill BY <1>7 DEF AbortKill
<1>8. CASE AbortResetPid BY <1>8 DEF AbortResetPid
<1>9. CASE Join BY <1>9 DEF Join
<1>10. CASE StartWorker BY <1>10 DEF StartWorker
<1>11. CASE Fork BY <1>11 DEF Fork
<1>12. CASE SetPid BY <1>12 DEF SetPid
<1>13. CASE SpawnWorker BY <1>13, SMTT(20) DEF SpawnWorker
<1>14. CASE ExecuteReturn BY <1>14 DEF ExecuteReturn
<1>15. ASSUME NEW i \in Jobs, ChildWrite(i) PROVE ThreadInv'
  BY <1>15 DEF ChildWrite
<1>16. ASSUME NEW i \in Jobs, ChildExit(i) PROVE ThreadInv'
  BY <1>16 DEF ChildExit, ChildEnds
<1>17. ASSUME NEW i \in Jobs, ChildFail(i) PROVE ThreadInv'
  BY <1>17 DEF ChildFail, ChildEnds
<1>18. ASSUME NEW i \in Jobs, ChildTerminated(i) PROVE ThreadInv'
  BY <1>18 DEF ChildTerminated, ChildEnds
<1>19. ASSUME NEW i \in Jobs, ChildStolen(i) PROVE ThreadInv'
  BY <1>19 DEF ChildStolen
<1>20. ASSUME NEW i \in Jobs, WorkerReadPid(i) PROVE ThreadInv'
  BY <1>20 DEF WorkerReadPid
<1>21. ASSUME NEW i \in Jobs, WorkerWaitpid(i) PROVE ThreadInv'
  BY <1>21 DEF WorkerWaitpid
<1>22. ASSUME NEW i \in Jobs, WorkerReset(i) PROVE ThreadInv'
  BY <1>22 DEF WorkerReset
<1>23. ASSUME NEW i \in Jobs, WorkerStatus(i) PROVE ThreadInv'
  BY <1>23 DEF WorkerStatus, WorkerEnds
<1>24. ASSUME NEW i \in Jobs, WorkerResetAgain(i) PROVE ThreadInv'
  BY <1>24 DEF WorkerResetAgain, WorkerEnds
<1>25. ASSUME NEW i \in Jobs, WorkerRead(i) PROVE ThreadInv'
  BY <1>25 DEF WorkerRead
<1>26. ASSUME NEW i \in Jobs, WorkerCallback(i) PROVE ThreadInv'
  BY <1>26 DEF WorkerCallback, WorkerEnds
<1>27. ASSUME NEW i \in Jobs, WorkerNotify(i) PROVE ThreadInv'
  BY <1>27 DEF WorkerNotify, WorkerEnds
<1>28. CASE UNCHANGED vars BY <1>28 DEF vars
<1> QED
  BY <1>1, <1>2, <1>3, <1>4, <1>5, <1>6, <1>7, <1>8, <1>9, <1>10, <1>11, <1>12, <1>13, <1>14,
     <1>15, <1>16, <1>17, <1>18, <1>19, <1>20, <1>21, <1>22, <1>23, <1>24, <1>25, <1>26, <1>27,
     <1>28
  DEF Next, Call, CallerStep, ChildProgress, WorkerStep, Ended

LEMMA NotifyInit == Init => NotifyInv
  BY DEF Init, NotifyInv

LEMMA NotifyStep == TypeInv /\ ThreadInv /\ NotifyInv /\ [Next]_vars => NotifyInv'
<1> SUFFICES ASSUME TypeInv, ThreadInv, NotifyInv, [Next]_vars PROVE NotifyInv'
  OBVIOUS
<1>0. WorkerTypes /\ LoopTypes /\ ReceivedType
  BY TypesSplit DEF TypeInv
<1> USE <1>0, ExecutorAssumption DEF WorkerTypes, LoopTypes, ReceivedType, NotifyInv, Goto, WorkerGoto, ReturnFromAbort,
     schedulerVars, callerVars, childVars, loopVars, workerVars
<1>1. CASE Start BY <1>1 DEF Start
<1>2. CASE Abort BY <1>2 DEF Abort
<1>3. CASE WaitForResult BY <1>3 DEF WaitForResult
<1>4. CASE Destroy BY <1>4 DEF Destroy
<1>5. CASE AddSubscriber BY <1>5 DEF AddSubscriber
<1>6. CASE AbortCheck BY <1>6 DEF AbortCheck
<1>7. CASE AbortKill BY <1>7 DEF AbortKill
<1>8. CASE AbortResetPid BY <1>8 DEF AbortResetPid
<1>9. CASE Join BY <1>9 DEF Join
<1>10. CASE StartWorker BY <1>10 DEF StartWorker
<1>11. CASE Fork BY <1>11 DEF Fork
<1>12. CASE SetPid BY <1>12 DEF SetPid
<1>13. CASE SpawnWorker
  <2>1. job \in Jobs /\ wpc[job] = "none"
    BY <1>13, TypesSplit DEF SpawnWorker, TypeInv, CallerInv, CallerTypes, ThreadInv, Launched, Jobs
  <2> QED
    BY <1>13, <2>1 DEF SpawnWorker
<1>14. CASE ExecuteReturn BY <1>14 DEF ExecuteReturn
<1>15. ASSUME NEW i \in Jobs, ChildWrite(i) PROVE NotifyInv'
  BY <1>15 DEF ChildWrite
<1>16. ASSUME NEW i \in Jobs, ChildExit(i) PROVE NotifyInv'
  BY <1>16 DEF ChildExit, ChildEnds
<1>17. ASSUME NEW i \in Jobs, ChildFail(i) PROVE NotifyInv'
  BY <1>17 DEF ChildFail, ChildEnds
<1>18. ASSUME NEW i \in Jobs, ChildTerminated(i) PROVE NotifyInv'
  BY <1>18 DEF ChildTerminated, ChildEnds
<1>19. ASSUME NEW i \in Jobs, ChildStolen(i) PROVE NotifyInv'
  BY <1>19 DEF ChildStolen
<1>20. ASSUME NEW i \in Jobs, WorkerReadPid(i) PROVE NotifyInv'
  BY <1>20 DEF WorkerReadPid
<1>21. ASSUME NEW i \in Jobs, WorkerWaitpid(i) PROVE NotifyInv'
  BY <1>21 DEF WorkerWaitpid
<1>22. ASSUME NEW i \in Jobs, WorkerReset(i) PROVE NotifyInv'
  BY <1>22 DEF WorkerReset
<1>23. ASSUME NEW i \in Jobs, WorkerStatus(i) PROVE NotifyInv'
  BY <1>23 DEF WorkerStatus, WorkerEnds
<1>24. ASSUME NEW i \in Jobs, WorkerResetAgain(i) PROVE NotifyInv'
  BY <1>24 DEF WorkerResetAgain, WorkerEnds
<1>25. ASSUME NEW i \in Jobs, WorkerRead(i) PROVE NotifyInv'
  BY <1>25 DEF WorkerRead
<1>26. ASSUME NEW i \in Jobs, WorkerCallback(i) PROVE NotifyInv'
  <2>1. CASE wpc' = [wpc EXCEPT ![i] = "notify"] /\ wpc[i] = "callback"
    <3>1. UNCHANGED <<status, visited, received>>
      BY <1>26, <2>1 DEF WorkerCallback, WorkerEnds
    <3>2. received[i] = <<>> /\ status[i] = "ok"
      BY <2>1
    <3>3. Len(received[i]) = 0
      BY <3>2
    <3> QED
      BY <2>1, <3>1, <3>2, <3>3
  <2>2. CASE WorkerEnds(i, "callback")
    BY <1>26, <2>2 DEF WorkerCallback, WorkerEnds
  <2> QED
    BY <1>26, <2>1, <2>2 DEF WorkerCallback
<1>27. ASSUME NEW i \in Jobs, WorkerNotify(i) PROVE NotifyInv'
  <2>1. ASSUME NEW j \in Jobs, j # i
        PROVE  wpc'[j] = wpc[j] /\ received'[j] = received[j] /\ visited'[j] = visited[j]
                 /\ status'[j] = status[j]
    BY <1>27, <2>1 DEF WorkerNotify, WorkerEnds
  <2>2. CASE visited[i] = last[i] /\ WorkerEnds(i, "notify")
    BY <2>1, <2>2 DEF WorkerEnds
  <2>3. CASE visited' = [visited EXCEPT ![i] = @ + 1] /\ wpc'[i] = "notify" /\ status' = status
    <3>1. ASSUME NEW n \in 1 .. Len(received'[i]) PROVE received'[i][n] <= visited[i] + 1
      <4>1. wpc[i] = "notify" /\ visited[i] \in Int /\ received[i] \in Seq(Subscriptions)
        BY <1>27 DEF WorkerNotify, WorkerEnds
      <4>2. received'[i] \in {received[i], Append(received[i], visited[i] + 1)}
        BY <1>27, <2>3 DEF WorkerNotify, WorkerEnds
      <4>3. \A m \in 1 .. Len(received[i]) : received[i][m] <= visited[i] /\ received[i][m] \in Int
        BY <4>1 DEF Subscriptions
      <4>4. CASE received'[i] = received[i]
        BY <3>1, <4>1, <4>3, <4>4
      <4>5. CASE received'[i] = Append(received[i], visited[i] + 1)
        <5>1. CASE n = Len(received[i]) + 1
          BY <4>1, <4>5, <5>1
        <5>2. CASE n \in 1 .. Len(received[i])
          <6>1. received'[i][n] = received[i][n]
            BY <4>1, <4>5, <5>2
          <6> QED
            BY <4>1, <4>3, <5>2, <6>1
        <5>3. Len(received'[i]) = Len(received[i]) + 1 /\ Len(received[i]) \in Nat
          BY <4>1, <4>5
        <5> QED
          BY <3>1, <5>1, <5>2, <5>3
      <4> QED
        BY <4>2, <4>4, <4>5
    <3>2. status[i] = "ok" /\ visited'[i] = visited[i] + 1
      BY <1>27, <2>3 DEF WorkerNotify, WorkerEnds
    <3> QED
      BY <2>1, <2>3, <3>1, <3>2
  <2> QED
    BY <1>27, <2>2, <2>3 DEF WorkerNotify
<1>28. CASE UNCHANGED vars BY <1>28 DEF vars
<1> QED
  BY <1>1, <1>2, <1>3, <1>4, <1>5, <1>6, <1>7, <1>8, <1>9, <1>10, <1>11, <1>12, <1>13, <1>14,
     <1>15, <1>16, <1>17, <1>18, <1>19, <1>20, <1>21, <1>22, <1>23, <1>24, <1>25, <1>26, <1>27,
     <1>28
  DEF Next, Call, CallerStep, ChildProgress, WorkerStep, Ended

\* Every step of the executor is a step of the feed or leaves the feed unchanged.
LEMMA FeedStep ==
  TypeInv /\ ThreadInv /\ NotifyInv /\ [Next]_vars => [Feed!FeedNext]_(Feed!feedVars)
<1> SUFFICES ASSUME TypeInv, ThreadInv, NotifyInv, [Next]_vars
             PROVE  Feed!FeedNext \/ UNCHANGED Feed!feedVars
  OBVIOUS
<1> DEFINE FeedOrStutter == Feed!FeedNext \/ UNCHANGED Feed!feedVars
<1>0. CallerTypes /\ WorkerTypes /\ LoopTypes /\ ReceivedType
  BY TypesSplit DEF TypeInv
<1> USE <1>0 DEF CallerTypes, WorkerTypes, LoopTypes, ReceivedType, Launched, Feed!FeedNext, Feed!feedVars, Feed!Stop, Feed!Close,
     Goto, WorkerGoto, ReturnFromAbort, schedulerVars, callerVars, childVars, loopVars, workerVars
<1>1. CASE Start BY <1>1 DEF Start
<1>2. CASE Abort BY <1>2 DEF Abort
<1>3. CASE WaitForResult BY <1>3 DEF WaitForResult
<1>4. CASE Destroy BY <1>4 DEF Destroy
<1>5. CASE AddSubscriber BY <1>5 DEF AddSubscriber
<1>6. CASE AbortCheck BY <1>6 DEF AbortCheck
<1>7. CASE AbortKill BY <1>7 DEF AbortKill
<1>8. CASE AbortResetPid BY <1>8 DEF AbortResetPid
<1>9. CASE Join BY <1>9 DEF Join
<1>10. CASE StartWorker BY <1>10 DEF StartWorker
<1>11. CASE Fork BY <1>11 DEF Fork
<1>12. CASE SetPid BY <1>12 DEF SetPid
<1>13. CASE SpawnWorker
  <2>1. CASE joinable
    BY <1>13, <2>1 DEF SpawnWorker
  <2>2. CASE ~joinable
    <3>1. /\ process = "up" /\ process' = "up" /\ Launched' = Launched + 1
          /\ received' = received /\ joinable' = TRUE
      BY <1>13, <2>2 DEF SpawnWorker
    <3> QED
      BY <2>2, <3>1 DEF Feed!Begin
  <2> QED
    BY <2>1, <2>2
<1>14. CASE ExecuteReturn BY <1>14 DEF ExecuteReturn
<1>15. ASSUME NEW i \in Jobs, ChildWrite(i) PROVE FeedOrStutter
  BY <1>15 DEF ChildWrite
<1>16. ASSUME NEW i \in Jobs, ChildExit(i) PROVE FeedOrStutter
  BY <1>16 DEF ChildExit, ChildEnds
<1>17. ASSUME NEW i \in Jobs, ChildFail(i) PROVE FeedOrStutter
  BY <1>17 DEF ChildFail, ChildEnds
<1>18. ASSUME NEW i \in Jobs, ChildTerminated(i) PROVE FeedOrStutter
  BY <1>18 DEF ChildTerminated, ChildEnds
<1>19. ASSUME NEW i \in Jobs, ChildStolen(i) PROVE FeedOrStutter
  BY <1>19 DEF ChildStolen
<1>20. ASSUME NEW i \in Jobs, WorkerReadPid(i) PROVE FeedOrStutter
  BY <1>20 DEF WorkerReadPid
<1>21. ASSUME NEW i \in Jobs, WorkerWaitpid(i) PROVE FeedOrStutter
  BY <1>21 DEF WorkerWaitpid
<1>22. ASSUME NEW i \in Jobs, WorkerReset(i) PROVE FeedOrStutter
  BY <1>22 DEF WorkerReset
<1>23. ASSUME NEW i \in Jobs, WorkerStatus(i) PROVE FeedOrStutter
  BY <1>23 DEF WorkerStatus, WorkerEnds
<1>24. ASSUME NEW i \in Jobs, WorkerResetAgain(i) PROVE FeedOrStutter
  BY <1>24 DEF WorkerResetAgain, WorkerEnds
<1>25. ASSUME NEW i \in Jobs, WorkerRead(i) PROVE FeedOrStutter
  BY <1>25 DEF WorkerRead
<1>26. ASSUME NEW i \in Jobs, WorkerCallback(i) PROVE FeedOrStutter
  BY <1>26 DEF WorkerCallback, WorkerEnds
<1>27. ASSUME NEW i \in Jobs, WorkerNotify(i) PROVE FeedOrStutter
  <2>1. /\ i = Launched /\ process = "up" /\ process' = "up" /\ Launched' = Launched
        /\ joinable /\ joinable' = joinable
    BY <1>27 DEF WorkerNotify, WorkerEnds, ThreadInv, OneWorker, Busy
  <2>2. ASSUME visited[i] < last[i], wpc[i] = "notify",
               received' = [received EXCEPT ![i] = Append(@, visited[i] + 1)]
        PROVE  visited[i] + 1 \in Subscriptions /\ Feed!Tell(visited[i] + 1)
    <3>1. visited[i] + 1 \in Subscriptions /\ visited[i] \in Int
      BY <2>2, ExecutorAssumption DEF Subscriptions
    <3>2. \A n \in 1 .. Len(received[i]) : received[i][n] # visited[i] + 1
      <4>1. \A n \in 1 .. Len(received[i]) : received[i][n] <= visited[i]
        BY <2>2 DEF NotifyInv
      <4> QED
        BY <3>1, <4>1
    <3> QED
      BY <2>1, <2>2, <3>1, <3>2 DEF Feed!Tell, Feed!ToldBefore
  <2>3. CASE received' = received
    BY <2>1, <2>3
  <2> QED
    BY <1>27, <2>2, <2>3 DEF WorkerNotify
<1>28. CASE UNCHANGED vars BY <1>28 DEF vars
<1> QED
  BY <1>1, <1>2, <1>3, <1>4, <1>5, <1>6, <1>7, <1>8, <1>9, <1>10, <1>11, <1>12, <1>13, <1>14,
     <1>15, <1>16, <1>17, <1>18, <1>19, <1>20, <1>21, <1>22, <1>23, <1>24, <1>25, <1>26, <1>27,
     <1>28
  DEF Next, Call, CallerStep, ChildProgress, WorkerStep, Ended

-----------------------------------------------------------------------------
(* As long as the workers wait for their own children.                       *)

Unreaped(j) == child[j] \in {"running"} \cup Exits
Waiting(j)  == wpc[j] \in {"entry", "waitpid"}

\* While a worker is to wait for its child, child_pid holds that child's pid, except
\* while abort() joins the worker; and no other child is on its way.
WaitInv ==
    /\ \A j \in Jobs : Waiting(j) => /\ child_pid = j \/ pc = "join"
                                    /\ pc \notin {"start_worker", "fork", "set_pid", "spawn"}
    /\ pc = "spawn" /\ ~joinable => child_pid = job

\* A child that has not been reaped is the last one and its worker is still to wait
\* for it, and only a worker that is through has waited.
ChildInv ==
    /\ \A j \in Jobs :
         /\ j <= job <=> child[j] # "none"
         /\ Unreaped(j) => j = job /\ wpc[j] \in {"none", "entry", "waitpid"}
         /\ wpc[j] \in {"none", "entry", "waitpid"} => child[j] # "reaped"
         /\ wpc[j] = "waitpid" => target[j] = Stored(j)
    /\ pc \in {"start_worker", "fork"} => aborted = "true"
    /\ aborted = "true" => \A j \in Jobs : ~Unreaped(j)

\* The output of a child that ended well is in the pipe or has been read.
OutputInv ==
    \A j \in Jobs :
      /\ child[j] = "ok" => Written(j) = total[j]
      /\ child[j] = "reaped" /\ status[j] = "ok" => Written(j) = total[j]
      /\ wpc[j] \in {"callback", "notify"} => pipe[j] = 0

\* Once a worker has waited for something else there is no way back.
LEMMA IntactKept == TypeInv /\ [Next]_vars => (intact' => intact)
<1> SUFFICES ASSUME TypeInv, [Next]_vars PROVE (intact' => intact)
  OBVIOUS
<1>0. WorkerTypes
  BY TypesSplit DEF TypeInv
<1> USE <1>0, ExecutorAssumption DEF WorkerTypes, schedulerVars, callerVars, childVars, loopVars, workerVars
<1>1. CASE Start BY <1>1 DEF Start
<1>2. CASE Abort BY <1>2 DEF Abort
<1>3. CASE WaitForResult BY <1>3 DEF WaitForResult
<1>4. CASE Destroy BY <1>4 DEF Destroy
<1>5. CASE AddSubscriber BY <1>5 DEF AddSubscriber
<1>6. CASE AbortCheck BY <1>6 DEF AbortCheck
<1>7. CASE AbortKill BY <1>7 DEF AbortKill
<1>8. CASE AbortResetPid BY <1>8 DEF AbortResetPid
<1>9. CASE Join BY <1>9 DEF Join
<1>10. CASE StartWorker BY <1>10 DEF StartWorker
<1>11. CASE Fork BY <1>11 DEF Fork
<1>12. CASE SetPid BY <1>12 DEF SetPid
<1>13. CASE SpawnWorker BY <1>13 DEF SpawnWorker
<1>14. CASE ExecuteReturn BY <1>14 DEF ExecuteReturn
<1>15. ASSUME NEW i \in Jobs, ChildWrite(i) PROVE (intact' => intact)
  BY <1>15 DEF ChildWrite
<1>16. ASSUME NEW i \in Jobs, ChildExit(i) PROVE (intact' => intact)
  BY <1>16 DEF ChildExit, ChildEnds
<1>17. ASSUME NEW i \in Jobs, ChildFail(i) PROVE (intact' => intact)
  BY <1>17 DEF ChildFail, ChildEnds
<1>18. ASSUME NEW i \in Jobs, ChildTerminated(i) PROVE (intact' => intact)
  BY <1>18 DEF ChildTerminated, ChildEnds
<1>19. ASSUME NEW i \in Jobs, ChildStolen(i) PROVE (intact' => intact)
  BY <1>19 DEF ChildStolen
<1>20. ASSUME NEW i \in Jobs, WorkerReadPid(i) PROVE (intact' => intact)
  BY <1>20 DEF WorkerReadPid
<1>21. ASSUME NEW i \in Jobs, WorkerWaitpid(i) PROVE (intact' => intact)
  BY <1>21 DEF WorkerWaitpid
<1>22. ASSUME NEW i \in Jobs, WorkerReset(i) PROVE (intact' => intact)
  BY <1>22 DEF WorkerReset
<1>23. ASSUME NEW i \in Jobs, WorkerStatus(i) PROVE (intact' => intact)
  BY <1>23 DEF WorkerStatus, WorkerEnds
<1>24. ASSUME NEW i \in Jobs, WorkerResetAgain(i) PROVE (intact' => intact)
  BY <1>24 DEF WorkerResetAgain, WorkerEnds
<1>25. ASSUME NEW i \in Jobs, WorkerRead(i) PROVE (intact' => intact)
  BY <1>25 DEF WorkerRead
<1>26. ASSUME NEW i \in Jobs, WorkerCallback(i) PROVE (intact' => intact)
  BY <1>26 DEF WorkerCallback, WorkerEnds
<1>27. ASSUME NEW i \in Jobs, WorkerNotify(i) PROVE (intact' => intact)
  BY <1>27 DEF WorkerNotify, WorkerEnds
<1>28. CASE UNCHANGED vars BY <1>28 DEF vars
<1> QED
  BY <1>1, <1>2, <1>3, <1>4, <1>5, <1>6, <1>7, <1>8, <1>9, <1>10, <1>11, <1>12, <1>13, <1>14,
     <1>15, <1>16, <1>17, <1>18, <1>19, <1>20, <1>21, <1>22, <1>23, <1>24, <1>25, <1>26, <1>27,
     <1>28
  DEF Next, Call, CallerStep, ChildProgress, WorkerStep, Ended

LEMMA WaitInit == Init => WaitInv
  BY DEF Init, WaitInv, Waiting

LEMMA WaitStep == TypeInv /\ ThreadInv /\ WaitInv /\ [Next]_vars => WaitInv'
<1> SUFFICES ASSUME TypeInv, ThreadInv, WaitInv, [Next]_vars PROVE WaitInv'
  OBVIOUS
<1>0. CallerTypes /\ CallerInv /\ WorkerTypes
  BY TypesSplit DEF TypeInv
<1> USE <1>0, ExecutorAssumption DEF CallerTypes, CallerInv, WorkerTypes, Jobs, NoPid, ThreadInv, OneWorker,
     Busy, Launched, WaitInv, Waiting, Goto, WorkerGoto, ReturnFromAbort,
     schedulerVars, callerVars, childVars, loopVars, workerVars
<1>1. CASE Start BY <1>1 DEF Start
<1>2. CASE Abort BY <1>2 DEF Abort
<1>3. CASE WaitForResult BY <1>3 DEF WaitForResult
<1>4. CASE Destroy BY <1>4 DEF Destroy
<1>5. CASE AddSubscriber BY <1>5 DEF AddSubscriber
<1>6. CASE AbortCheck
  <2>1. CASE child_pid # NoPid /\ pc' = "kill"
    BY <1>6, <2>1 DEF AbortCheck
  <2>2. CASE child_pid = NoPid /\ ReturnFromAbort("true")
    BY <1>6, <2>2 DEF AbortCheck
  <2> QED
    BY <1>6, <2>1, <2>2 DEF AbortCheck
<1>7. CASE AbortKill BY <1>7 DEF AbortKill
<1>8. CASE AbortResetPid BY <1>8 DEF AbortResetPid
<1>9. CASE Join BY <1>9 DEF Join
<1>10. CASE StartWorker BY <1>10 DEF StartWorker
<1>11. CASE Fork BY <1>11 DEF Fork
<1>12. CASE SetPid BY <1>12 DEF SetPid
<1>13. CASE SpawnWorker BY <1>13 DEF SpawnWorker
<1>14. CASE ExecuteReturn BY <1>14 DEF ExecuteReturn
<1>15. ASSUME NEW i \in Jobs, ChildWrite(i) PROVE WaitInv'
  BY <1>15 DEF ChildWrite
<1>16. ASSUME NEW i \in Jobs, ChildExit(i) PROVE WaitInv'
  BY <1>16 DEF ChildExit, ChildEnds
<1>17. ASSUME NEW i \in Jobs, ChildFail(i) PROVE WaitInv'
  BY <1>17 DEF ChildFail, ChildEnds
<1>18. ASSUME NEW i \in Jobs, ChildTerminated(i) PROVE WaitInv'
  BY <1>18 DEF ChildTerminated, ChildEnds
<1>19. ASSUME NEW i \in Jobs, ChildStolen(i) PROVE WaitInv'
  BY <1>19 DEF ChildStolen
<1>20. ASSUME NEW i \in Jobs, WorkerReadPid(i) PROVE WaitInv'
  BY <1>20 DEF WorkerReadPid
<1>21. ASSUME NEW i \in Jobs, WorkerWaitpid(i) PROVE WaitInv'
  BY <1>21 DEF WorkerWaitpid
<1>22. ASSUME NEW i \in Jobs, WorkerReset(i) PROVE WaitInv'
  BY <1>22 DEF WorkerReset
<1>23. ASSUME NEW i \in Jobs, WorkerStatus(i) PROVE WaitInv'
  BY <1>23 DEF WorkerStatus, WorkerEnds
<1>24. ASSUME NEW i \in Jobs, WorkerResetAgain(i) PROVE WaitInv'
  BY <1>24 DEF WorkerResetAgain, WorkerEnds
<1>25. ASSUME NEW i \in Jobs, WorkerRead(i) PROVE WaitInv'
  BY <1>25 DEF WorkerRead
<1>26. ASSUME NEW i \in Jobs, WorkerCallback(i) PROVE WaitInv'
  BY <1>26 DEF WorkerCallback, WorkerEnds
<1>27. ASSUME NEW i \in Jobs, WorkerNotify(i) PROVE WaitInv'
  BY <1>27 DEF WorkerNotify, WorkerEnds
<1>28. CASE UNCHANGED vars BY <1>28 DEF vars
<1> QED
  BY <1>1, <1>2, <1>3, <1>4, <1>5, <1>6, <1>7, <1>8, <1>9, <1>10, <1>11, <1>12, <1>13, <1>14,
     <1>15, <1>16, <1>17, <1>18, <1>19, <1>20, <1>21, <1>22, <1>23, <1>24, <1>25, <1>26, <1>27,
     <1>28
  DEF Next, Call, CallerStep, ChildProgress, WorkerStep, Ended

LEMMA ChildInit == Init => ChildInv
  BY DEF Init, ChildInv, Unreaped, Exits, Jobs

LEMMA ChildLate ==
  ASSUME ChildInv,
         UNCHANGED <<pc, job, aborted, child, target>>,
         \A j \in Jobs : wpc'[j] # wpc[j] => /\ wpc[j] \notin {"none", "entry", "waitpid"}
                                            /\ wpc'[j] \notin {"none", "entry", "waitpid"}
  PROVE  ChildInv'
<1>1. ASSUME NEW j \in Jobs
      PROVE  /\ (Stored(j))' = Stored(j) /\ (Unreaped(j))' = Unreaped(j)
             /\ \A v \in {"none", "entry", "waitpid"} : wpc'[j] = v <=> wpc[j] = v
  BY <1>1 DEF Stored, Unreaped
<1>2. ASSUME NEW j \in Jobs
      PROVE  /\ j <= job' <=> child'[j] # "none"
             /\ (Unreaped(j))' => j = job' /\ wpc'[j] \in {"none", "entry", "waitpid"}
             /\ wpc'[j] \in {"none", "entry", "waitpid"} => child'[j] # "reaped"
             /\ wpc'[j] = "waitpid" => target'[j] = (Stored(j))'
  BY <1>1, <1>2 DEF ChildInv
<1>3. (pc' \in {"start_worker", "fork"} => aborted' = "true")
      /\ (aborted' = "true" => \A j \in Jobs : ~(Unreaped(j))')
  BY <1>1 DEF ChildInv
<1> QED
  BY <1>2, <1>3 DEF ChildInv

LEMMA ChildStep == TypeInv /\ ThreadInv /\ WaitInv /\ ChildInv /\ intact' /\ [Next]_vars => ChildInv'
<1> SUFFICES ASSUME TypeInv, ThreadInv, WaitInv, ChildInv, intact', [Next]_vars PROVE ChildInv'
  OBVIOUS
<1>w. wpc \in [Jobs -> Workers]
  BY TypesSplit DEF TypeInv, WorkerTypes
<1>a. ASSUME UNCHANGED <<pc, job, aborted, child, target>>,
             \A j \in Jobs : wpc'[j] # wpc[j] => /\ wpc[j] \notin {"none", "entry", "waitpid"}
                                                /\ wpc'[j] \notin {"none", "entry", "waitpid"}
      PROVE  ChildInv'
  BY <1>a, ChildLate
<1>0. CallerTypes /\ CallerInv /\ WorkerTypes /\ ChildTypes
  BY TypesSplit DEF TypeInv
<1> USE <1>0, ExecutorAssumption DEF CallerTypes, CallerInv, WorkerTypes, ChildTypes, Jobs, NoPid, ThreadInv, OneWorker,
     Busy, Launched, WaitInv, Waiting, ChildInv, Unreaped, Stored, Exits, Goto, WorkerGoto, ReturnFromAbort,
     schedulerVars, callerVars, childVars, loopVars, workerVars
<1>1. CASE Start BY <1>1 DEF Start
<1>2. CASE Abort BY <1>2 DEF Abort
<1>3. CASE WaitForResult BY <1>3 DEF WaitForResult
<1>4. CASE Destroy BY <1>4 DEF Destroy
<1>5. CASE AddSubscriber BY <1>5 DEF AddSubscriber
<1>6. CASE AbortCheck BY <1>6 DEF AbortCheck
<1>7. CASE AbortKill BY <1>7 DEF AbortKill
<1>8. CASE AbortResetPid BY <1>8 DEF AbortResetPid
<1>9. CASE Join
  <2>1. \A j \in Jobs : Unreaped(j) => ~Waiting(j)
    BY <1>9 DEF Join
  <2>2. pc' \notin {"set_pid", "spawn"} /\ UNCHANGED <<job, child, wpc, target>> /\ pc = "join"
    BY <1>9 DEF Join
  <2>3. \A j \in Jobs : ~Unreaped(j)
    BY <2>1, <2>2
  <2>4. pc' \in {"start_worker", "fork"} => aborted' = "true"
    BY <1>9 DEF Join
  <2> QED
    BY <2>2, <2>3, <2>4, SMTT(20)
<1>10. CASE StartWorker BY <1>10 DEF StartWorker
<1>11. CASE Fork BY <1>11, SMTT(20) DEF Fork
<1>12. CASE SetPid BY <1>12 DEF SetPid
<1>13. CASE SpawnWorker BY <1>13, SMTT(20) DEF SpawnWorker
<1>14. CASE ExecuteReturn BY <1>14 DEF ExecuteReturn
<1>15. ASSUME NEW i \in Jobs, ChildWrite(i) PROVE ChildInv'
  BY <1>15 DEF ChildWrite
<1>16. ASSUME NEW i \in Jobs, ChildExit(i) PROVE ChildInv'
  BY <1>16 DEF ChildExit, ChildEnds
<1>17. ASSUME NEW i \in Jobs, ChildFail(i) PROVE ChildInv'
  <2>1. PICK e \in {"error", "signaled"} : ChildEnds(i, e)
    BY <1>17 DEF ChildFail
  <2>2. UNCHANGED <<callerVars, workerVars>> /\ child[i] = "running"
    BY <1>17 DEF ChildFail
  <2> QED
    BY <2>1, <2>2, SMTT(20) DEF ChildEnds
<1>18. ASSUME NEW i \in Jobs, ChildTerminated(i) PROVE ChildInv'
  BY <1>18 DEF ChildTerminated, ChildEnds
<1>19. ASSUME NEW i \in Jobs, ChildStolen(i) PROVE ChildInv'
  BY <1>19 DEF ChildStolen
<1>20. ASSUME NEW i \in Jobs, WorkerReadPid(i) PROVE ChildInv'
  <2>1. target' = [target EXCEPT ![i] = Stored(i)] /\ wpc' = [wpc EXCEPT ![i] = "waitpid"]
    BY <1>20 DEF WorkerReadPid
  <2>2. UNCHANGED <<callerVars, childVars>> /\ wpc[i] = "entry"
    BY <1>20 DEF WorkerReadPid
  <2> QED
    BY <2>1, <2>2, SMTT(20)
<1>21. ASSUME NEW i \in Jobs, WorkerWaitpid(i) PROVE ChildInv'
  <2>1. i = job /\ target[i] = Stored(i) /\ wpc[i] = "waitpid"
    BY <1>21 DEF WorkerWaitpid
  <2>2. ASSUME NEW k \in Awaited(i), child[k] \in Exits PROVE k = i
    BY <2>1, <2>2 DEF Awaited, AnyPid
  <2>3. child' \in {child, [child EXCEPT ![i] = "reaped"]}
    BY <1>21, <2>2 DEF WorkerWaitpid
  <2>4. child' = child => ~Unreaped(i)
    <3>1. Stored(i) # AnyPid => Awaited(i) = {i}
      BY <2>1 DEF Awaited, AnyPid
    <3> QED
      BY <1>21, <2>1, <2>2, <3>1 DEF WorkerWaitpid, AnyPid, StrayPid
  <2>5. child' # child => child[i] \in Exits
    BY <1>21, <2>2 DEF WorkerWaitpid
  <2>6. wpc' = [wpc EXCEPT ![i] = "reset"] /\ target' = [target EXCEPT ![i] = NoPid]
    BY <1>21 DEF WorkerWaitpid
  <2>7. UNCHANGED callerVars
    BY <1>21 DEF WorkerWaitpid
  <2> QED
    BY <2>1, <2>3, <2>4, <2>5, <2>6, <2>7, SMTT(20)
<1>22. ASSUME NEW i \in Jobs, WorkerReset(i) PROVE ChildInv'
  BY <1>22 DEF WorkerReset
<1>23. ASSUME NEW i \in Jobs, WorkerStatus(i) PROVE ChildInv'
  <2>1. UNCHANGED <<pc, job, aborted, child, target>>
    BY <1>23 DEF WorkerStatus, WorkerEnds
  <2>2. wpc[i] = "status" /\ (wpc' = wpc \/ \E v \in {"reset_again", "done", "read"} : wpc' = [wpc EXCEPT ![i] = v])
    BY <1>23 DEF WorkerStatus, WorkerEnds
  <2>3. \A j \in Jobs : wpc'[j] # wpc[j] => /\ wpc[j] \notin {"none", "entry", "waitpid"}
                                           /\ wpc'[j] \notin {"none", "entry", "waitpid"}
    BY ONLY <1>w, <2>2
  <2> QED
    BY ONLY <2>1, <2>3, <1>a, Zenon
<1>24. ASSUME NEW i \in Jobs, WorkerResetAgain(i) PROVE ChildInv'
  BY <1>24 DEF WorkerResetAgain, WorkerEnds
<1>25. ASSUME NEW i \in Jobs, WorkerRead(i) PROVE ChildInv'
  <2>1. UNCHANGED <<pc, job, aborted, child, target>>
    BY <1>25 DEF WorkerRead, WorkerEnds
  <2>2. wpc[i] = "read" /\ (wpc' = wpc \/ \E v \in {"callback", "read"} : wpc' = [wpc EXCEPT ![i] = v])
    BY <1>25 DEF WorkerRead, WorkerEnds
  <2>3. \A j \in Jobs : wpc'[j] # wpc[j] => /\ wpc[j] \notin {"none", "entry", "waitpid"}
                                           /\ wpc'[j] \notin {"none", "entry", "waitpid"}
    BY ONLY <1>w, <2>2
  <2> QED
    BY ONLY <2>1, <2>3, <1>a, Zenon
<1>26. ASSUME NEW i \in Jobs, WorkerCallback(i) PROVE ChildInv'
  <2>1. UNCHANGED <<pc, job, aborted, child, target>>
    BY <1>26 DEF WorkerCallback, WorkerEnds
  <2>2. wpc[i] = "callback" /\ (wpc' = wpc \/ \E v \in {"notify", "done"} : wpc' = [wpc EXCEPT ![i] = v])
    BY <1>26 DEF WorkerCallback, WorkerEnds
  <2>3. \A j \in Jobs : wpc'[j] # wpc[j] => /\ wpc[j] \notin {"none", "entry", "waitpid"}
                                           /\ wpc'[j] \notin {"none", "entry", "waitpid"}
    BY ONLY <1>w, <2>2
  <2> QED
    BY ONLY <2>1, <2>3, <1>a, Zenon
<1>27. ASSUME NEW i \in Jobs, WorkerNotify(i) PROVE ChildInv'
  <2>1. UNCHANGED <<pc, job, aborted, child, target>>
    BY <1>27 DEF WorkerNotify, WorkerEnds
  <2>2. wpc[i] = "notify" /\ (wpc' = wpc \/ \E v \in {"notify", "done"} : wpc' = [wpc EXCEPT ![i] = v])
    BY <1>27 DEF WorkerNotify, WorkerEnds
  <2>3. \A j \in Jobs : wpc'[j] # wpc[j] => /\ wpc[j] \notin {"none", "entry", "waitpid"}
                                           /\ wpc'[j] \notin {"none", "entry", "waitpid"}
    BY ONLY <1>w, <2>2
  <2> QED
    BY ONLY <2>1, <2>3, <1>a, Zenon
<1>28. CASE UNCHANGED vars BY <1>28 DEF vars
<1> QED
  BY <1>1, <1>2, <1>3, <1>4, <1>5, <1>6, <1>7, <1>8, <1>9, <1>10, <1>11, <1>12, <1>13, <1>14,
     <1>15, <1>16, <1>17, <1>18, <1>19, <1>20, <1>21, <1>22, <1>23, <1>24, <1>25, <1>26, <1>27,
     <1>28
  DEF Next, Call, CallerStep, ChildProgress, WorkerStep, Ended

LEMMA OutputInit == Init => OutputInv
  BY DEF Init, OutputInv

LEMMA OutputStep == TypeInv /\ ThreadInv /\ WaitInv /\ ChildInv /\ OutputInv /\ intact' /\ [Next]_vars => OutputInv'
<1> SUFFICES ASSUME TypeInv, ThreadInv, WaitInv, ChildInv, OutputInv, intact', [Next]_vars PROVE OutputInv'
  OBVIOUS
<1>0. CallerTypes /\ WorkerTypes /\ ChildTypes
  BY TypesSplit DEF TypeInv
<1> USE <1>0, ExecutorAssumption DEF CallerTypes, WorkerTypes, ChildTypes, OutputInv, Written, Exits, Goto, WorkerGoto, ReturnFromAbort,
     schedulerVars, callerVars, childVars, loopVars, workerVars
<1>1. CASE Start BY <1>1 DEF Start
<1>2. CASE Abort BY <1>2 DEF Abort
<1>3. CASE WaitForResult BY <1>3 DEF WaitForResult
<1>4. CASE Destroy BY <1>4 DEF Destroy
<1>5. CASE AddSubscriber BY <1>5 DEF AddSubscriber
<1>6. CASE AbortCheck BY <1>6 DEF AbortCheck
<1>7. CASE AbortKill BY <1>7 DEF AbortKill
<1>8. CASE AbortResetPid BY <1>8 DEF AbortResetPid
<1>9. CASE Join BY <1>9 DEF Join
<1>10. CASE StartWorker BY <1>10 DEF StartWorker
<1>11. CASE Fork BY <1>11 DEF Fork, ChildInv, Jobs
<1>12. CASE SetPid BY <1>12 DEF SetPid
<1>13. CASE SpawnWorker BY <1>13 DEF SpawnWorker
<1>14. CASE ExecuteReturn BY <1>14 DEF ExecuteReturn
<1>15. ASSUME NEW i \in Jobs, ChildWrite(i) PROVE OutputInv'
  <2>1. wpc[i] \notin {"callback", "notify"}
    BY <1>15 DEF ChildWrite, ChildInv, Unreaped
  <2> QED
    BY <1>15, <2>1 DEF ChildWrite
<1>16. ASSUME NEW i \in Jobs, ChildExit(i) PROVE OutputInv'
  BY <1>16 DEF ChildExit, ChildEnds
<1>17. ASSUME NEW i \in Jobs, ChildFail(i) PROVE OutputInv'
  BY <1>17 DEF ChildFail, ChildEnds
<1>18. ASSUME NEW i \in Jobs, ChildTerminated(i) PROVE OutputInv'
  BY <1>18 DEF ChildTerminated, ChildEnds
<1>19. ASSUME NEW i \in Jobs, ChildStolen(i) PROVE OutputInv'
  BY <1>19 DEF ChildStolen
<1>20. ASSUME NEW i \in Jobs, WorkerReadPid(i) PROVE OutputInv'
  BY <1>20 DEF WorkerReadPid
<1>21. ASSUME NEW i \in Jobs, WorkerWaitpid(i) PROVE OutputInv'
  <2>1. i = job /\ target[i] = Stored(i) /\ wpc[i] = "waitpid"
    BY <1>21 DEF WorkerWaitpid, ThreadInv, OneWorker, Busy, Launched, WaitInv, Waiting, ChildInv
  <2>2. ASSUME NEW k \in Awaited(i), child[k] \in Exits PROVE k = i
    BY <2>1, <2>2 DEF Awaited, AnyPid, Stored, ChildInv, Unreaped, Jobs
  <2>3. UNCHANGED <<total, pipe, got>> /\ wpc' = [wpc EXCEPT ![i] = "reset"]
    BY <1>21 DEF WorkerWaitpid
  <2>4. \A j \in Jobs : j # i => status'[j] = status[j]
    BY <1>21 DEF WorkerWaitpid
  <2>5. CASE child[i] \in Exits /\ child' = [child EXCEPT ![i] = "reaped"] /\ status'[i] = child[i]
    BY <2>3, <2>4, <2>5
  <2>6. CASE child' = child
    <3>1. child[i] = "nofork"
      <4>1. child[i] # "reaped"
        BY <2>1 DEF ChildInv
      <4>2. child[i] # "nofork" => target[i] = i /\ Awaited(i) = {i}
        BY <2>1 DEF Stored, Awaited, AnyPid, Jobs
      <4> QED
        BY <1>21, <2>2, <2>6, <4>1, <4>2 DEF WorkerWaitpid, AnyPid, StrayPid, Jobs
    <3> QED
      BY <2>3, <2>4, <2>6, <3>1
  <2> QED
    BY <1>21, <2>2, <2>5, <2>6 DEF WorkerWaitpid
<1>22. ASSUME NEW i \in Jobs, WorkerReset(i) PROVE OutputInv'
  BY <1>22 DEF WorkerReset
<1>23. ASSUME NEW i \in Jobs, WorkerStatus(i) PROVE OutputInv'
  BY <1>23 DEF WorkerStatus, WorkerEnds, ChildInv, Unreaped
<1>24. ASSUME NEW i \in Jobs, WorkerResetAgain(i) PROVE OutputInv'
  BY <1>24 DEF WorkerResetAgain, WorkerEnds, ChildInv, Unreaped
<1>25. ASSUME NEW i \in Jobs, WorkerRead(i) PROVE OutputInv'
  BY <1>25 DEF WorkerRead
<1>26. ASSUME NEW i \in Jobs, WorkerCallback(i) PROVE OutputInv'
  BY <1>26 DEF WorkerCallback, WorkerEnds, ChildInv, Unreaped
<1>27. ASSUME NEW i \in Jobs, WorkerNotify(i) PROVE OutputInv'
  BY <1>27 DEF WorkerNotify, WorkerEnds, ChildInv, Unreaped
<1>28. CASE UNCHANGED vars BY <1>28 DEF vars
<1> QED
  BY <1>1, <1>2, <1>3, <1>4, <1>5, <1>6, <1>7, <1>8, <1>9, <1>10, <1>11, <1>12, <1>13, <1>14,
     <1>15, <1>16, <1>17, <1>18, <1>19, <1>20, <1>21, <1>22, <1>23, <1>24, <1>25, <1>26, <1>27,
     <1>28
  DEF Next, Call, CallerStep, ChildProgress, WorkerStep, Ended

-----------------------------------------------------------------------------
(* The results.                                                              *)

LEMMA AnyBuildInv == Spec => [](TypeInv /\ ThreadInv /\ NotifyInv /\ WaitInv)
  BY TypeInit, TypeStep, ThreadInit, ThreadStep, NotifyInit, NotifyStep, WaitInit, WaitStep,
     PTL DEF Spec

\* What holds as long as no worker has waited for what was not its own child.
IntactInv == intact => ChildInv /\ OutputInv

LEMMA IntactAlways == Spec => []IntactInv
<1>1. Init => IntactInv
  BY ChildInit, OutputInit DEF IntactInv
<1>2. TypeInv /\ ThreadInv /\ WaitInv /\ IntactInv /\ [Next]_vars => IntactInv'
  <2> SUFFICES ASSUME TypeInv, ThreadInv, WaitInv, IntactInv, [Next]_vars, intact'
               PROVE  ChildInv' /\ OutputInv'
    BY DEF IntactInv
  <2>1. ChildInv /\ OutputInv
    BY IntactKept DEF IntactInv
  <2> QED
    BY <2>1, ChildStep, OutputStep
<1> QED
  BY <1>1, <1>2, AnyBuildInv, PTL DEF Spec

\* No worker thread is lost track of, whatever sequence of calls is made.
THEOREM OneWorkerAlways == Spec => []OneWorker
<1>1. ThreadInv => OneWorker
  BY DEF ThreadInv
<1> QED
  BY <1>1, AnyBuildInv, PTL

\* The executor implements the feed of schedules its subscribers rely on, whatever its
\* workers wait for and however often somebody subscribes.
THEOREM FeedImplemented == Spec => ImplementsFeed
<1>1. Init => Feed!FeedInit
  BY DEF Init, Feed!FeedInit, Launched
<1> QED
  BY <1>1, FeedStep, AnyBuildInv, PTL DEF Spec, ImplementsFeed, Feed!FeedSpec

\* In every execution, and in every build: up to the first worker that waits for what
\* is not its own child, no verifyta of this executor runs after a successful abort().
THEOREM AbortIsEffective == Spec => []AbortLeavesNoChild
<1>1. IntactInv => AbortLeavesNoChild
  BY DEF IntactInv, ChildInv, Unreaped, AbortLeavesNoChild
<1> QED
  BY <1>1, IntactAlways, PTL

\* Up to then executions of verifyta do not overlap and leave no zombies behind.
THEOREM ExecutionsDisjoint == Spec => []EarlierChildrenReaped
<1>1. TypeInv /\ IntactInv => EarlierChildrenReaped
  BY DEF TypeInv, TypeOK, IntactInv, ChildInv, Unreaped, EarlierChildrenReaped, Children, Exits, Jobs
<1> QED
  BY <1>1, IntactAlways, AnyBuildInv, PTL

\* Up to then the callback is never given a truncated output.
THEOREM CallbackComplete == Spec => []CallbackSeesWholeOutput
<1>1. TypeInv /\ ThreadInv /\ NotifyInv /\ IntactInv => CallbackSeesWholeOutput
  <2> SUFFICES ASSUME TypeInv, ThreadInv, NotifyInv, ChildInv, OutputInv,
                      NEW j \in Jobs, wpc[j] \in {"callback", "notify"}, child[j] # "nofork"
               PROVE  child[j] = "reaped" /\ status[j] = "ok" /\ got[j] = total[j]
    BY DEF CallbackSeesWholeOutput, IntactInv
  <2>1. j <= job
    BY ExecutorAssumption DEF ThreadInv, TypeInv, TypeOK, Launched, Jobs
  <2>2. child[j] = "reaped" /\ status[j] = "ok"
    BY <2>1 DEF TypeInv, TypeOK, ChildInv, NotifyInv, Unreaped, Children, Exits
  <2> QED
    BY <2>2 DEF OutputInv, Written, TypeInv, TypeOK
<1> QED
  BY <1>1, IntactAlways, AnyBuildInv, PTL
=============================================================================
