----------------------- MODULE SessionLifecycleProofs -----------------------
(***************************************************************************)
(* Proofs about SessionLifecycle, for any set of requests, ids, callers    *)
(* and any assignment of ids, kinds and targets to requests.               *)
(***************************************************************************)
EXTENDS SessionLifecycle, SequenceTheorems, TLAPS

\* The head and the tail of the tracker's channel keep its type.
LEMMA TrackerHead ==
    ASSUME TypeOK, rxTracker # <<>>
    PROVE  /\ Head(rxTracker) \in Commands
           /\ Head(rxTracker).cmd \in {"Add", "Remove", "Cancel"}
                => Head(rxTracker).req \in Requests
           /\ Tail(rxTracker) \in Seq(Commands)
           /\ Head(rxTracker) = rxTracker[1]
           /\ Len(rxTracker) \in Nat \ {0}
           /\ Len(Tail(rxTracker)) = Len(rxTracker) - 1
           /\ \A n \in 1..Len(Tail(rxTracker)) :
                Tail(rxTracker)[n] = rxTracker[n + 1]
  <1>1. rxTracker \in Seq(Commands)
    BY DEF TypeOK, TrackerTypeOK
  <1>2. QED
    BY <1>1, HeadTailProperties, LenProperties DEF Commands

\* The same of the operations channel.
LEMMA OpsHead ==
    ASSUME TypeOK, rxOps # <<>>
    PROVE  /\ Head(rxOps) \in Requests \cup {End}
           /\ Head(rxOps) = rxOps[1]
           /\ Tail(rxOps) \in Seq(Requests \cup {End})
           /\ Len(rxOps) \in Nat \ {0}
           /\ Len(Tail(rxOps)) = Len(rxOps) - 1
           /\ \A n \in 1..Len(Tail(rxOps)) : Tail(rxOps)[n] = rxOps[n + 1]
  <1>1. rxOps \in Seq(Requests \cup {End})
    BY DEF TypeOK, OpsTypeOK
  <1>2. QED
    BY <1>1, HeadTailProperties, LenProperties

\* A command is appended to the tracker's channel.
LEMMA TrackerAppend ==
    ASSUME TypeOK, NEW m \in Commands
    PROVE  LET q == Append(rxTracker, m) IN
           /\ q \in Seq(Commands)
           /\ Len(q) = Len(rxTracker) + 1
           /\ Len(rxTracker) \in Nat
           /\ \A n \in 1..Len(rxTracker) : q[n] = rxTracker[n]
           /\ q[Len(rxTracker) + 1] = m
  <1>1. rxTracker \in Seq(Commands)
    BY DEF TypeOK, TrackerTypeOK
  <1>2. QED
    BY <1>1, AppendProperties, LenProperties

LEMMA OpsAppend ==
    ASSUME TypeOK, NEW r \in Requests \cup {End}
    PROVE  LET q == Append(rxOps, r) IN
           /\ q \in Seq(Requests \cup {End})
           /\ Len(q) = Len(rxOps) + 1
           /\ Len(rxOps) \in Nat
           /\ \A n \in 1..Len(rxOps) : q[n] = rxOps[n]
           /\ q[Len(rxOps) + 1] = r
  <1>1. rxOps \in Seq(Requests \cup {End})
    BY DEF TypeOK, OpsTypeOK
  <1>2. QED
    BY <1>1, AppendProperties, LenProperties

LEMMA SendEndType ==
    ASSUME TypeOK, SendEnd
    PROVE  rxOps' \in Seq(Requests \cup {End})
  BY OpsAppend DEF SendEnd, TypeOK, OpsTypeOK, End

LEMMA AskTrackerType ==
    ASSUME TypeOK, NEW r \in Requests, NEW cmd \in {"Add", "Remove", "Cancel"},
           AskTracker(cmd, r)
    PROVE  rxTracker' \in Seq(Commands) /\ reply' \in [Requests -> Replies]
  <1>1. [cmd |-> cmd, req |-> r] \in Commands
    BY DEF Commands
  <1>2. QED
    BY <1>1, TrackerAppend DEF AskTracker, TypeOK, TrackerTypeOK, Replies

\* The commands without a request.
LEMMA LoopCommands ==
    /\ [cmd |-> "CancelAll", req |-> None] \in Commands
    /\ [cmd |-> "Shutdown", req |-> None] \in Commands
  BY DEF Commands

\* The event logs that occur.
LEMMA EventLogs ==
    ASSUME NEW e \in {"started", "done", "error"}
    PROVE  /\ Append(<<>>, e) = <<e>>
           /\ Append(<<"started">>, e) = <<"started", e>>
  <1> DEFINE E == {"started", "done", "error"}
  <1>1. Append(<<>>, e) = <<e>>
    OBVIOUS
  <1>2. <<"started">> \in Seq(E) /\ <<"started", e>> \in Seq(E)
    OBVIOUS
  <1>3. /\ Append(<<"started">>, e) \in Seq(E)
        /\ Len(Append(<<"started">>, e)) = 2
        /\ Append(<<"started">>, e)[1] = "started"
        /\ Append(<<"started">>, e)[2] = e
    BY <1>2, AppendProperties
  <1>4. Len(<<"started", e>>) = 2
    OBVIOUS
  <1>5. \A i \in 1..2 : Append(<<"started">>, e)[i] = <<"started", e>>[i]
    BY <1>3
  <1>6. QED
    BY <1>1, <1>2, <1>3, <1>4, <1>5, SeqEqual

\* Emitting an event from a place of the task where one may be sent.
LEMMA EmitType ==
    ASSUME TypeOK, EventsFollowTask, NEW r \in Requests, NEW e, Emit(r, e),
           \/ task[r] = "spawned" /\ e = "started"
           \/ task[r] = "adding" /\ e = "error"
           \/ task[r] = "emitting" /\ e = outcome[r]
    PROVE  /\ events' \in [Requests -> Histories]
           /\ events' = [events EXCEPT ![r] =
                           IF task[r] = "emitting" THEN <<"started", e>> ELSE <<e>>]
  <1>1. events' = [events EXCEPT ![r] = Append(events[r], e)]
    BY DEF Emit
  <1>2. e \in {"started", "done", "error"}
    BY DEF TypeOK, TaskTypeOK, Outcomes
  <1>3. events[r] = IF task[r] = "emitting" THEN <<"started">> ELSE <<>>
    BY DEF EventsFollowTask
  <1>4. Append(events[r], e) = IF task[r] = "emitting" THEN <<"started", e>> ELSE <<e>>
    BY <1>2, <1>3, EventLogs
  <1>5. Append(events[r], e) \in Histories
    BY <1>4 DEF Histories, TypeOK, TaskTypeOK, Outcomes
  <1>6. QED
    BY <1>1, <1>4, <1>5 DEF TypeOK, TaskTypeOK

\* Whoever has a command in the tracker's channel waits for its answer.
LEMMA EnqueuedWaits ==
    ASSUME TypeOK, QueueIsSound, NEW r \in Enqueued
    PROVE  /\ r \in Requests
           /\ task[r] \in {"adding", "removing", "canceling"}
           /\ reply[r] = "none"
  <1>1. PICK n \in 1..Len(rxTracker) : rxTracker[n].req = r /\ r # None
    <2>1. DOMAIN rxTracker = 1..Len(rxTracker)
      BY LenProperties DEF TypeOK, TrackerTypeOK
    <2>2. QED
      BY <2>1 DEF Enqueued
  <1>2. rxTracker[n] \in Commands
    BY LenProperties DEF TypeOK, TrackerTypeOK
  <1>3. rxTracker[n].cmd \in {"Add", "Remove", "Cancel"} /\ r \in Requests
    BY <1>1, <1>2 DEF Commands
  <1>4. QED
    BY <1>1, <1>3 DEF QueueIsSound, Awaited

\* The channel is left alone.
LEMMA QueueKeeps ==
    ASSUME TypeOK, QueueIsSound, UNCHANGED rxTracker,
           \A m \in Commands : Awaited(m) => Awaited(m)'
    PROVE  QueueIsSound'
  <1>1. \A n \in 1..Len(rxTracker) : rxTracker[n] \in Commands
    BY LenProperties DEF TypeOK, TrackerTypeOK
  <1>2. \A n \in 1..Len(rxTracker) : Awaited(rxTracker[n])'
    BY <1>1 DEF QueueIsSound
  <1>3. QED
    BY <1>2 DEF QueueIsSound

\* The tracker takes a command.
LEMMA QueueTakes ==
    ASSUME TypeOK, QueueIsSound, rxTracker # <<>>,
           rxTracker' = Tail(rxTracker),
           \A m \in Commands :
                Awaited(m) /\ (m.req # Head(rxTracker).req \/ m.req = None)
                    => Awaited(m)'
    PROVE  QueueIsSound'
  <1>1. \A n \in 1..Len(rxTracker) : rxTracker[n] \in Commands
    BY LenProperties DEF TypeOK, TrackerTypeOK
  <1>2. /\ Len(rxTracker) \in Nat \ {0}
        /\ Len(rxTracker') = Len(rxTracker) - 1
        /\ \A n \in 1..Len(rxTracker') :
             rxTracker'[n] = rxTracker[n + 1] /\ n + 1 \in 1..Len(rxTracker)
        /\ Head(rxTracker) = rxTracker[1] /\ 1 \in 1..Len(rxTracker)
    BY TrackerHead
  <1>3. \A n, o \in 1..Len(rxTracker') :
            rxTracker'[n].req = rxTracker'[o].req /\ rxTracker'[n].req # None
                => n = o
    BY <1>2 DEF QueueIsSound
  <1>4. ASSUME NEW n \in 1..Len(rxTracker')
        PROVE  Awaited(rxTracker[n])'
    <2>1. PICK m \in Commands : m = rxTracker[n + 1] /\ Awaited(m)
      BY <1>1, <1>2 DEF QueueIsSound
    <2>2. m.req # Head(rxTracker).req \/ m.req = None
      BY <2>1, <1>2 DEF QueueIsSound
    <2>3. Awaited(m)' /\ m = rxTracker'[n]
      BY <1>2, <2>1, <2>2
    <2>4. QED
      BY <2>3 DEF Awaited
  <1>5. QED
    BY <1>3, <1>4 DEF QueueIsSound

\* Somebody sends a command.
LEMMA QueueGrows ==
    ASSUME TypeOK, QueueIsSound, NEW m \in Commands,
           rxTracker' = Append(rxTracker, m),
           Awaited(m)',
           \A k \in Commands : Awaited(k) => Awaited(k)' /\
                (k.req # m.req \/ m.req = None)
    PROVE  QueueIsSound'
  <1>1. \A n \in 1..Len(rxTracker) : rxTracker[n] \in Commands
    BY LenProperties DEF TypeOK, TrackerTypeOK
  <1>2. /\ Len(rxTracker) \in Nat
        /\ Len(rxTracker') = Len(rxTracker) + 1
        /\ \A n \in 1..Len(rxTracker) : rxTracker'[n] = rxTracker[n]
        /\ rxTracker'[Len(rxTracker) + 1] = m
    BY TrackerAppend
  <1>3. ASSUME NEW n \in 1..Len(rxTracker')
        PROVE  n \in 1..Len(rxTracker) \/ n = Len(rxTracker) + 1
    BY <1>2
  <1>4. ASSUME NEW n \in 1..Len(rxTracker')
        PROVE  Awaited(rxTracker[n])'
    <2>1. PICK k \in Commands : k = rxTracker'[n] /\ Awaited(k)'
      BY <1>1, <1>2, <1>3 DEF QueueIsSound
    <2>2. QED
      BY <2>1 DEF Awaited
  <1>5. \A n \in 1..Len(rxTracker) :
            rxTracker[n].req # m.req \/ m.req = None
    BY <1>1 DEF QueueIsSound
  <1>6. \A n, o \in 1..Len(rxTracker') :
            rxTracker'[n].req = rxTracker'[o].req /\ rxTracker'[n].req # None
                => n = o
    BY <1>2, <1>3, <1>5 DEF QueueIsSound
  <1>7. QED
    BY <1>4, <1>6 DEF QueueIsSound

\* Each action keeps the types, one group of variables at a time.
LEMMA TypeStep ==
    ASSUME IInv, Next
    PROVE  TypeOK'
  <1> USE DEF IInv, TypeOK, opsVars, taskVars, tokenVars, trackerVars,
     replyVars, sessionVars
  <1>1. ASSUME NEW r \in Requests, Submit(r)
       PROVE  TypeOK'
    <2>1. OpsTypeOK'
      BY <1>1, OpsAppend DEF Submit, OpsTypeOK, End
    <2>2. TaskTypeOK'
      BY <1>1 DEF Submit, TaskTypeOK, Places
    <2>3. QED
      BY <1>1, <2>1, <2>2 DEF Submit, TrackerTypeOK, SessionTypeOK
  <1>2. ASSUME NEW c \in Callers, StopChecks(c)
       PROVE  TypeOK'
    <2>1. SessionTypeOK'
      BY <1>2 DEF StopChecks, SessionTypeOK
    <2>2. QED
      BY <1>2, <2>1 DEF StopChecks, OpsTypeOK, TaskTypeOK, TrackerTypeOK
  <1>3. ASSUME NEW c \in Callers, StopMarks(c)
       PROVE  TypeOK'
    <2>1. SessionTypeOK'
      BY <1>3 DEF StopMarks, SessionTypeOK
    <2>2. QED
      BY <1>3, <2>1 DEF StopMarks, OpsTypeOK, TaskTypeOK, TrackerTypeOK
  <1>4. ASSUME NEW c \in Callers, StopSends(c)
       PROVE  TypeOK'
    <2>1. OpsTypeOK'
      BY <1>4, SendEndType DEF StopSends, OpsTypeOK, End
    <2>2. SessionTypeOK'
      BY <1>4 DEF StopSends, SessionTypeOK
    <2>3. QED
      BY <1>4, <2>1, <2>2 DEF StopSends, TaskTypeOK, TrackerTypeOK
  <1>5. ASSUME NEW c \in Callers, StopReturns(c)
       PROVE  TypeOK'
    <2>1. SessionTypeOK'
      BY <1>5 DEF StopReturns, SessionTypeOK
    <2>2. QED
      BY <1>5, <2>1 DEF StopReturns, OpsTypeOK, TaskTypeOK, TrackerTypeOK
  <1>6. CASE DropSession
    <2>1. OpsTypeOK'
      BY <1>6, SendEndType DEF DropSession, OpsTypeOK, End
    <2>2. SessionTypeOK'
      BY <1>6 DEF DropSession, SessionTypeOK
    <2>3. QED
      BY <1>6, <2>1, <2>2 DEF DropSession, TaskTypeOK, TrackerTypeOK
  <1>7. CASE OpsRecv
    <2>1. OpsTypeOK'
      BY <1>7, OpsHead DEF OpsRecv, OpsTypeOK, End
    <2>2. TaskTypeOK'
      BY <1>7, OpsHead DEF OpsRecv, TaskTypeOK, Places, OneIsAdded, End
    <2>3. TrackerTypeOK'
      BY <1>7, AskTrackerType, OpsHead DEF OpsRecv, TrackerTypeOK, Replies, End
    <2>4. QED
      BY <1>7, <2>1, <2>2, <2>3 DEF OpsRecv, SessionTypeOK
  <1>8. CASE OpsSpawn
    <2>1. OpsTypeOK'
      BY <1>8, OpsHead DEF OpsSpawn, OpsTypeOK, End
    <2>2. TaskTypeOK'
      BY <1>8, OpsHead DEF OpsSpawn, TaskTypeOK, Places, OneIsAdded, End
    <2>3. TrackerTypeOK'
      BY <1>8 DEF OpsSpawn, TrackerTypeOK, Replies, OneIsAdded
    <2>4. QED
      BY <1>8, <2>1, <2>2, <2>3 DEF OpsSpawn, SessionTypeOK
  <1>9. CASE OpsReject
    <2>1. OpsTypeOK'
      BY <1>9, OpsHead DEF OpsReject, OpsTypeOK, End
    <2>2. TaskTypeOK'
      <3>1. current \in Requests /\ task[current] = "adding"
        BY <1>9 DEF OneIsAdded, OpsReject, OpsTypeOK
      <3>2. events' \in [Requests -> Histories]
        BY <1>9, <3>1, EmitType DEF OpsReject
      <3>3. QED
        BY <1>9, <3>1, <3>2 DEF OpsReject, TaskTypeOK, Places
    <2>3. TrackerTypeOK'
      BY <1>9 DEF OpsReject, TrackerTypeOK, Replies, OneIsAdded
    <2>4. QED
      BY <1>9, <2>1, <2>2, <2>3 DEF OpsReject, SessionTypeOK
  <1>10. CASE OpsEnd
    <2>1. OpsTypeOK'
      BY <1>10, OpsHead DEF OpsEnd, OpsTypeOK, End
    <2>2. TrackerTypeOK'
      BY <1>10, LoopCommands, TrackerAppend DEF OpsEnd, TrackerTypeOK, Replies
    <2>3. QED
      BY <1>10, <2>1, <2>2 DEF OpsEnd, TaskTypeOK, SessionTypeOK
  <1>11. CASE OpsFinish
    <2>1. OpsTypeOK'
      BY <1>11, OpsHead DEF OpsFinish, OpsTypeOK, End
    <2>2. TrackerTypeOK'
      BY <1>11, LoopCommands, TrackerAppend DEF OpsFinish, TrackerTypeOK, Replies
    <2>3. SessionTypeOK'
      BY <1>11 DEF OpsFinish, SessionTypeOK
    <2>4. QED
      BY <1>11, <2>1, <2>2, <2>3 DEF OpsFinish, TaskTypeOK
  <1>12. ASSUME NEW r \in Requests, NEW result \in Outcomes, HandlerReturns(r, result)
       PROVE  TypeOK'
    <2>1. TaskTypeOK'
      BY <1>12 DEF HandlerReturns, TaskTypeOK, Places, Outcomes
    <2>2. QED
      BY <1>12, <2>1 DEF HandlerReturns, OpsTypeOK, TrackerTypeOK, SessionTypeOK
  <1>13. ASSUME NEW r \in Requests, TaskStarts(r)
       PROVE  TypeOK'
    <2>1. TaskTypeOK'
      BY <1>13, EmitType DEF TaskStarts, TaskTypeOK, Places
    <2>2. QED
      BY <1>13, <2>1 DEF TaskStarts, OpsTypeOK, TrackerTypeOK, SessionTypeOK
  <1>14. ASSUME NEW r \in Requests, CancelAsks(r)
       PROVE  TypeOK'
    <2>1. TaskTypeOK'
      BY <1>14 DEF CancelAsks, TaskTypeOK, Places
    <2>2. TrackerTypeOK'
      BY <1>14, AskTrackerType DEF CancelAsks, TrackerTypeOK, Replies
    <2>3. QED
      BY <1>14, <2>1, <2>2 DEF CancelAsks, OpsTypeOK, SessionTypeOK
  <1>15. ASSUME NEW r \in Requests, CancelAnswered(r)
       PROVE  TypeOK'
    <2>1. TaskTypeOK'
      BY <1>15 DEF CancelAnswered, TaskTypeOK, Places, Outcomes
    <2>2. TrackerTypeOK'
      BY <1>15 DEF CancelAnswered, TrackerTypeOK, Replies
    <2>3. QED
      BY <1>15, <2>1, <2>2 DEF CancelAnswered, OpsTypeOK, SessionTypeOK
  <1>16. ASSUME NEW r \in Requests, FinishChecks(r)
       PROVE  TypeOK'
    <2>1. TaskTypeOK'
      BY <1>16 DEF FinishChecks, TaskTypeOK, Places
    <2>2. QED
      BY <1>16, <2>1 DEF FinishChecks, OpsTypeOK, TrackerTypeOK, SessionTypeOK
  <1>17. ASSUME NEW r \in Requests, FinishLeaves(r)
       PROVE  TypeOK'
    <2>1. TaskTypeOK'
      BY <1>17 DEF FinishLeaves, TaskTypeOK, Places
    <2>2. TrackerTypeOK'
      BY <1>17, AskTrackerType DEF FinishLeaves, TrackerTypeOK, Replies
    <2>3. QED
      BY <1>17, <2>1, <2>2 DEF FinishLeaves, OpsTypeOK, SessionTypeOK
  <1>18. ASSUME NEW r \in Requests, FinishRemoved(r)
       PROVE  TypeOK'
    <2>1. TaskTypeOK'
      BY <1>18 DEF FinishRemoved, TaskTypeOK, Places
    <2>2. TrackerTypeOK'
      BY <1>18 DEF FinishRemoved, TrackerTypeOK, Replies
    <2>3. QED
      BY <1>18, <2>1, <2>2 DEF FinishRemoved, OpsTypeOK, SessionTypeOK
  <1>19. ASSUME NEW r \in Requests, FinishEmits(r)
       PROVE  TypeOK'
    <2>1. TaskTypeOK'
      BY <1>19, EmitType DEF FinishEmits, TaskTypeOK, Places
    <2>2. QED
      BY <1>19, <2>1 DEF FinishEmits, OpsTypeOK, TrackerTypeOK, SessionTypeOK
  <1>20. ASSUME NEW r \in Requests, FinishConfirms(r)
       PROVE  TypeOK'
    <2>1. TaskTypeOK'
      BY <1>20 DEF FinishConfirms, TaskTypeOK, Places
    <2>2. QED
      BY <1>20, <2>1 DEF FinishConfirms, OpsTypeOK, TrackerTypeOK, SessionTypeOK
  <1>21. CASE TrackerAdds
    <2>1. TrackerTypeOK'
      BY <1>21, TrackerHead, ConstantsAssumption
         DEF TrackerAdds, TrackerTypeOK, Replies, TrackerHas
    <2>2. QED
      BY <1>21, <2>1 DEF TrackerAdds, OpsTypeOK, TaskTypeOK, SessionTypeOK
  <1>22. CASE TrackerRemoves
    <2>1. TrackerTypeOK'
      BY <1>22, TrackerHead, ConstantsAssumption
         DEF TrackerRemoves, TrackerTypeOK, Replies, TrackerHas
    <2>2. QED
      BY <1>22, <2>1 DEF TrackerRemoves, OpsTypeOK, TaskTypeOK, SessionTypeOK
  <1>23. CASE TrackerMisses
    <2>1. TrackerTypeOK'
      BY <1>23, TrackerHead, ConstantsAssumption
         DEF TrackerMisses, TrackerTypeOK, Replies, TrackerHas
    <2>2. QED
      BY <1>23, <2>1 DEF TrackerMisses, OpsTypeOK, TaskTypeOK, SessionTypeOK
  <1>24. CASE TrackerFindsDone
    <2>1. TrackerTypeOK'
      <3> DEFINE ask == Head(rxTracker).req
                 v == tracked[Target[ask]]
      <3>1. ask \in Requests /\ v \in Requests
        BY <1>24, TrackerHead DEF TrackerFindsDone, TrackerHas, TaskTypeOK
      <3>2. confirmed' = confirmed \cup {<<ask, v>>}
        BY <1>24 DEF TrackerFindsDone
      <3>3. confirmed' \in SUBSET (Requests \X Requests)
        BY <3>1, <3>2 DEF TrackerTypeOK
      <3>4. reply' = [reply EXCEPT ![ask] = "true"]
        BY <1>24 DEF TrackerFindsDone
      <3>5. rxTracker' \in Seq(Commands)
        BY <1>24, TrackerHead DEF TrackerFindsDone, TrackerHas
      <3>6. tracked' \in [Uuids -> Requests \cup {None}]
        BY <1>24 DEF TrackerFindsDone, TrackerTypeOK
      <3>7. QED
        BY <1>24, <3>1, <3>3, <3>4, <3>5, <3>6
           DEF TrackerFindsDone, TrackerTypeOK, Replies
    <2>2. QED
      BY <1>24, <2>1 DEF TrackerFindsDone, OpsTypeOK, TaskTypeOK, SessionTypeOK
  <1>25. CASE TrackerCancels
    <2>1. TaskTypeOK'
      BY <1>25, TrackerHead, ConstantsAssumption
         DEF TrackerCancels, TaskTypeOK, Places, TrackerTypeOK, TrackerHas
    <2>2. TrackerTypeOK'
      BY <1>25, TrackerHead, ConstantsAssumption
         DEF TrackerCancels, TrackerTypeOK, Replies, TrackerHas
    <2>3. QED
      BY <1>25, <2>1, <2>2 DEF TrackerCancels, OpsTypeOK, SessionTypeOK
  <1>26. CASE TrackerConfirms
    <2>1. TrackerTypeOK'
      BY <1>26, TrackerHead, ConstantsAssumption
         DEF TrackerConfirms, TrackerTypeOK, Replies, TrackerWaits, TaskTypeOK
    <2>2. QED
      BY <1>26, <2>1 DEF TrackerConfirms, OpsTypeOK, TaskTypeOK, SessionTypeOK
  <1>27. CASE TrackerCancelAll
    <2>1. TrackerTypeOK'
      BY <1>27, TrackerHead, ConstantsAssumption
         DEF TrackerCancelAll, TrackerTypeOK, Replies, TrackerHas, Ids
    <2>2. QED
      BY <1>27, <2>1 DEF TrackerCancelAll, OpsTypeOK, TaskTypeOK, SessionTypeOK
  <1>28. ASSUME NEW u \in Uuids, CancelAllVisits(u)
       PROVE  TypeOK'
    <2>1. TaskTypeOK'
      BY <1>28
         DEF CancelAllVisits, TaskTypeOK, Places, TrackerWaits, Ids,
             TrackerTypeOK
    <2>2. TrackerTypeOK'
      BY <1>28 DEF CancelAllVisits, TrackerTypeOK, Replies, TrackerWaits, Ids
    <2>3. QED
      BY <1>28, <2>1, <2>2 DEF CancelAllVisits, OpsTypeOK, SessionTypeOK
  <1>29. CASE CancelAllProceeds
    <2>1. TrackerTypeOK'
      BY <1>29 DEF CancelAllProceeds, TrackerTypeOK, Replies
    <2>2. QED
      BY <1>29, <2>1 DEF CancelAllProceeds, OpsTypeOK, TaskTypeOK, SessionTypeOK
  <1>30. CASE CancelAllEnds
    <2>1. TrackerTypeOK'
      BY <1>30 DEF CancelAllEnds, TrackerTypeOK, Replies, NoId
    <2>2. QED
      BY <1>30, <2>1 DEF CancelAllEnds, OpsTypeOK, TaskTypeOK, SessionTypeOK
  <1>31. CASE TrackerShutdown
    <2>1. TrackerTypeOK'
      BY <1>31, TrackerHead, ConstantsAssumption
         DEF TrackerShutdown, TrackerTypeOK, Replies, LoseReplies
    <2>2. QED
      BY <1>31, <2>1 DEF TrackerShutdown, OpsTypeOK, TaskTypeOK, SessionTypeOK
  <1>32. CASE StateShutdown
    <2>1. SessionTypeOK'
      BY <1>32 DEF StateShutdown, SessionTypeOK
    <2>2. QED
      BY <1>32, <2>1 DEF StateShutdown, OpsTypeOK, TaskTypeOK, TrackerTypeOK
  <1>33. CASE StateFails
    <2>1. OpsTypeOK'
      BY <1>33, SendEndType DEF StateFails, OpsTypeOK, End
    <2>2. SessionTypeOK'
      BY <1>33 DEF StateFails, SessionTypeOK
    <2>3. QED
      BY <1>33, <2>1, <2>2 DEF StateFails, TaskTypeOK, TrackerTypeOK
  <1>34. CASE LoopsJoined
    <2>1. SessionTypeOK'
      BY <1>34 DEF LoopsJoined, SessionTypeOK
    <2>2. QED
      BY <1>34, <2>1 DEF LoopsJoined, OpsTypeOK, TaskTypeOK, TrackerTypeOK
  <1>35. CASE Watchdog
    <2>1. SessionTypeOK'
      BY <1>35 DEF Watchdog, SessionTypeOK
    <2>2. QED
      BY <1>35, <2>1 DEF Watchdog, OpsTypeOK, TaskTypeOK, TrackerTypeOK
  <1>36. CASE TaskAborted
    <2>1. OpsTypeOK'
      BY <1>36 DEF TaskAborted, OpsTypeOK, End
    <2>2. TrackerTypeOK'
      BY <1>36 DEF TaskAborted, TrackerTypeOK, Replies, LoseReplies
    <2>3. SessionTypeOK'
      BY <1>36 DEF TaskAborted, SessionTypeOK
    <2>4. QED
      BY <1>36, <2>1, <2>2, <2>3 DEF TaskAborted, TaskTypeOK
  <1> QED
    BY <1>1, <1>2, <1>3, <1>4, <1>5, <1>6, <1>7, <1>8, <1>9, <1>10, <1>11,
       <1>12, <1>13, <1>14, <1>15, <1>16, <1>17, <1>18, <1>19, <1>20,
       <1>21, <1>22, <1>23, <1>24, <1>25, <1>26, <1>27, <1>28, <1>29,
       <1>30, <1>31, <1>32, <1>33, <1>34, <1>35, <1>36
       DEF Next, Client, OpsLoop, Handler, TaskStep, Tracker, SessionTask
\* The logs grow with the steps of the tasks.
LEMMA EventsStep ==
    ASSUME IInv, TypeOK', Next
    PROVE  EventsFollowTask'
  <1> USE DEF IInv, EventsFollowTask
  <1>1. ASSUME UNCHANGED <<taskVars, done>>
        PROVE  EventsFollowTask'
    BY <1>1 DEF taskVars
  <1>2. ASSUME NEW r \in Requests, Submit(r)
       PROVE  EventsFollowTask'
    BY <1>2 DEF Submit, TypeOK, OpsTypeOK, TaskTypeOK, taskVars, tokenVars, End
  <1>3. CASE OpsRecv
    BY <1>3, OpsHead
       DEF OpsRecv, AskTracker, QueuedIsFresh, TypeOK, OpsTypeOK,
           TaskTypeOK, taskVars, tokenVars, End
  <1>4. CASE OpsSpawn
    BY <1>4
       DEF OpsSpawn, OneIsAdded, TypeOK, OpsTypeOK, TaskTypeOK,
           taskVars, tokenVars, End
  <1>5. CASE OpsReject
    BY <1>5, EmitType
       DEF OpsReject, OneIsAdded, TypeOK, OpsTypeOK, TaskTypeOK,
           taskVars, tokenVars, End
  <1>6. ASSUME NEW r \in Requests, TaskStarts(r)
       PROVE  EventsFollowTask'
    BY <1>6, EmitType
       DEF TaskStarts, TypeOK, OpsTypeOK, TaskTypeOK, taskVars, tokenVars, End
  <1>7. ASSUME NEW r \in Requests, NEW result \in Outcomes, HandlerReturns(r, result)
       PROVE  EventsFollowTask'
    BY <1>7
       DEF HandlerReturns, TypeOK, OpsTypeOK, TaskTypeOK, taskVars,
           tokenVars, End
  <1>8. ASSUME NEW r \in Requests, CancelAsks(r)
       PROVE  EventsFollowTask'
    BY <1>8
       DEF CancelAsks, AskTracker, TypeOK, OpsTypeOK, TaskTypeOK,
           taskVars, tokenVars, End
  <1>9. ASSUME NEW r \in Requests, CancelAnswered(r)
       PROVE  EventsFollowTask'
    BY <1>9
       DEF CancelAnswered, TypeOK, OpsTypeOK, TaskTypeOK, taskVars,
           tokenVars, End
  <1>10. ASSUME NEW r \in Requests, FinishChecks(r)
       PROVE  EventsFollowTask'
    BY <1>10
       DEF FinishChecks, TypeOK, OpsTypeOK, TaskTypeOK, taskVars, tokenVars, End
  <1>11. ASSUME NEW r \in Requests, FinishLeaves(r)
       PROVE  EventsFollowTask'
    BY <1>11
       DEF FinishLeaves, AskTracker, TypeOK, OpsTypeOK, TaskTypeOK,
           taskVars, tokenVars, End
  <1>12. ASSUME NEW r \in Requests, FinishRemoved(r)
       PROVE  EventsFollowTask'
    BY <1>12
       DEF FinishRemoved, TypeOK, OpsTypeOK, TaskTypeOK, taskVars,
           tokenVars, End
  <1>13. ASSUME NEW r \in Requests, FinishEmits(r)
       PROVE  EventsFollowTask'
    BY <1>13, EmitType
       DEF FinishEmits, TypeOK, OpsTypeOK, TaskTypeOK, taskVars, tokenVars, End
  <1>14. ASSUME NEW r \in Requests, FinishConfirms(r)
       PROVE  EventsFollowTask'
    BY <1>14
       DEF FinishConfirms, TypeOK, OpsTypeOK, TaskTypeOK, taskVars,
           tokenVars, End
  <1> QED
    BY <1>1, <1>2, <1>3, <1>4, <1>5, <1>6, <1>7, <1>8, <1>9, <1>10, <1>11,
       <1>12, <1>13, <1>14
    DEF Next, Client, OpsLoop, Handler, TaskStep, Tracker, SessionTask,
        opsVars, taskVars, tokenVars, trackerVars, replyVars, sessionVars,
        StopChecks, StopMarks, StopSends, StopReturns, DropSession,
        OpsEnd, OpsFinish, TrackerAdds, TrackerRemoves, TrackerMisses,
        TrackerFindsDone, TrackerCancels, TrackerConfirms,
        TrackerCancelAll, CancelAllVisits, CancelAllProceeds,
        CancelAllEnds, TrackerShutdown, StateShutdown, StateFails,
        LoopsJoined, Watchdog, TaskAborted, Enqueued, LoseReplies,
        SendEnd, TrackerHas

\* Answers are taken before a task moves on.
LEMMA AnswersStep ==
    ASSUME IInv, TypeOK', Next
    PROVE  AnswersAreAwaited'
  <1> USE DEF IInv, AnswersAreAwaited
  <1>1. ASSUME UNCHANGED <<task, reply>>
        PROVE  AnswersAreAwaited'
    BY <1>1
  <1>2. ASSUME NEW r \in Requests, Submit(r)
       PROVE  AnswersAreAwaited'
    BY <1>2
       DEF Submit, TypeOK, OpsTypeOK, TaskTypeOK, TrackerTypeOK,
           taskVars, replyVars, End
  <1>3. CASE OpsRecv
    BY <1>3, OpsHead
       DEF OpsRecv, AskTracker, TypeOK, OpsTypeOK, TaskTypeOK,
           TrackerTypeOK, taskVars, replyVars, End
  <1>4. CASE OpsSpawn
    BY <1>4
       DEF OpsSpawn, OneIsAdded, TypeOK, OpsTypeOK, TaskTypeOK,
           TrackerTypeOK, taskVars, replyVars, End
  <1>5. CASE OpsReject
    BY <1>5
       DEF OpsReject, OneIsAdded, TypeOK, OpsTypeOK, TaskTypeOK,
           TrackerTypeOK, taskVars, replyVars, End
  <1>6. ASSUME NEW r \in Requests, TaskStarts(r)
       PROVE  AnswersAreAwaited'
    BY <1>6
       DEF TaskStarts, TypeOK, OpsTypeOK, TaskTypeOK, TrackerTypeOK,
           taskVars, replyVars, End
  <1>7. ASSUME NEW r \in Requests, NEW result \in Outcomes, HandlerReturns(r, result)
       PROVE  AnswersAreAwaited'
    BY <1>7
       DEF HandlerReturns, TypeOK, OpsTypeOK, TaskTypeOK,
           TrackerTypeOK, taskVars, replyVars, End
  <1>8. ASSUME NEW r \in Requests, CancelAsks(r)
       PROVE  AnswersAreAwaited'
    BY <1>8
       DEF CancelAsks, AskTracker, TypeOK, OpsTypeOK, TaskTypeOK,
           TrackerTypeOK, taskVars, replyVars, End
  <1>9. ASSUME NEW r \in Requests, CancelAnswered(r)
       PROVE  AnswersAreAwaited'
    BY <1>9
       DEF CancelAnswered, TypeOK, OpsTypeOK, TaskTypeOK,
           TrackerTypeOK, taskVars, replyVars, End
  <1>10. ASSUME NEW r \in Requests, FinishChecks(r)
       PROVE  AnswersAreAwaited'
    BY <1>10
       DEF FinishChecks, TypeOK, OpsTypeOK, TaskTypeOK, TrackerTypeOK,
           taskVars, replyVars, End
  <1>11. ASSUME NEW r \in Requests, FinishLeaves(r)
       PROVE  AnswersAreAwaited'
    BY <1>11
       DEF FinishLeaves, AskTracker, TypeOK, OpsTypeOK, TaskTypeOK,
           TrackerTypeOK, taskVars, replyVars, End
  <1>12. ASSUME NEW r \in Requests, FinishRemoved(r)
       PROVE  AnswersAreAwaited'
    BY <1>12
       DEF FinishRemoved, TypeOK, OpsTypeOK, TaskTypeOK, TrackerTypeOK,
           taskVars, replyVars, End
  <1>13. ASSUME NEW r \in Requests, FinishEmits(r)
       PROVE  AnswersAreAwaited'
    BY <1>13
       DEF FinishEmits, TypeOK, OpsTypeOK, TaskTypeOK, TrackerTypeOK,
           taskVars, replyVars, End
  <1>14. ASSUME NEW r \in Requests, FinishConfirms(r)
       PROVE  AnswersAreAwaited'
    BY <1>14
       DEF FinishConfirms, TypeOK, OpsTypeOK, TaskTypeOK,
           TrackerTypeOK, taskVars, replyVars, End
  <1>15. CASE TrackerAdds
    BY <1>15, TrackerHead
       DEF TrackerAdds, TrackerHas, QueueIsSound, Awaited,
           TrackerWaits, TypeOK, OpsTypeOK, TaskTypeOK, TrackerTypeOK,
           taskVars, replyVars, End
  <1>16. CASE TrackerRemoves
    BY <1>16, TrackerHead
       DEF TrackerRemoves, TrackerHas, QueueIsSound, Awaited,
           TrackerWaits, TypeOK, OpsTypeOK, TaskTypeOK, TrackerTypeOK,
           taskVars, replyVars, End
  <1>17. CASE TrackerMisses
    BY <1>17, TrackerHead
       DEF TrackerMisses, TrackerHas, QueueIsSound, Awaited,
           TrackerWaits, TypeOK, OpsTypeOK, TaskTypeOK, TrackerTypeOK,
           taskVars, replyVars, End
  <1>18. CASE TrackerFindsDone
    BY <1>18, TrackerHead
       DEF TrackerFindsDone, TrackerHas, QueueIsSound, Awaited,
           TrackerWaits, TypeOK, OpsTypeOK, TaskTypeOK, TrackerTypeOK,
           taskVars, replyVars, End
  <1>19. CASE TrackerConfirms
    BY <1>19
       DEF TrackerConfirms, QueueIsSound, Awaited, TrackerWaits,
           TypeOK, OpsTypeOK, TaskTypeOK, TrackerTypeOK, taskVars,
           replyVars, End
  <1>20. CASE TrackerShutdown
    BY <1>20, EnqueuedWaits
       DEF TrackerShutdown, LoseReplies, TypeOK, OpsTypeOK, TaskTypeOK,
           TrackerTypeOK, taskVars, replyVars, End
  <1>21. ASSUME NEW r \in Requests, TaskAborted, reply'[r] # "none"
         PROVE  task'[r] \in {"adding", "canceling", "removing"}
    <2>1. task' = task
      BY <1>21 DEF TaskAborted, taskVars
    <2>2. CASE r \in Enqueued
      BY <2>1, <2>2, EnqueuedWaits
    <2>3. CASE r = asker /\ asker # None
      BY <2>1, <2>3, <1>21 DEF TaskAborted, TrackerWaits, ShutdownOrder
    <2>4. CASE r \notin Enqueued /\ (r # asker \/ asker = None)
      <3>1. r \notin Enqueued \cup ({asker} \ {None})
        BY <2>4
      <3>2. reply'[r] = reply[r]
        BY <1>21, <3>1 DEF TaskAborted, LoseReplies
      <3>3. QED
        BY <1>21, <2>1, <3>2
    <2>5. QED
      BY <2>2, <2>3, <2>4
  <1> QED
    BY <1>1, <1>2, <1>3, <1>4, <1>5, <1>6, <1>7, <1>8, <1>9, <1>10, <1>11,
       <1>12, <1>13, <1>14, <1>15, <1>16, <1>17, <1>18, <1>19, <1>20,
       <1>21
    DEF Next, Client, OpsLoop, Handler, TaskStep, Tracker, SessionTask,
        opsVars, taskVars, tokenVars, trackerVars, replyVars, sessionVars,
        StopChecks, StopMarks, StopSends, StopReturns, DropSession,
        OpsEnd, OpsFinish, TrackerCancels, TrackerCancelAll,
        CancelAllVisits, CancelAllProceeds, CancelAllEnds,
        StateShutdown, StateFails, LoopsJoined, Watchdog, SendEnd,
        TrackerHas

\* The operations loop leaves its request before it takes another.
LEMMA OneStep ==
    ASSUME IInv, TypeOK', Next
    PROVE  OneIsAdded'
  <1> USE DEF IInv, OneIsAdded
  <1>1. ASSUME UNCHANGED <<task, current, opsLoop>>
        PROVE  OneIsAdded'
    BY <1>1
  <1>2. ASSUME NEW r \in Requests, Submit(r)
       PROVE  OneIsAdded'
    BY <1>2 DEF Submit, TypeOK, OpsTypeOK, TaskTypeOK, taskVars, opsVars, End
  <1>3. CASE OpsRecv
    BY <1>3, OpsHead
       DEF OpsRecv, AskTracker, TypeOK, OpsTypeOK, TaskTypeOK,
           taskVars, opsVars, End
  <1>4. CASE OpsSpawn
    BY <1>4 DEF OpsSpawn, TypeOK, OpsTypeOK, TaskTypeOK, taskVars, opsVars, End
  <1>5. CASE OpsReject
    BY <1>5 DEF OpsReject, TypeOK, OpsTypeOK, TaskTypeOK, taskVars, opsVars, End
  <1>6. CASE OpsEnd
    BY <1>6 DEF OpsEnd, TypeOK, OpsTypeOK, TaskTypeOK, taskVars, opsVars, End
  <1>7. CASE OpsFinish
    BY <1>7 DEF OpsFinish, TypeOK, OpsTypeOK, TaskTypeOK, taskVars, opsVars, End
  <1>8. ASSUME NEW r \in Requests, TaskStarts(r)
       PROVE  OneIsAdded'
    BY <1>8 DEF TaskStarts, TypeOK, OpsTypeOK, TaskTypeOK, taskVars, opsVars, End
  <1>9. ASSUME NEW r \in Requests, NEW result \in Outcomes, HandlerReturns(r, result)
       PROVE  OneIsAdded'
    BY <1>9
       DEF HandlerReturns, TypeOK, OpsTypeOK, TaskTypeOK, taskVars, opsVars, End
  <1>10. ASSUME NEW r \in Requests, CancelAsks(r)
       PROVE  OneIsAdded'
    BY <1>10
       DEF CancelAsks, AskTracker, TypeOK, OpsTypeOK, TaskTypeOK,
           taskVars, opsVars, End
  <1>11. ASSUME NEW r \in Requests, CancelAnswered(r)
       PROVE  OneIsAdded'
    BY <1>11
       DEF CancelAnswered, TypeOK, OpsTypeOK, TaskTypeOK, taskVars, opsVars, End
  <1>12. ASSUME NEW r \in Requests, FinishChecks(r)
       PROVE  OneIsAdded'
    BY <1>12 DEF FinishChecks, TypeOK, OpsTypeOK, TaskTypeOK, taskVars, opsVars, End
  <1>13. ASSUME NEW r \in Requests, FinishLeaves(r)
       PROVE  OneIsAdded'
    BY <1>13
       DEF FinishLeaves, AskTracker, TypeOK, OpsTypeOK, TaskTypeOK,
           taskVars, opsVars, End
  <1>14. ASSUME NEW r \in Requests, FinishRemoved(r)
       PROVE  OneIsAdded'
    BY <1>14
       DEF FinishRemoved, TypeOK, OpsTypeOK, TaskTypeOK, taskVars, opsVars, End
  <1>15. ASSUME NEW r \in Requests, FinishEmits(r)
       PROVE  OneIsAdded'
    BY <1>15 DEF FinishEmits, TypeOK, OpsTypeOK, TaskTypeOK, taskVars, opsVars, End
  <1>16. ASSUME NEW r \in Requests, FinishConfirms(r)
       PROVE  OneIsAdded'
    BY <1>16
       DEF FinishConfirms, TypeOK, OpsTypeOK, TaskTypeOK, taskVars, opsVars, End
  <1>17. CASE TaskAborted
    BY <1>17
       DEF TaskAborted, LoseReplies, TypeOK, OpsTypeOK, TaskTypeOK,
           taskVars, opsVars, End
  <1> QED
    BY <1>1, <1>2, <1>3, <1>4, <1>5, <1>6, <1>7, <1>8, <1>9, <1>10, <1>11,
       <1>12, <1>13, <1>14, <1>15, <1>16, <1>17
    DEF Next, Client, OpsLoop, Handler, TaskStep, Tracker, SessionTask,
        opsVars, taskVars, tokenVars, trackerVars, replyVars, sessionVars,
        StopChecks, StopMarks, StopSends, StopReturns, DropSession,
        TrackerAdds, TrackerRemoves, TrackerMisses, TrackerFindsDone,
        TrackerCancels, TrackerConfirms, TrackerCancelAll,
        CancelAllVisits, CancelAllProceeds, CancelAllEnds,
        TrackerShutdown, StateShutdown, StateFails, LoopsJoined,
        Watchdog, LoseReplies, SendEnd, TrackerHas

\* A request is queued once and taken once.
LEMMA FreshStep ==
    ASSUME IInv, TypeOK', Next
    PROVE  QueuedIsFresh'
  <1> USE DEF IInv, QueuedIsFresh
  <1>1. ASSUME UNCHANGED <<rxOps, task>>
        PROVE  QueuedIsFresh'
    BY <1>1
  <1>2. ASSUME NEW r \in Requests, Submit(r)
       PROVE  QueuedIsFresh'
    <2>1. CASE OpsOpen
      <3>1. /\ rxOps' = Append(rxOps, r) /\ task[r] = "idle" /\ r # End
            /\ task' = [task EXCEPT ![r] = "queued"]
        BY <1>2, <2>1, ConstantsAssumption DEF Submit, End
      <3>2. \A n \in 1..Len(rxOps') :
              \/ n \in 1..Len(rxOps) /\ rxOps'[n] = rxOps[n]
              \/ n = Len(rxOps) + 1 /\ rxOps'[n] = r
        BY <3>1, OpsAppend
      <3>3. \A n \in 1..Len(rxOps) : rxOps[n] # r
        BY <3>1
      <3>4. QED
        BY <3>1, <3>2, <3>3 DEF TypeOK, TaskTypeOK
    <2>2. CASE ~OpsOpen
      <3>1. /\ rxOps' = rxOps /\ task[r] = "idle"
            /\ task' = [task EXCEPT ![r] = "refused"]
        BY <1>2, <2>2 DEF Submit
      <3>2. \A n \in 1..Len(rxOps) : rxOps[n] # End =>
              rxOps[n] # r /\ rxOps[n] \in Requests
        BY <3>1, LenProperties DEF TypeOK, OpsTypeOK
      <3>3. QED
        BY <3>1, <3>2 DEF TypeOK, TaskTypeOK
    <2>3. QED
      BY <2>1, <2>2
  <1>3. ASSUME NEW c \in Callers, StopSends(c)
       PROVE  QueuedIsFresh'
    BY <1>3, OpsAppend
       DEF StopSends, SendEnd, TypeOK, OpsTypeOK, TaskTypeOK, taskVars,
           opsVars, End
  <1>4. CASE DropSession
    <2>1. task' = task /\ (rxOps' = rxOps \/ rxOps' = Append(rxOps, End))
      BY <1>4 DEF DropSession, SendEnd, taskVars
    <2>2. \A n \in 1..Len(rxOps') :
            \/ n \in 1..Len(rxOps) /\ rxOps'[n] = rxOps[n]
            \/ rxOps'[n] = End
      BY <2>1, OpsAppend
    <2>3. QED
      BY <2>1, <2>2
  <1>5. CASE OpsRecv
    BY <1>5, OpsHead, ConstantsAssumption
       DEF OpsRecv, AskTracker, TypeOK, OpsTypeOK, TaskTypeOK,
           taskVars, opsVars, End
  <1>6. CASE OpsSpawn
    BY <1>6
       DEF OpsSpawn, OneIsAdded, TypeOK, OpsTypeOK, TaskTypeOK,
           taskVars, opsVars, End
  <1>7. CASE OpsReject
    BY <1>7
       DEF OpsReject, OneIsAdded, TypeOK, OpsTypeOK, TaskTypeOK,
           taskVars, opsVars, End
  <1>8. CASE OpsEnd
    <2>1. task' = task /\ rxOps' = Tail(rxOps) /\ rxOps # <<>>
      BY <1>8 DEF OpsEnd, taskVars
    <2>2. /\ Len(rxOps) \in Nat \ {0} /\ Len(rxOps') = Len(rxOps) - 1
          /\ \A n \in 1..Len(rxOps') : rxOps'[n] = rxOps[n + 1]
      BY <2>1, OpsHead
    <2>3. QED
      BY <2>1, <2>2
  <1>9. CASE OpsFinish
    BY <1>9 DEF OpsFinish, TypeOK, OpsTypeOK, TaskTypeOK, taskVars, opsVars, End
  <1>10. ASSUME NEW r \in Requests, TaskStarts(r)
       PROVE  QueuedIsFresh'
    BY <1>10 DEF TaskStarts, TypeOK, OpsTypeOK, TaskTypeOK, taskVars, opsVars, End
  <1>11. ASSUME NEW r \in Requests, NEW result \in Outcomes, HandlerReturns(r, result)
       PROVE  QueuedIsFresh'
    BY <1>11
       DEF HandlerReturns, TypeOK, OpsTypeOK, TaskTypeOK, taskVars, opsVars, End
  <1>12. ASSUME NEW r \in Requests, CancelAsks(r)
       PROVE  QueuedIsFresh'
    BY <1>12
       DEF CancelAsks, AskTracker, TypeOK, OpsTypeOK, TaskTypeOK,
           taskVars, opsVars, End
  <1>13. ASSUME NEW r \in Requests, CancelAnswered(r)
       PROVE  QueuedIsFresh'
    BY <1>13
       DEF CancelAnswered, TypeOK, OpsTypeOK, TaskTypeOK, taskVars, opsVars, End
  <1>14. ASSUME NEW r \in Requests, FinishChecks(r)
       PROVE  QueuedIsFresh'
    BY <1>14 DEF FinishChecks, TypeOK, OpsTypeOK, TaskTypeOK, taskVars, opsVars, End
  <1>15. ASSUME NEW r \in Requests, FinishLeaves(r)
       PROVE  QueuedIsFresh'
    BY <1>15
       DEF FinishLeaves, AskTracker, TypeOK, OpsTypeOK, TaskTypeOK,
           taskVars, opsVars, End
  <1>16. ASSUME NEW r \in Requests, FinishRemoved(r)
       PROVE  QueuedIsFresh'
    BY <1>16
       DEF FinishRemoved, TypeOK, OpsTypeOK, TaskTypeOK, taskVars, opsVars, End
  <1>17. ASSUME NEW r \in Requests, FinishEmits(r)
       PROVE  QueuedIsFresh'
    BY <1>17 DEF FinishEmits, TypeOK, OpsTypeOK, TaskTypeOK, taskVars, opsVars, End
  <1>18. ASSUME NEW r \in Requests, FinishConfirms(r)
       PROVE  QueuedIsFresh'
    BY <1>18
       DEF FinishConfirms, TypeOK, OpsTypeOK, TaskTypeOK, taskVars, opsVars, End
  <1>19. CASE StateFails
    BY <1>19, OpsAppend
       DEF StateFails, SendEnd, TypeOK, OpsTypeOK, TaskTypeOK,
           taskVars, opsVars, End
  <1>20. CASE TaskAborted
    BY <1>20
       DEF TaskAborted, LoseReplies, TypeOK, OpsTypeOK, TaskTypeOK,
           taskVars, opsVars, End
  <1> QED
    BY <1>1, <1>2, <1>3, <1>4, <1>5, <1>6, <1>7, <1>8, <1>9, <1>10, <1>11,
       <1>12, <1>13, <1>14, <1>15, <1>16, <1>17, <1>18, <1>19, <1>20
    DEF Next, Client, OpsLoop, Handler, TaskStep, Tracker, SessionTask,
        opsVars, taskVars, tokenVars, trackerVars, replyVars, sessionVars,
        StopChecks, StopMarks, StopReturns, TrackerAdds,
        TrackerRemoves, TrackerMisses, TrackerFindsDone,
        TrackerCancels, TrackerConfirms, TrackerCancelAll,
        CancelAllVisits, CancelAllProceeds, CancelAllEnds,
        TrackerShutdown, StateShutdown, LoopsJoined, Watchdog,
        LoseReplies, TrackerHas

\* Nobody sends End before destroying is set.
LEMMA AnnouncedStep ==
    ASSUME IInv, TypeOK', Next
    PROVE  ShutdownIsAnnounced'
  <1> USE DEF IInv, ShutdownIsAnnounced, ShutdownOrder
  <1>1. ASSUME UNCHANGED <<rxOps, closing, destroying>>
        PROVE  ShutdownIsAnnounced'
    BY <1>1
  <1>2. ASSUME NEW r \in Requests, Submit(r)
       PROVE  ShutdownIsAnnounced'
    <2>1. /\ rxOps' = rxOps \/ rxOps' = Append(rxOps, r)
          /\ closing' = closing /\ destroying' = destroying /\ r # End
      BY <1>2, ConstantsAssumption DEF Submit, sessionVars, End
    <2>2. \A n \in 1..Len(rxOps') :
            rxOps'[n] = End => n \in 1..Len(rxOps) /\ rxOps[n] = End
      BY <2>1, OpsAppend
    <2>3. DOMAIN rxOps = 1..Len(rxOps) /\ DOMAIN rxOps' = 1..Len(rxOps')
      BY LenProperties DEF TypeOK, OpsTypeOK
    <2>4. QED
      BY <2>1, <2>2, <2>3
  <1>3. ASSUME NEW c \in Callers, StopMarks(c)
       PROVE  ShutdownIsAnnounced'
    BY <1>3 DEF StopMarks, TypeOK, OpsTypeOK, sessionVars
  <1>4. ASSUME NEW c \in Callers, StopSends(c)
       PROVE  ShutdownIsAnnounced'
    BY <1>4 DEF StopSends, SendEnd, TypeOK, OpsTypeOK, sessionVars
  <1>5. CASE DropSession
    BY <1>5 DEF DropSession, SendEnd, TypeOK, OpsTypeOK, sessionVars
  <1>6. CASE OpsRecv
    BY <1>6, OpsHead DEF OpsRecv, AskTracker, TypeOK, OpsTypeOK, sessionVars
  <1>7. CASE OpsEnd
    BY <1>7, OpsHead DEF OpsEnd, TypeOK, OpsTypeOK, sessionVars
  <1>8. CASE OpsFinish
    BY <1>8 DEF OpsFinish, TypeOK, OpsTypeOK, sessionVars
  <1>9. CASE StateFails
    BY <1>9 DEF StateFails, SendEnd, TypeOK, OpsTypeOK, sessionVars
  <1>10. CASE TaskAborted
    BY <1>10 DEF TaskAborted, LoseReplies, TypeOK, OpsTypeOK, sessionVars
  <1> QED
    BY <1>1, <1>2, <1>3, <1>4, <1>5, <1>6, <1>7, <1>8, <1>9, <1>10
    DEF Next, Client, OpsLoop, Handler, TaskStep, Tracker, SessionTask,
        opsVars, taskVars, tokenVars, trackerVars, replyVars, sessionVars,
        StopChecks, StopReturns, OpsSpawn, OpsReject, HandlerReturns,
        TaskStarts, CancelAsks, CancelAnswered, FinishChecks,
        FinishLeaves, FinishRemoved, FinishEmits, FinishConfirms,
        TrackerAdds, TrackerRemoves, TrackerMisses, TrackerFindsDone,
        TrackerCancels, TrackerConfirms, TrackerCancelAll,
        CancelAllVisits, CancelAllProceeds, CancelAllEnds,
        TrackerShutdown, StateShutdown, LoopsJoined, Watchdog,
        AskTracker, LoseReplies, TrackerHas

\* Entries are made under their operation's id only.
LEMMA ByIdStep ==
    ASSUME IInv, TypeOK', Next
    PROVE  TrackedById'
  <1> USE DEF IInv, TrackedById
  <1>1. ASSUME UNCHANGED tracked
        PROVE  TrackedById'
    BY <1>1
  <1>2. CASE TrackerAdds
    BY <1>2, TrackerHead, ConstantsAssumption
       DEF TrackerAdds, TrackerHas, TypeOK, TrackerTypeOK, NoId, trackerVars
  <1>3. CASE TrackerRemoves
    BY <1>3, TrackerHead, ConstantsAssumption
       DEF TrackerRemoves, TrackerHas, TypeOK, TrackerTypeOK, NoId, trackerVars
  <1>4. CASE TrackerMisses
    BY <1>4, TrackerHead, ConstantsAssumption
       DEF TrackerMisses, TrackerHas, TypeOK, TrackerTypeOK, NoId, trackerVars
  <1>5. CASE TrackerFindsDone
    BY <1>5, TrackerHead, ConstantsAssumption
       DEF TrackerFindsDone, TrackerHas, TypeOK, TrackerTypeOK, NoId,
           trackerVars
  <1>6. CASE TrackerCancels
    BY <1>6, TrackerHead, ConstantsAssumption
       DEF TrackerCancels, TrackerHas, TypeOK, TrackerTypeOK, NoId, trackerVars
  <1>7. CASE CancelAllEnds
    BY <1>7 DEF CancelAllEnds, TypeOK, TrackerTypeOK, NoId, trackerVars
  <1> QED
    BY <1>1, <1>2, <1>3, <1>4, <1>5, <1>6, <1>7
    DEF Next, Client, OpsLoop, Handler, TaskStep, Tracker, SessionTask,
        opsVars, taskVars, tokenVars, trackerVars, replyVars, sessionVars,
        Submit, StopChecks, StopMarks, StopSends, StopReturns,
        DropSession, OpsRecv, OpsSpawn, OpsReject, OpsEnd, OpsFinish,
        HandlerReturns, TaskStarts, CancelAsks, CancelAnswered,
        FinishChecks, FinishLeaves, FinishRemoved, FinishEmits,
        FinishConfirms, TrackerConfirms, TrackerCancelAll,
        CancelAllVisits, CancelAllProceeds, TrackerShutdown,
        StateShutdown, StateFails, LoopsJoined, Watchdog, TaskAborted,
        AskTracker, Emit, Enqueued, LoseReplies, SendEnd, TrackerHas

\* The shutdown proceeds in order.
LEMMA OrderStep ==
    ASSUME IInv, TypeOK', Next
    PROVE  ShutdownOrder'
  <1> USE DEF IInv, ShutdownOrder
  <1>1. ASSUME UNCHANGED <<opsLoop, tracker, closing, replyAll, destroyed,
                           forced, destroying, stateLoop, stop, tracked>>
        PROVE  ShutdownOrder'
    BY <1>1 DEF LoopsEnded
  <1>2. ASSUME NEW c \in Callers, StopChecks(c)
       PROVE  ShutdownOrder'
    BY <1>2
       DEF StopChecks, LoopsEnded, TypeOK, SessionTypeOK,
           TrackerTypeOK, opsVars, trackerVars, replyVars, sessionVars,
           OpsOpen, TrackerOpen, NoId, QueueIsSound, Awaited,
           TrackerWaits
  <1>3. ASSUME NEW c \in Callers, StopMarks(c)
       PROVE  ShutdownOrder'
    BY <1>3
       DEF StopMarks, LoopsEnded, TypeOK, SessionTypeOK, TrackerTypeOK,
           opsVars, trackerVars, replyVars, sessionVars, OpsOpen,
           TrackerOpen, NoId, QueueIsSound, Awaited, TrackerWaits
  <1>4. ASSUME NEW c \in Callers, StopSends(c)
       PROVE  ShutdownOrder'
    BY <1>4
       DEF StopSends, SendEnd, LoopsEnded, TypeOK, SessionTypeOK,
           TrackerTypeOK, opsVars, trackerVars, replyVars, sessionVars,
           OpsOpen, TrackerOpen, NoId, QueueIsSound, Awaited,
           TrackerWaits
  <1>5. ASSUME NEW c \in Callers, StopReturns(c)
       PROVE  ShutdownOrder'
    BY <1>5
       DEF StopReturns, LoopsEnded, TypeOK, SessionTypeOK,
           TrackerTypeOK, opsVars, trackerVars, replyVars, sessionVars,
           OpsOpen, TrackerOpen, NoId, QueueIsSound, Awaited,
           TrackerWaits
  <1>6. CASE DropSession
    BY <1>6
       DEF DropSession, SendEnd, LoopsEnded, TypeOK, SessionTypeOK,
           TrackerTypeOK, opsVars, trackerVars, replyVars, sessionVars,
           OpsOpen, TrackerOpen, NoId, QueueIsSound, Awaited,
           TrackerWaits
  <1>7. CASE OpsRecv
    BY <1>7
       DEF OpsRecv, AskTracker, LoopsEnded, TypeOK, SessionTypeOK,
           TrackerTypeOK, opsVars, trackerVars, replyVars, sessionVars,
           OpsOpen, TrackerOpen, NoId, QueueIsSound, Awaited,
           TrackerWaits
  <1>8. CASE OpsSpawn
    BY <1>8
       DEF OpsSpawn, LoopsEnded, TypeOK, SessionTypeOK, TrackerTypeOK,
           opsVars, trackerVars, replyVars, sessionVars, OpsOpen,
           TrackerOpen, NoId, QueueIsSound, Awaited, TrackerWaits
  <1>9. CASE OpsReject
    BY <1>9
       DEF OpsReject, Emit, LoopsEnded, TypeOK, SessionTypeOK,
           TrackerTypeOK, opsVars, trackerVars, replyVars, sessionVars,
           OpsOpen, TrackerOpen, NoId, QueueIsSound, Awaited,
           TrackerWaits
  <1>10. CASE OpsEnd
    BY <1>10
       DEF OpsEnd, LoopsEnded, TypeOK, SessionTypeOK, TrackerTypeOK,
           opsVars, trackerVars, replyVars, sessionVars, OpsOpen,
           TrackerOpen, NoId, QueueIsSound, Awaited, TrackerWaits
  <1>11. CASE OpsFinish
    BY <1>11
       DEF OpsFinish, LoopsEnded, TypeOK, SessionTypeOK, TrackerTypeOK,
           opsVars, trackerVars, replyVars, sessionVars, OpsOpen,
           TrackerOpen, NoId, QueueIsSound, Awaited, TrackerWaits
  <1>12. CASE TrackerAdds
    BY <1>12, TrackerHead
       DEF TrackerAdds, TrackerHas, LoopsEnded, TypeOK, SessionTypeOK,
           TrackerTypeOK, opsVars, trackerVars, replyVars, sessionVars,
           OpsOpen, TrackerOpen, NoId, QueueIsSound, Awaited,
           TrackerWaits
  <1>13. CASE TrackerRemoves
    BY <1>13, TrackerHead
       DEF TrackerRemoves, TrackerHas, LoopsEnded, TypeOK,
           SessionTypeOK, TrackerTypeOK, opsVars, trackerVars,
           replyVars, sessionVars, OpsOpen, TrackerOpen, NoId,
           QueueIsSound, Awaited, TrackerWaits
  <1>14. CASE TrackerMisses
    BY <1>14, TrackerHead
       DEF TrackerMisses, TrackerHas, LoopsEnded, TypeOK,
           SessionTypeOK, TrackerTypeOK, opsVars, trackerVars,
           replyVars, sessionVars, OpsOpen, TrackerOpen, NoId,
           QueueIsSound, Awaited, TrackerWaits
  <1>15. CASE TrackerFindsDone
    BY <1>15, TrackerHead
       DEF TrackerFindsDone, TrackerHas, LoopsEnded, TypeOK,
           SessionTypeOK, TrackerTypeOK, opsVars, trackerVars,
           replyVars, sessionVars, OpsOpen, TrackerOpen, NoId,
           QueueIsSound, Awaited, TrackerWaits
  <1>16. CASE TrackerCancels
    BY <1>16, TrackerHead
       DEF TrackerCancels, TrackerHas, LoopsEnded, TypeOK,
           SessionTypeOK, TrackerTypeOK, opsVars, trackerVars,
           replyVars, sessionVars, OpsOpen, TrackerOpen, NoId,
           QueueIsSound, Awaited, TrackerWaits
  <1>17. CASE TrackerConfirms
    BY <1>17, TrackerHead
       DEF TrackerConfirms, LoopsEnded, TypeOK, SessionTypeOK,
           TrackerTypeOK, opsVars, trackerVars, replyVars, sessionVars,
           OpsOpen, TrackerOpen, NoId, QueueIsSound, Awaited,
           TrackerWaits
  <1>18. CASE TrackerCancelAll
    BY <1>18, TrackerHead
       DEF TrackerCancelAll, TrackerHas, LoopsEnded, TypeOK,
           SessionTypeOK, TrackerTypeOK, opsVars, trackerVars,
           replyVars, sessionVars, OpsOpen, TrackerOpen, NoId,
           QueueIsSound, Awaited, TrackerWaits
  <1>19. ASSUME NEW u \in Uuids, CancelAllVisits(u)
       PROVE  ShutdownOrder'
    BY <1>19
       DEF CancelAllVisits, LoopsEnded, TypeOK, SessionTypeOK,
           TrackerTypeOK, opsVars, trackerVars, replyVars, sessionVars,
           OpsOpen, TrackerOpen, NoId, QueueIsSound, Awaited,
           TrackerWaits
  <1>20. CASE CancelAllProceeds
    BY <1>20
       DEF CancelAllProceeds, LoopsEnded, TypeOK, SessionTypeOK,
           TrackerTypeOK, opsVars, trackerVars, replyVars, sessionVars,
           OpsOpen, TrackerOpen, NoId, QueueIsSound, Awaited,
           TrackerWaits
  <1>21. CASE CancelAllEnds
    BY <1>21
       DEF CancelAllEnds, LoopsEnded, TypeOK, SessionTypeOK,
           TrackerTypeOK, opsVars, trackerVars, replyVars, sessionVars,
           OpsOpen, TrackerOpen, NoId, QueueIsSound, Awaited,
           TrackerWaits
  <1>22. CASE TrackerShutdown
    BY <1>22, TrackerHead
       DEF TrackerShutdown, LoseReplies, Enqueued, LoopsEnded, TypeOK,
           SessionTypeOK, TrackerTypeOK, opsVars, trackerVars,
           replyVars, sessionVars, OpsOpen, TrackerOpen, NoId,
           QueueIsSound, Awaited, TrackerWaits
  <1>23. CASE StateShutdown
    BY <1>23
       DEF StateShutdown, LoopsEnded, TypeOK, SessionTypeOK,
           TrackerTypeOK, opsVars, trackerVars, replyVars, sessionVars,
           OpsOpen, TrackerOpen, NoId, QueueIsSound, Awaited,
           TrackerWaits
  <1>24. CASE StateFails
    BY <1>24
       DEF StateFails, SendEnd, LoopsEnded, TypeOK, SessionTypeOK,
           TrackerTypeOK, opsVars, trackerVars, replyVars, sessionVars,
           OpsOpen, TrackerOpen, NoId, QueueIsSound, Awaited,
           TrackerWaits
  <1>25. CASE LoopsJoined
    BY <1>25
       DEF LoopsJoined, LoopsEnded, TypeOK, SessionTypeOK,
           TrackerTypeOK, opsVars, trackerVars, replyVars, sessionVars,
           OpsOpen, TrackerOpen, NoId, QueueIsSound, Awaited,
           TrackerWaits
  <1>26. CASE Watchdog
    BY <1>26
       DEF Watchdog, LoopsEnded, TypeOK, SessionTypeOK, TrackerTypeOK,
           opsVars, trackerVars, replyVars, sessionVars, OpsOpen,
           TrackerOpen, NoId, QueueIsSound, Awaited, TrackerWaits
  <1>27. CASE TaskAborted
    BY <1>27
       DEF TaskAborted, LoseReplies, Enqueued, LoopsEnded, TypeOK,
           SessionTypeOK, TrackerTypeOK, opsVars, trackerVars,
           replyVars, sessionVars, OpsOpen, TrackerOpen, NoId,
           QueueIsSound, Awaited, TrackerWaits
  <1> QED
    BY <1>1, <1>2, <1>3, <1>4, <1>5, <1>6, <1>7, <1>8, <1>9, <1>10, <1>11,
       <1>12, <1>13, <1>14, <1>15, <1>16, <1>17, <1>18, <1>19, <1>20,
       <1>21, <1>22, <1>23, <1>24, <1>25, <1>26, <1>27
    DEF Next, Client, OpsLoop, Handler, TaskStep, Tracker, SessionTask,
        opsVars, taskVars, tokenVars, trackerVars, replyVars, sessionVars,
        Submit, HandlerReturns, TaskStarts, CancelAsks,
        CancelAnswered, FinishChecks, FinishLeaves, FinishRemoved,
        FinishEmits, FinishConfirms, AskTracker, Emit

\* The tracker waits for an operation it has told to stop.
LEMMA WaitsStep ==
    ASSUME IInv, TypeOK', Next
    PROVE  TrackerWaits'
  <1> USE DEF IInv, TrackerWaits
  <1>1. ASSUME UNCHANGED <<tracker, victim, asker, toCancel, tracked, canceler, done, task, reply, closing>>
        PROVE  TrackerWaits'
    BY <1>1 DEF Ids
  <1>2. ASSUME NEW r \in Requests, Submit(r)
       PROVE  TrackerWaits'
    BY <1>2
       DEF Submit, TypeOK, TaskTypeOK, TrackerTypeOK, opsVars,
           taskVars, tokenVars, trackerVars, replyVars, sessionVars,
           Ids, NoId, TrackedById, End
  <1>3. CASE OpsRecv
    BY <1>3, OpsHead
       DEF OpsRecv, AskTracker, QueuedIsFresh, TypeOK, TaskTypeOK,
           TrackerTypeOK, opsVars, taskVars, tokenVars, trackerVars,
           replyVars, sessionVars, Ids, NoId, TrackedById, End
  <1>4. CASE OpsSpawn
    BY <1>4
       DEF OpsSpawn, TypeOK, TaskTypeOK, TrackerTypeOK, opsVars,
           taskVars, tokenVars, trackerVars, replyVars, sessionVars,
           Ids, NoId, TrackedById, End
  <1>5. CASE OpsReject
    BY <1>5
       DEF OpsReject, Emit, TypeOK, TaskTypeOK, TrackerTypeOK, opsVars,
           taskVars, tokenVars, trackerVars, replyVars, sessionVars,
           Ids, NoId, TrackedById, End
  <1>6. CASE OpsEnd
    BY <1>6
       DEF OpsEnd, TypeOK, TaskTypeOK, TrackerTypeOK, opsVars,
           taskVars, tokenVars, trackerVars, replyVars, sessionVars,
           Ids, NoId, TrackedById, End
  <1>7. CASE OpsFinish
    BY <1>7
       DEF OpsFinish, TypeOK, TaskTypeOK, TrackerTypeOK, opsVars,
           taskVars, tokenVars, trackerVars, replyVars, sessionVars,
           Ids, NoId, TrackedById, End
  <1>8. ASSUME NEW r \in Requests, NEW result \in Outcomes, HandlerReturns(r, result)
       PROVE  TrackerWaits'
    BY <1>8
       DEF HandlerReturns, TypeOK, TaskTypeOK, TrackerTypeOK, opsVars,
           taskVars, tokenVars, trackerVars, replyVars, sessionVars,
           Ids, NoId, TrackedById, End
  <1>9. ASSUME NEW r \in Requests, TaskStarts(r)
       PROVE  TrackerWaits'
    BY <1>9
       DEF TaskStarts, Emit, TypeOK, TaskTypeOK, TrackerTypeOK,
           opsVars, taskVars, tokenVars, trackerVars, replyVars,
           sessionVars, Ids, NoId, TrackedById, End
  <1>10. ASSUME NEW r \in Requests, CancelAsks(r)
       PROVE  TrackerWaits'
    BY <1>10
       DEF CancelAsks, AskTracker, TypeOK, TaskTypeOK, TrackerTypeOK,
           opsVars, taskVars, tokenVars, trackerVars, replyVars,
           sessionVars, Ids, NoId, TrackedById, End
  <1>11. ASSUME NEW r \in Requests, CancelAnswered(r)
       PROVE  TrackerWaits'
    BY <1>11
       DEF CancelAnswered, TypeOK, TaskTypeOK, TrackerTypeOK, opsVars,
           taskVars, tokenVars, trackerVars, replyVars, sessionVars,
           Ids, NoId, TrackedById, End
  <1>12. ASSUME NEW r \in Requests, FinishChecks(r)
       PROVE  TrackerWaits'
    BY <1>12
       DEF FinishChecks, TypeOK, TaskTypeOK, TrackerTypeOK, opsVars,
           taskVars, tokenVars, trackerVars, replyVars, sessionVars,
           Ids, NoId, TrackedById, End
  <1>13. ASSUME NEW r \in Requests, FinishLeaves(r)
       PROVE  TrackerWaits'
    BY <1>13
       DEF FinishLeaves, AskTracker, TypeOK, TaskTypeOK, TrackerTypeOK,
           opsVars, taskVars, tokenVars, trackerVars, replyVars,
           sessionVars, Ids, NoId, TrackedById, End
  <1>14. ASSUME NEW r \in Requests, FinishRemoved(r)
       PROVE  TrackerWaits'
    BY <1>14
       DEF FinishRemoved, TypeOK, TaskTypeOK, TrackerTypeOK, opsVars,
           taskVars, tokenVars, trackerVars, replyVars, sessionVars,
           Ids, NoId, TrackedById, End
  <1>15. ASSUME NEW r \in Requests, FinishEmits(r)
       PROVE  TrackerWaits'
    BY <1>15
       DEF FinishEmits, Emit, TypeOK, TaskTypeOK, TrackerTypeOK,
           opsVars, taskVars, tokenVars, trackerVars, replyVars,
           sessionVars, Ids, NoId, TrackedById, End
  <1>16. ASSUME NEW r \in Requests, FinishConfirms(r)
       PROVE  TrackerWaits'
    BY <1>16
       DEF FinishConfirms, TypeOK, TaskTypeOK, TrackerTypeOK, opsVars,
           taskVars, tokenVars, trackerVars, replyVars, sessionVars,
           Ids, NoId, TrackedById, End
  <1>17. CASE TrackerAdds
    BY <1>17, TrackerHead
       DEF TrackerAdds, TrackerHas, TypeOK, TaskTypeOK, TrackerTypeOK,
           opsVars, taskVars, tokenVars, trackerVars, replyVars,
           sessionVars, Ids, NoId, TrackedById, End
  <1>18. CASE TrackerRemoves
    BY <1>18, TrackerHead
       DEF TrackerRemoves, TrackerHas, TypeOK, TaskTypeOK,
           TrackerTypeOK, opsVars, taskVars, tokenVars, trackerVars,
           replyVars, sessionVars, Ids, NoId, TrackedById, End
  <1>19. CASE TrackerMisses
    BY <1>19, TrackerHead
       DEF TrackerMisses, TrackerHas, TypeOK, TaskTypeOK,
           TrackerTypeOK, opsVars, taskVars, tokenVars, trackerVars,
           replyVars, sessionVars, Ids, NoId, TrackedById, End
  <1>20. CASE TrackerFindsDone
    BY <1>20, TrackerHead
       DEF TrackerFindsDone, TrackerHas, TypeOK, TaskTypeOK,
           TrackerTypeOK, opsVars, taskVars, tokenVars, trackerVars,
           replyVars, sessionVars, Ids, NoId, TrackedById, End
  <1>21. CASE TrackerCancels
    BY <1>21, TrackerHead, ConstantsAssumption
       DEF TrackerCancels, TrackerHas, QueueIsSound, Awaited, TypeOK,
           TaskTypeOK, TrackerTypeOK, opsVars, taskVars, tokenVars,
           trackerVars, replyVars, sessionVars, Ids, NoId, TrackedById,
           End
  <1>22. CASE TrackerConfirms
    BY <1>22, TrackerHead
       DEF TrackerConfirms, TypeOK, TaskTypeOK, TrackerTypeOK, opsVars,
           taskVars, tokenVars, trackerVars, replyVars, sessionVars,
           Ids, NoId, TrackedById, End
  <1>23. CASE TrackerCancelAll
    BY <1>23, TrackerHead
       DEF TrackerCancelAll, TrackerHas, QueueIsSound, Awaited, TypeOK,
           TaskTypeOK, TrackerTypeOK, opsVars, taskVars, tokenVars,
           trackerVars, replyVars, sessionVars, Ids, NoId, TrackedById,
           End
  <1>24. ASSUME NEW u \in Uuids, CancelAllVisits(u)
       PROVE  TrackerWaits'
    BY <1>24
       DEF CancelAllVisits, TypeOK, TaskTypeOK, TrackerTypeOK, opsVars,
           taskVars, tokenVars, trackerVars, replyVars, sessionVars,
           Ids, NoId, TrackedById, End
  <1>25. CASE CancelAllProceeds
    BY <1>25
       DEF CancelAllProceeds, TypeOK, TaskTypeOK, TrackerTypeOK,
           opsVars, taskVars, tokenVars, trackerVars, replyVars,
           sessionVars, Ids, NoId, TrackedById, End
  <1>26. CASE CancelAllEnds
    BY <1>26
       DEF CancelAllEnds, TypeOK, TaskTypeOK, TrackerTypeOK, opsVars,
           taskVars, tokenVars, trackerVars, replyVars, sessionVars,
           Ids, NoId, TrackedById, End
  <1>27. CASE TrackerShutdown
    BY <1>27, TrackerHead
       DEF TrackerShutdown, LoseReplies, Enqueued, TypeOK, TaskTypeOK,
           TrackerTypeOK, opsVars, taskVars, tokenVars, trackerVars,
           replyVars, sessionVars, Ids, NoId, TrackedById, End
  <1>28. CASE TaskAborted
    BY <1>28
       DEF TaskAborted, LoseReplies, Enqueued, TypeOK, TaskTypeOK,
           TrackerTypeOK, opsVars, taskVars, tokenVars, trackerVars,
           replyVars, sessionVars, Ids, NoId, TrackedById, End
  <1> QED
    BY <1>1, <1>2, <1>3, <1>4, <1>5, <1>6, <1>7, <1>8, <1>9, <1>10, <1>11,
       <1>12, <1>13, <1>14, <1>15, <1>16, <1>17, <1>18, <1>19, <1>20,
       <1>21, <1>22, <1>23, <1>24, <1>25, <1>26, <1>27, <1>28
    DEF Next, Client, OpsLoop, Handler, TaskStep, Tracker, SessionTask,
        opsVars, taskVars, tokenVars, trackerVars, replyVars, sessionVars,
        StopChecks, StopMarks, StopSends, StopReturns, DropSession,
        StateShutdown, StateFails, LoopsJoined, Watchdog, SendEnd

\* Each command in the tracker's channel is awaited.
LEMMA QueueStep ==
    ASSUME IInv, TypeOK', Next
    PROVE  QueueIsSound'
  <1> USE DEF IInv
  <1>1. ASSUME UNCHANGED <<rxTracker, task, reply, opsLoop, closing, tracker, asker>>
        PROVE  QueueIsSound'
    BY <1>1 DEF QueueIsSound, Awaited
  <1>2. ASSUME NEW r \in Requests, Submit(r)
       PROVE  QueueIsSound'
    <2>1. ASSUME NEW m \in Commands, Awaited(m)
          PROVE  Awaited(m)'
      BY <2>1, <1>2, ConstantsAssumption
         DEF Submit, TypeOK, TaskTypeOK, TrackerTypeOK, opsVars,
             taskVars, trackerVars, replyVars, Awaited, Commands
    <2>2. UNCHANGED rxTracker
      BY <1>2 DEF Submit, trackerVars
    <2>3. QED
      BY <2>1, <2>2, QueueKeeps
  <1>3. CASE OpsRecv
    <2>1. PICK r \in Requests : r = Head(rxOps) /\ task[r] = "queued" /\ r # None
      BY <1>3, OpsHead DEF OpsRecv, QueuedIsFresh, End
    <2>2. /\ task' = [task EXCEPT ![r] = "adding"]
          /\ opsLoop' = "adding"
          /\ AskTracker("Add", r)
          /\ UNCHANGED <<closing, tracker, asker>>
          /\ opsLoop = "recv"
      BY <1>3, <2>1 DEF OpsRecv
    <2>3. reply[r] = "none"
      BY <2>1 DEF AnswersAreAwaited
    <2>4. ASSUME NEW m \in Commands, Awaited(m)
          PROVE  Awaited(m)' /\ m.req # r
      BY <2>1, <2>2, <2>4
         DEF AskTracker, Awaited, Commands, TypeOK, TaskTypeOK, TrackerTypeOK
    <2>5. CASE TrackerOpen
      <3> DEFINE c == [cmd |-> "Add", req |-> r]
      <3>1. c \in Commands /\ rxTracker' = Append(rxTracker, c)
        BY <2>2, <2>5 DEF AskTracker, Commands
      <3>2. task'[r] = "adding" /\ reply'[r] = "none"
        BY <2>2, <2>3, <2>5 DEF AskTracker, TypeOK, TaskTypeOK
      <3>3. tracker = "awaitDone" => r # asker
        BY <2>1 DEF TrackerWaits
      <3>4. Awaited(c)'
        BY <2>2, <3>2, <3>3 DEF Awaited
      <3>5. QED
        BY <2>4, <3>1, <3>4, QueueGrows
    <2>6. CASE ~TrackerOpen
      <3>1. UNCHANGED rxTracker
        BY <2>2, <2>6 DEF AskTracker
      <3>2. QED
        BY <2>4, <3>1, QueueKeeps
    <2>7. QED
      BY <2>5, <2>6
  <1>4. CASE OpsSpawn
    <2>1. ASSUME NEW m \in Commands, Awaited(m)
          PROVE  Awaited(m)'
      BY <2>1, <1>4
         DEF OpsSpawn, OneIsAdded, TypeOK, TaskTypeOK, TrackerTypeOK,
             opsVars, taskVars, trackerVars, replyVars, Awaited,
             Commands
    <2>2. UNCHANGED rxTracker
      BY <1>4 DEF OpsSpawn, trackerVars
    <2>3. QED
      BY <2>1, <2>2, QueueKeeps
  <1>5. CASE OpsReject
    <2>1. ASSUME NEW m \in Commands, Awaited(m)
          PROVE  Awaited(m)'
      BY <2>1, <1>5
         DEF OpsReject, OneIsAdded, TypeOK, TaskTypeOK,
             TrackerTypeOK, opsVars, taskVars, trackerVars,
             replyVars, Awaited, Commands
    <2>2. UNCHANGED rxTracker
      BY <1>5 DEF OpsReject, trackerVars
    <2>3. QED
      BY <2>1, <2>2, QueueKeeps
  <1>6. CASE OpsEnd
    <2>1. CASE TrackerOpen
      <3> DEFINE c == [cmd |-> "CancelAll", req |-> None]
      <3>1. c \in Commands /\ rxTracker' = Append(rxTracker, c)
        BY <2>1, <1>6, LoopCommands, ConstantsAssumption DEF OpsEnd, Commands
      <3>2. Awaited(c)'
        BY <2>1, <1>6, LoopCommands, ConstantsAssumption
           DEF OpsEnd, TypeOK, TaskTypeOK, TrackerTypeOK, opsVars,
               taskVars, trackerVars, replyVars, Awaited, Commands,
               TrackerOpen, AnswersAreAwaited, QueuedIsFresh,
               ShutdownOrder, TrackerWaits
      <3>3. ASSUME NEW m \in Commands, Awaited(m)
            PROVE  Awaited(m)' /\ (m.req # c.req \/ c.req = None)
        BY <2>1, <3>3, <1>6, LoopCommands, ConstantsAssumption
           DEF OpsEnd, TypeOK, TaskTypeOK, TrackerTypeOK, opsVars,
               taskVars, trackerVars, replyVars, Awaited, Commands,
               QueuedIsFresh
      <3>4. QED
        BY <3>1, <3>2, <3>3, QueueGrows
    <2>2. CASE ~TrackerOpen
      <3>1. ASSUME NEW m \in Commands, Awaited(m)
            PROVE  Awaited(m)'
        BY <2>2, <3>1, <1>6, LoopCommands, ConstantsAssumption
           DEF OpsEnd, TypeOK, TaskTypeOK, TrackerTypeOK, opsVars,
               taskVars, trackerVars, replyVars, Awaited, Commands,
               QueuedIsFresh
      <3>2. UNCHANGED rxTracker
        BY <2>2, <1>6 DEF OpsEnd
      <3>3. QED
        BY <3>1, <3>2, QueueKeeps
    <2>3. QED
      BY <2>1, <2>2
  <1>7. CASE OpsFinish
    <2>1. CASE TrackerOpen
      <3> DEFINE c == [cmd |-> "Shutdown", req |-> None]
      <3>1. c \in Commands /\ rxTracker' = Append(rxTracker, c)
        BY <2>1, <1>7, LoopCommands, ConstantsAssumption DEF OpsFinish, Commands
      <3>2. Awaited(c)'
        BY <2>1, <1>7, LoopCommands, ConstantsAssumption
           DEF OpsFinish, TypeOK, TaskTypeOK, TrackerTypeOK,
               opsVars, taskVars, trackerVars, replyVars, Awaited,
               Commands, TrackerOpen, AnswersAreAwaited,
               QueuedIsFresh, ShutdownOrder, TrackerWaits
      <3>3. ASSUME NEW m \in Commands, Awaited(m)
            PROVE  Awaited(m)' /\ (m.req # c.req \/ c.req = None)
        BY <2>1, <3>3, <1>7, LoopCommands, ConstantsAssumption
           DEF OpsFinish, TypeOK, TaskTypeOK, TrackerTypeOK,
               opsVars, taskVars, trackerVars, replyVars, Awaited,
               Commands, QueuedIsFresh
      <3>4. QED
        BY <3>1, <3>2, <3>3, QueueGrows
    <2>2. CASE ~TrackerOpen
      <3>1. ASSUME NEW m \in Commands, Awaited(m)
            PROVE  Awaited(m)'
        BY <2>2, <3>1, <1>7, LoopCommands, ConstantsAssumption
           DEF OpsFinish, TypeOK, TaskTypeOK, TrackerTypeOK,
               opsVars, taskVars, trackerVars, replyVars, Awaited,
               Commands, QueuedIsFresh
      <3>2. UNCHANGED rxTracker
        BY <2>2, <1>7 DEF OpsFinish
      <3>3. QED
        BY <3>1, <3>2, QueueKeeps
    <2>3. QED
      BY <2>1, <2>2
  <1>8. ASSUME NEW r \in Requests, NEW result \in Outcomes, HandlerReturns(r, result)
       PROVE  QueueIsSound'
    <2>1. ASSUME NEW m \in Commands, Awaited(m)
          PROVE  Awaited(m)'
      BY <2>1, <1>8
         DEF HandlerReturns, TypeOK, TaskTypeOK, TrackerTypeOK,
             opsVars, taskVars, trackerVars, replyVars, Awaited,
             Commands
    <2>2. UNCHANGED rxTracker
      BY <1>8 DEF HandlerReturns, trackerVars
    <2>3. QED
      BY <2>1, <2>2, QueueKeeps
  <1>9. ASSUME NEW r \in Requests, TaskStarts(r)
       PROVE  QueueIsSound'
    <2>1. ASSUME NEW m \in Commands, Awaited(m)
          PROVE  Awaited(m)'
      BY <2>1, <1>9
         DEF TaskStarts, TypeOK, TaskTypeOK, TrackerTypeOK, opsVars,
             taskVars, trackerVars, replyVars, Awaited, Commands
    <2>2. UNCHANGED rxTracker
      BY <1>9 DEF TaskStarts, trackerVars
    <2>3. QED
      BY <2>1, <2>2, QueueKeeps
  <1>10. ASSUME NEW r \in Requests, CancelAsks(r)
       PROVE  QueueIsSound'
    <2>1. CASE TrackerOpen
      <3> DEFINE c == [cmd |-> "Cancel", req |-> r]
      <3>1. c \in Commands /\ rxTracker' = Append(rxTracker, c)
        BY <2>1, <1>10, ConstantsAssumption DEF CancelAsks, AskTracker, Commands
      <3>2. Awaited(c)'
        BY <2>1, <1>10, ConstantsAssumption
           DEF CancelAsks, AskTracker, TypeOK, TaskTypeOK,
               TrackerTypeOK, opsVars, taskVars, trackerVars,
               replyVars, Awaited, Commands, TrackerOpen,
               AnswersAreAwaited, QueuedIsFresh, ShutdownOrder,
               TrackerWaits
      <3>3. ASSUME NEW m \in Commands, Awaited(m)
            PROVE  Awaited(m)' /\ (m.req # c.req \/ c.req = None)
        BY <2>1, <3>3, <1>10, ConstantsAssumption
           DEF CancelAsks, AskTracker, TypeOK, TaskTypeOK,
               TrackerTypeOK, opsVars, taskVars, trackerVars,
               replyVars, Awaited, Commands, QueuedIsFresh
      <3>4. QED
        BY <3>1, <3>2, <3>3, QueueGrows
    <2>2. CASE ~TrackerOpen
      <3>1. ASSUME NEW m \in Commands, Awaited(m)
            PROVE  Awaited(m)'
        BY <2>2, <3>1, <1>10, ConstantsAssumption
           DEF CancelAsks, AskTracker, TypeOK, TaskTypeOK,
               TrackerTypeOK, opsVars, taskVars, trackerVars,
               replyVars, Awaited, Commands, QueuedIsFresh
      <3>2. UNCHANGED rxTracker
        BY <2>2, <1>10 DEF CancelAsks, AskTracker
      <3>3. QED
        BY <3>1, <3>2, QueueKeeps
    <2>3. QED
      BY <2>1, <2>2
  <1>11. ASSUME NEW r \in Requests, CancelAnswered(r)
       PROVE  QueueIsSound'
    <2>1. ASSUME NEW m \in Commands, Awaited(m)
          PROVE  Awaited(m)'
      BY <2>1, <1>11
         DEF CancelAnswered, TypeOK, TaskTypeOK, TrackerTypeOK,
             opsVars, taskVars, trackerVars, replyVars, Awaited,
             Commands
    <2>2. UNCHANGED rxTracker
      BY <1>11 DEF CancelAnswered, trackerVars
    <2>3. QED
      BY <2>1, <2>2, QueueKeeps
  <1>12. ASSUME NEW r \in Requests, FinishChecks(r)
       PROVE  QueueIsSound'
    <2>1. ASSUME NEW m \in Commands, Awaited(m)
          PROVE  Awaited(m)'
      BY <2>1, <1>12
         DEF FinishChecks, TypeOK, TaskTypeOK, TrackerTypeOK,
             opsVars, taskVars, trackerVars, replyVars, Awaited,
             Commands
    <2>2. UNCHANGED rxTracker
      BY <1>12 DEF FinishChecks, trackerVars
    <2>3. QED
      BY <2>1, <2>2, QueueKeeps
  <1>13. ASSUME NEW r \in Requests, FinishLeaves(r)
       PROVE  QueueIsSound'
    <2>1. CASE TrackerOpen
      <3> DEFINE c == [cmd |-> "Remove", req |-> r]
      <3>1. c \in Commands /\ rxTracker' = Append(rxTracker, c)
        BY <2>1, <1>13, ConstantsAssumption DEF FinishLeaves, AskTracker, Commands
      <3>2. Awaited(c)'
        BY <2>1, <1>13, ConstantsAssumption
           DEF FinishLeaves, AskTracker, TypeOK, TaskTypeOK,
               TrackerTypeOK, opsVars, taskVars, trackerVars,
               replyVars, Awaited, Commands, TrackerOpen,
               AnswersAreAwaited, QueuedIsFresh, ShutdownOrder,
               TrackerWaits
      <3>3. ASSUME NEW m \in Commands, Awaited(m)
            PROVE  Awaited(m)' /\ (m.req # c.req \/ c.req = None)
        BY <2>1, <3>3, <1>13, ConstantsAssumption
           DEF FinishLeaves, AskTracker, TypeOK, TaskTypeOK,
               TrackerTypeOK, opsVars, taskVars, trackerVars,
               replyVars, Awaited, Commands, QueuedIsFresh
      <3>4. QED
        BY <3>1, <3>2, <3>3, QueueGrows
    <2>2. CASE ~TrackerOpen
      <3>1. ASSUME NEW m \in Commands, Awaited(m)
            PROVE  Awaited(m)'
        BY <2>2, <3>1, <1>13, ConstantsAssumption
           DEF FinishLeaves, AskTracker, TypeOK, TaskTypeOK,
               TrackerTypeOK, opsVars, taskVars, trackerVars,
               replyVars, Awaited, Commands, QueuedIsFresh
      <3>2. UNCHANGED rxTracker
        BY <2>2, <1>13 DEF FinishLeaves, AskTracker
      <3>3. QED
        BY <3>1, <3>2, QueueKeeps
    <2>3. QED
      BY <2>1, <2>2
  <1>14. ASSUME NEW r \in Requests, FinishRemoved(r)
       PROVE  QueueIsSound'
    <2>1. ASSUME NEW m \in Commands, Awaited(m)
          PROVE  Awaited(m)'
      BY <2>1, <1>14
         DEF FinishRemoved, TypeOK, TaskTypeOK, TrackerTypeOK,
             opsVars, taskVars, trackerVars, replyVars, Awaited,
             Commands
    <2>2. UNCHANGED rxTracker
      BY <1>14 DEF FinishRemoved, trackerVars
    <2>3. QED
      BY <2>1, <2>2, QueueKeeps
  <1>15. ASSUME NEW r \in Requests, FinishEmits(r)
       PROVE  QueueIsSound'
    <2>1. ASSUME NEW m \in Commands, Awaited(m)
          PROVE  Awaited(m)'
      BY <2>1, <1>15
         DEF FinishEmits, TypeOK, TaskTypeOK, TrackerTypeOK, opsVars,
             taskVars, trackerVars, replyVars, Awaited, Commands
    <2>2. UNCHANGED rxTracker
      BY <1>15 DEF FinishEmits, trackerVars
    <2>3. QED
      BY <2>1, <2>2, QueueKeeps
  <1>16. ASSUME NEW r \in Requests, FinishConfirms(r)
       PROVE  QueueIsSound'
    <2>1. ASSUME NEW m \in Commands, Awaited(m)
          PROVE  Awaited(m)'
      BY <2>1, <1>16
         DEF FinishConfirms, TypeOK, TaskTypeOK, TrackerTypeOK,
             opsVars, taskVars, trackerVars, replyVars, Awaited,
             Commands
    <2>2. UNCHANGED rxTracker
      BY <1>16 DEF FinishConfirms, trackerVars
    <2>3. QED
      BY <2>1, <2>2, QueueKeeps
  <1>17. CASE TrackerAdds
    <2>1. ASSUME NEW m \in Commands, Awaited(m),
                 m.req # Head(rxTracker).req \/ m.req = None
          PROVE  Awaited(m)'
      BY <2>1, <1>17, TrackerHead, ConstantsAssumption
         DEF TrackerAdds, TypeOK, TaskTypeOK, TrackerTypeOK, opsVars,
             taskVars, trackerVars, replyVars, Awaited, Commands,
             TrackerHas, QueueIsSound
    <2>2. rxTracker # <<>> /\ rxTracker' = Tail(rxTracker)
      BY <1>17 DEF TrackerAdds, TrackerHas
    <2>3. QED
      BY <2>1, <2>2, QueueTakes
  <1>18. CASE TrackerRemoves
    <2>1. ASSUME NEW m \in Commands, Awaited(m),
                 m.req # Head(rxTracker).req \/ m.req = None
          PROVE  Awaited(m)'
      BY <2>1, <1>18, TrackerHead, ConstantsAssumption
         DEF TrackerRemoves, TypeOK, TaskTypeOK, TrackerTypeOK,
             opsVars, taskVars, trackerVars, replyVars, Awaited,
             Commands, TrackerHas, QueueIsSound
    <2>2. rxTracker # <<>> /\ rxTracker' = Tail(rxTracker)
      BY <1>18 DEF TrackerRemoves, TrackerHas
    <2>3. QED
      BY <2>1, <2>2, QueueTakes
  <1>19. CASE TrackerMisses
    <2>1. ASSUME NEW m \in Commands, Awaited(m),
                 m.req # Head(rxTracker).req \/ m.req = None
          PROVE  Awaited(m)'
      BY <2>1, <1>19, TrackerHead, ConstantsAssumption
         DEF TrackerMisses, TypeOK, TaskTypeOK, TrackerTypeOK,
             opsVars, taskVars, trackerVars, replyVars, Awaited,
             Commands, TrackerHas, QueueIsSound
    <2>2. rxTracker # <<>> /\ rxTracker' = Tail(rxTracker)
      BY <1>19 DEF TrackerMisses, TrackerHas
    <2>3. QED
      BY <2>1, <2>2, QueueTakes
  <1>20. CASE TrackerFindsDone
    <2>1. ASSUME NEW m \in Commands, Awaited(m),
                 m.req # Head(rxTracker).req \/ m.req = None
          PROVE  Awaited(m)'
      BY <2>1, <1>20, TrackerHead, ConstantsAssumption
         DEF TrackerFindsDone, TypeOK, TaskTypeOK, TrackerTypeOK,
             opsVars, taskVars, trackerVars, replyVars, Awaited,
             Commands, TrackerHas, QueueIsSound
    <2>2. rxTracker # <<>> /\ rxTracker' = Tail(rxTracker)
      BY <1>20 DEF TrackerFindsDone, TrackerHas
    <2>3. QED
      BY <2>1, <2>2, QueueTakes
  <1>21. CASE TrackerCancels
    <2>1. ASSUME NEW m \in Commands, Awaited(m),
                 m.req # Head(rxTracker).req \/ m.req = None
          PROVE  Awaited(m)'
      BY <2>1, <1>21, TrackerHead, ConstantsAssumption
         DEF TrackerCancels, TypeOK, TaskTypeOK, TrackerTypeOK,
             opsVars, taskVars, trackerVars, replyVars, Awaited,
             Commands, TrackerHas, QueueIsSound
    <2>2. rxTracker # <<>> /\ rxTracker' = Tail(rxTracker)
      BY <1>21 DEF TrackerCancels, TrackerHas
    <2>3. QED
      BY <2>1, <2>2, QueueTakes
  <1>22. CASE TrackerConfirms
    <2>1. ASSUME NEW m \in Commands, Awaited(m)
          PROVE  Awaited(m)'
      BY <2>1, <1>22, ConstantsAssumption
         DEF TrackerConfirms, TrackerWaits, TypeOK, TaskTypeOK,
             TrackerTypeOK, opsVars, taskVars, trackerVars,
             replyVars, Awaited, Commands
    <2>2. UNCHANGED rxTracker
      BY <1>22 DEF TrackerConfirms, trackerVars
    <2>3. QED
      BY <2>1, <2>2, QueueKeeps
  <1>23. CASE TrackerCancelAll
    <2>1. ASSUME NEW m \in Commands, Awaited(m),
                 m.req # Head(rxTracker).req \/ m.req = None
          PROVE  Awaited(m)'
      BY <2>1, <1>23, TrackerHead, ConstantsAssumption
         DEF TrackerCancelAll, TypeOK, TaskTypeOK, TrackerTypeOK,
             opsVars, taskVars, trackerVars, replyVars, Awaited,
             Commands, TrackerHas, QueueIsSound
    <2>2. rxTracker # <<>> /\ rxTracker' = Tail(rxTracker)
      BY <1>23 DEF TrackerCancelAll, TrackerHas
    <2>3. QED
      BY <2>1, <2>2, QueueTakes
  <1>24. ASSUME NEW u \in Uuids, CancelAllVisits(u)
       PROVE  QueueIsSound'
    <2>1. ASSUME NEW m \in Commands, Awaited(m)
          PROVE  Awaited(m)'
      BY <2>1, <1>24
         DEF CancelAllVisits, TypeOK, TaskTypeOK, TrackerTypeOK,
             opsVars, taskVars, trackerVars, replyVars, Awaited,
             Commands
    <2>2. UNCHANGED rxTracker
      BY <1>24 DEF CancelAllVisits, trackerVars
    <2>3. QED
      BY <2>1, <2>2, QueueKeeps
  <1>25. CASE CancelAllProceeds
    <2>1. ASSUME NEW m \in Commands, Awaited(m)
          PROVE  Awaited(m)'
      BY <2>1, <1>25
         DEF CancelAllProceeds, TypeOK, TaskTypeOK, TrackerTypeOK,
             opsVars, taskVars, trackerVars, replyVars, Awaited,
             Commands
    <2>2. UNCHANGED rxTracker
      BY <1>25 DEF CancelAllProceeds, trackerVars
    <2>3. QED
      BY <2>1, <2>2, QueueKeeps
  <1>26. CASE CancelAllEnds
    <2>1. ASSUME NEW m \in Commands, Awaited(m)
          PROVE  Awaited(m)'
      BY <2>1, <1>26
         DEF CancelAllEnds, TypeOK, TaskTypeOK, TrackerTypeOK,
             opsVars, taskVars, trackerVars, replyVars, Awaited,
             Commands
    <2>2. UNCHANGED rxTracker
      BY <1>26 DEF CancelAllEnds, trackerVars
    <2>3. QED
      BY <2>1, <2>2, QueueKeeps
  <1>27. CASE TrackerShutdown
    <2>1. Len(rxTracker') = 0
      BY <1>27 DEF TrackerShutdown
    <2>2. QED
      BY <2>1 DEF QueueIsSound
  <1>28. CASE TaskAborted
    <2>1. Len(rxTracker') = 0
      BY <1>28 DEF TaskAborted
    <2>2. QED
      BY <2>1 DEF QueueIsSound
  <1> QED
    BY <1>1, <1>2, <1>3, <1>4, <1>5, <1>6, <1>7, <1>8, <1>9, <1>10, <1>11,
       <1>12, <1>13, <1>14, <1>15, <1>16, <1>17, <1>18, <1>19, <1>20,
       <1>21, <1>22, <1>23, <1>24, <1>25, <1>26, <1>27, <1>28
    DEF Next, Client, OpsLoop, Handler, TaskStep, Tracker, SessionTask,
        opsVars, taskVars, tokenVars, trackerVars, replyVars, sessionVars,
        StopChecks, StopMarks, StopSends, StopReturns, DropSession,
        StateShutdown, StateFails, LoopsJoined, Watchdog, SendEnd

\* A cancelled operation is awaited until it confirms.
LEMMA PendingStep ==
    ASSUME IInv, TypeOK', Next
    PROVE  CanceledIsPending'
  <1> USE DEF IInv, CanceledIsPending
  <1>1. ASSUME UNCHANGED <<canceler, done, closing, tracker, victim, tracked>>
        PROVE  CanceledIsPending'
    BY <1>1
  <1>2. CASE OpsEnd
    BY <1>2
       DEF OpsEnd, TypeOK, TaskTypeOK, TrackerTypeOK, opsVars,
           tokenVars, trackerVars, Ids, NoId
  <1>3. ASSUME NEW r \in Requests, FinishConfirms(r)
       PROVE  CanceledIsPending'
    BY <1>3
       DEF FinishConfirms, TypeOK, TaskTypeOK, TrackerTypeOK, opsVars,
           tokenVars, trackerVars, Ids, NoId
  <1>4. CASE TrackerAdds
    BY <1>4, TrackerHead, ConstantsAssumption
       DEF TrackerAdds, TrackerHas, QueueIsSound, Awaited,
           ShutdownOrder, TypeOK, TaskTypeOK, TrackerTypeOK, opsVars,
           tokenVars, trackerVars, Ids, NoId
  <1>5. CASE TrackerRemoves
    BY <1>5, TrackerHead
       DEF TrackerRemoves, TrackerHas, TypeOK, TaskTypeOK,
           TrackerTypeOK, opsVars, tokenVars, trackerVars, Ids, NoId
  <1>6. CASE TrackerMisses
    BY <1>6, TrackerHead
       DEF TrackerMisses, TrackerHas, TypeOK, TaskTypeOK,
           TrackerTypeOK, opsVars, tokenVars, trackerVars, Ids, NoId
  <1>7. CASE TrackerFindsDone
    BY <1>7, TrackerHead
       DEF TrackerFindsDone, TrackerHas, TypeOK, TaskTypeOK,
           TrackerTypeOK, opsVars, tokenVars, trackerVars, Ids, NoId
  <1>8. CASE TrackerCancels
    BY <1>8, TrackerHead, ConstantsAssumption
       DEF TrackerCancels, TrackerHas, TrackedById, TypeOK, TaskTypeOK,
           TrackerTypeOK, opsVars, tokenVars, trackerVars, Ids, NoId
  <1>9. CASE TrackerConfirms
    BY <1>9, TrackerHead
       DEF TrackerConfirms, TypeOK, TaskTypeOK, TrackerTypeOK, opsVars,
           tokenVars, trackerVars, Ids, NoId
  <1>10. CASE TrackerCancelAll
    BY <1>10, TrackerHead
       DEF TrackerCancelAll, TrackerHas, QueueIsSound, Awaited, TypeOK,
           TaskTypeOK, TrackerTypeOK, opsVars, tokenVars, trackerVars,
           Ids, NoId
  <1>11. ASSUME NEW u \in Uuids, CancelAllVisits(u)
       PROVE  CanceledIsPending'
    BY <1>11
       DEF CancelAllVisits, TrackerWaits, TrackedById, TypeOK,
           TaskTypeOK, TrackerTypeOK, opsVars, tokenVars, trackerVars,
           Ids, NoId
  <1>12. CASE CancelAllProceeds
    BY <1>12
       DEF CancelAllProceeds, TrackerWaits, TypeOK, TaskTypeOK,
           TrackerTypeOK, opsVars, tokenVars, trackerVars, Ids, NoId
  <1>13. CASE CancelAllEnds
    BY <1>13, ConstantsAssumption
       DEF CancelAllEnds, TrackerWaits, TypeOK, TaskTypeOK,
           TrackerTypeOK, opsVars, tokenVars, trackerVars, Ids, NoId
  <1>14. CASE TrackerShutdown
    BY <1>14, TrackerHead
       DEF TrackerShutdown, LoseReplies, Enqueued, ShutdownOrder,
           QueueIsSound, Awaited, TypeOK, TaskTypeOK, TrackerTypeOK,
           opsVars, tokenVars, trackerVars, Ids, NoId
  <1>15. CASE TaskAborted
    BY <1>15
       DEF TaskAborted, LoseReplies, Enqueued, TypeOK, TaskTypeOK,
           TrackerTypeOK, opsVars, tokenVars, trackerVars, Ids, NoId
  <1> QED
    BY <1>1, <1>2, <1>3, <1>4, <1>5, <1>6, <1>7, <1>8, <1>9, <1>10, <1>11,
       <1>12, <1>13, <1>14, <1>15
    DEF Next, Client, OpsLoop, Handler, TaskStep, Tracker, SessionTask,
        opsVars, taskVars, tokenVars, trackerVars, replyVars, sessionVars,
        Submit, StopChecks, StopMarks, StopSends, StopReturns,
        DropSession, OpsRecv, OpsSpawn, OpsReject, OpsFinish,
        HandlerReturns, TaskStarts, CancelAsks, CancelAnswered,
        FinishChecks, FinishLeaves, FinishRemoved, FinishEmits,
        StateShutdown, StateFails, LoopsJoined, Watchdog, AskTracker,
        Emit, SendEnd

\* A registered operation nobody cancels keeps its entry.
LEMMA RegisteredStep ==
    ASSUME IInv, TypeOK', Next
    PROVE  RegisteredIsTracked'
  <1> USE DEF IInv, RegisteredIsTracked, Registered, Active
  <1>1. ASSUME UNCHANGED <<task, reply, canceler, tracked>>
        PROVE  RegisteredIsTracked'
    BY <1>1
  <1>2. ASSUME NEW r \in Requests, Submit(r)
       PROVE  RegisteredIsTracked'
    BY <1>2
       DEF Submit, TypeOK, TaskTypeOK, TrackerTypeOK, taskVars,
           tokenVars, trackerVars, replyVars, Ids, NoId, End
  <1>3. CASE OpsRecv
    BY <1>3, OpsHead
       DEF OpsRecv, AskTracker, QueuedIsFresh, AnswersAreAwaited,
           TypeOK, TaskTypeOK, TrackerTypeOK, taskVars, tokenVars,
           trackerVars, replyVars, Ids, NoId, End
  <1>4. CASE OpsSpawn
    BY <1>4
       DEF OpsSpawn, OneIsAdded, TypeOK, TaskTypeOK, TrackerTypeOK,
           taskVars, tokenVars, trackerVars, replyVars, Ids, NoId, End
  <1>5. CASE OpsReject
    BY <1>5
       DEF OpsReject, Emit, OneIsAdded, TypeOK, TaskTypeOK,
           TrackerTypeOK, taskVars, tokenVars, trackerVars, replyVars,
           Ids, NoId, End
  <1>6. ASSUME NEW r \in Requests, NEW result \in Outcomes, HandlerReturns(r, result)
       PROVE  RegisteredIsTracked'
    BY <1>6
       DEF HandlerReturns, TypeOK, TaskTypeOK, TrackerTypeOK, taskVars,
           tokenVars, trackerVars, replyVars, Ids, NoId, End
  <1>7. ASSUME NEW r \in Requests, TaskStarts(r)
       PROVE  RegisteredIsTracked'
    BY <1>7
       DEF TaskStarts, Emit, TypeOK, TaskTypeOK, TrackerTypeOK,
           taskVars, tokenVars, trackerVars, replyVars, Ids, NoId, End
  <1>8. ASSUME NEW r \in Requests, CancelAsks(r)
       PROVE  RegisteredIsTracked'
    BY <1>8
       DEF CancelAsks, AskTracker, TypeOK, TaskTypeOK, TrackerTypeOK,
           taskVars, tokenVars, trackerVars, replyVars, Ids, NoId, End
  <1>9. ASSUME NEW r \in Requests, CancelAnswered(r)
       PROVE  RegisteredIsTracked'
    BY <1>9
       DEF CancelAnswered, TypeOK, TaskTypeOK, TrackerTypeOK, taskVars,
           tokenVars, trackerVars, replyVars, Ids, NoId, End
  <1>10. ASSUME NEW r \in Requests, FinishChecks(r)
       PROVE  RegisteredIsTracked'
    BY <1>10
       DEF FinishChecks, TypeOK, TaskTypeOK, TrackerTypeOK, taskVars,
           tokenVars, trackerVars, replyVars, Ids, NoId, End
  <1>11. ASSUME NEW r \in Requests, FinishLeaves(r)
       PROVE  RegisteredIsTracked'
    BY <1>11
       DEF FinishLeaves, AskTracker, AnswersAreAwaited, TypeOK,
           TaskTypeOK, TrackerTypeOK, taskVars, tokenVars, trackerVars,
           replyVars, Ids, NoId, End
  <1>12. ASSUME NEW r \in Requests, FinishRemoved(r)
       PROVE  RegisteredIsTracked'
    BY <1>12
       DEF FinishRemoved, TypeOK, TaskTypeOK, TrackerTypeOK, taskVars,
           tokenVars, trackerVars, replyVars, Ids, NoId, End
  <1>13. ASSUME NEW r \in Requests, FinishEmits(r)
       PROVE  RegisteredIsTracked'
    BY <1>13
       DEF FinishEmits, Emit, TypeOK, TaskTypeOK, TrackerTypeOK,
           taskVars, tokenVars, trackerVars, replyVars, Ids, NoId, End
  <1>14. CASE TrackerAdds
    BY <1>14, TrackerHead, ConstantsAssumption
       DEF TrackerAdds, TrackerHas, QueueIsSound, Awaited, TypeOK,
           TaskTypeOK, TrackerTypeOK, taskVars, tokenVars, trackerVars,
           replyVars, Ids, NoId, End
  <1>15. CASE TrackerRemoves
    BY <1>15, TrackerHead, SMTT(20)
       DEF TrackerRemoves, TrackerHas, QueueIsSound, Awaited,
           CanceledIsPending, EventsFollowTask, TypeOK, TaskTypeOK,
           TrackerTypeOK, taskVars, tokenVars, trackerVars, replyVars,
           Ids, NoId, End
  <1>16. CASE TrackerMisses
    BY <1>16, TrackerHead
       DEF TrackerMisses, TrackerHas, QueueIsSound, Awaited, TypeOK,
           TaskTypeOK, TrackerTypeOK, taskVars, tokenVars, trackerVars,
           replyVars, Ids, NoId, End
  <1>17. CASE TrackerFindsDone
    BY <1>17, TrackerHead
       DEF TrackerFindsDone, TrackerHas, QueueIsSound, Awaited,
           EventsFollowTask, TypeOK, TaskTypeOK, TrackerTypeOK,
           taskVars, tokenVars, trackerVars, replyVars, Ids, NoId, End
  <1>18. CASE TrackerCancels
    BY <1>18, TrackerHead
       DEF TrackerCancels, TrackerHas, TrackedById, TypeOK, TaskTypeOK,
           TrackerTypeOK, taskVars, tokenVars, trackerVars, replyVars,
           Ids, NoId, End
  <1>19. CASE TrackerConfirms
    BY <1>19, TrackerHead
       DEF TrackerConfirms, TrackerWaits, TypeOK, TaskTypeOK,
           TrackerTypeOK, taskVars, tokenVars, trackerVars, replyVars,
           Ids, NoId, End
  <1>20. ASSUME NEW u \in Uuids, CancelAllVisits(u)
       PROVE  RegisteredIsTracked'
    BY <1>20
       DEF CancelAllVisits, TrackerWaits, TypeOK, TaskTypeOK,
           TrackerTypeOK, taskVars, tokenVars, trackerVars, replyVars,
           Ids, NoId, End
  <1>21. CASE CancelAllEnds
    BY <1>21, ConstantsAssumption
       DEF CancelAllEnds, TrackerWaits, EventsFollowTask, TypeOK,
           TaskTypeOK, TrackerTypeOK, taskVars, tokenVars, trackerVars,
           replyVars, Ids, NoId, End
  <1>22. CASE TrackerShutdown
    BY <1>22, TrackerHead
       DEF TrackerShutdown, LoseReplies, Enqueued, TypeOK, TaskTypeOK,
           TrackerTypeOK, taskVars, tokenVars, trackerVars, replyVars,
           Ids, NoId, End
  <1>23. CASE TaskAborted
    BY <1>23
       DEF TaskAborted, LoseReplies, Enqueued, TypeOK, TaskTypeOK,
           TrackerTypeOK, taskVars, tokenVars, trackerVars, replyVars,
           Ids, NoId, End
  <1>24. ASSUME NEW r \in Requests, FinishConfirms(r)
       PROVE  RegisteredIsTracked'
    BY <1>24
       DEF FinishConfirms, TypeOK, TaskTypeOK, TrackerTypeOK, taskVars,
           tokenVars, trackerVars, replyVars, Ids, NoId, End
  <1> QED
    BY <1>1, <1>2, <1>3, <1>4, <1>5, <1>6, <1>7, <1>8, <1>9, <1>10, <1>11,
       <1>12, <1>13, <1>14, <1>15, <1>16, <1>17, <1>18, <1>19, <1>20,
       <1>21, <1>22, <1>23, <1>24
    DEF Next, Client, OpsLoop, Handler, TaskStep, Tracker, SessionTask,
        opsVars, taskVars, tokenVars, trackerVars, replyVars, sessionVars,
        StopChecks, StopMarks, StopSends, StopReturns, DropSession,
        OpsEnd, OpsFinish, TrackerCancelAll, CancelAllProceeds,
        StateShutdown, StateFails, LoopsJoined, Watchdog, SendEnd,
        TrackerHas

\* A confirmed cancellation stays final.
LEMMA FinalStep ==
    ASSUME IInv, TypeOK', Next
    PROVE  CancelAnswerIsFinal'
  <1> USE DEF IInv, CancelAnswerIsFinal
  <1>1. ASSUME UNCHANGED <<events, done, confirmed>>
        PROVE  CancelAnswerIsFinal'
    BY <1>1
  <1>2. CASE OpsReject
    BY <1>2
       DEF OpsReject, Emit, OneIsAdded, TypeOK, TaskTypeOK,
           TrackerTypeOK, EventsFollowTask, taskVars, tokenVars,
           trackerVars
  <1>3. ASSUME NEW r \in Requests, TaskStarts(r)
       PROVE  CancelAnswerIsFinal'
    BY <1>3
       DEF TaskStarts, Emit, TypeOK, TaskTypeOK, TrackerTypeOK,
           EventsFollowTask, taskVars, tokenVars, trackerVars
  <1>4. ASSUME NEW r \in Requests, FinishEmits(r)
       PROVE  CancelAnswerIsFinal'
    BY <1>4
       DEF FinishEmits, Emit, TypeOK, TaskTypeOK, TrackerTypeOK,
           EventsFollowTask, taskVars, tokenVars, trackerVars
  <1>5. ASSUME NEW r \in Requests, FinishConfirms(r)
       PROVE  CancelAnswerIsFinal'
    BY <1>5
       DEF FinishConfirms, TypeOK, TaskTypeOK, TrackerTypeOK,
           EventsFollowTask, taskVars, tokenVars, trackerVars
  <1>6. CASE TrackerFindsDone
    BY <1>6, TrackerHead, ConstantsAssumption
       DEF TrackerFindsDone, TrackerHas, TrackedById, QueueIsSound,
           Awaited, TypeOK, TaskTypeOK, TrackerTypeOK,
           EventsFollowTask, taskVars, tokenVars, trackerVars
  <1>7. CASE TrackerConfirms
    BY <1>7, TrackerHead
       DEF TrackerConfirms, TrackerWaits, TypeOK, TaskTypeOK,
           TrackerTypeOK, EventsFollowTask, taskVars, tokenVars,
           trackerVars
  <1> QED
    BY <1>1, <1>2, <1>3, <1>4, <1>5, <1>6, <1>7
    DEF Next, Client, OpsLoop, Handler, TaskStep, Tracker, SessionTask,
        opsVars, taskVars, tokenVars, trackerVars, replyVars, sessionVars,
        Submit, StopChecks, StopMarks, StopSends, StopReturns,
        DropSession, OpsRecv, OpsSpawn, OpsEnd, OpsFinish,
        HandlerReturns, CancelAsks, CancelAnswered, FinishChecks,
        FinishLeaves, FinishRemoved, TrackerAdds, TrackerRemoves,
        TrackerMisses, TrackerCancels, TrackerCancelAll,
        CancelAllVisits, CancelAllProceeds, CancelAllEnds,
        TrackerShutdown, StateShutdown, StateFails, LoopsJoined,
        Watchdog, TaskAborted, AskTracker, Enqueued, LoseReplies,
        SendEnd, TrackerHas

-----------------------------------------------------------------------------
\* The invariant holds initially.
LEMMA InitInv ==
    ASSUME Init
    PROVE  IInv
  <1> USE ConstantsAssumption DEF Init
  <1>1. Len(rxOps) = 0 /\ Len(rxTracker) = 0 /\ DOMAIN rxOps = 1..Len(rxOps)
    <2>1. rxOps = <<>> /\ rxTracker = <<>>
      OBVIOUS
    <2>2. Len(<<>>) = 0
      OBVIOUS
    <2>3. <<>> \in Seq(Requests)
      OBVIOUS
    <2>4. DOMAIN <<>> = 1..Len(<<>>)
      BY <2>3, LenProperties
    <2>5. QED
      BY <2>1, <2>2, <2>4
  <1>2. TypeOK
    <2>1. OpsTypeOK
      <3>1. rxOps \in Seq(Requests \cup {End})
        OBVIOUS
      <3>2. QED
        BY <3>1 DEF OpsTypeOK
    <2>2. TaskTypeOK
      BY DEF TaskTypeOK, Places, Outcomes, Histories
    <2>3. TrackerTypeOK
      BY DEF TrackerTypeOK, NoId, Replies
    <2>4. SessionTypeOK
      BY DEF SessionTypeOK
    <2>5. QED
      BY <2>1, <2>2, <2>3, <2>4 DEF TypeOK
  <1>3. EventsFollowTask /\ AnswersAreAwaited /\ OneIsAdded
    BY DEF EventsFollowTask, AnswersAreAwaited, OneIsAdded
  <1>4. QueuedIsFresh /\ QueueIsSound
    BY <1>1 DEF QueuedIsFresh, QueueIsSound
  <1>5. ShutdownOrder /\ ShutdownIsAnnounced
    BY <1>1 DEF ShutdownOrder, ShutdownIsAnnounced
  <1>6. TrackedById /\ TrackerWaits
    BY DEF TrackedById, TrackerWaits, NoId
  <1>7. RegisteredIsTracked /\ CanceledIsPending /\ CancelAnswerIsFinal
    BY DEF RegisteredIsTracked, Registered, Active, CanceledIsPending,
           CancelAnswerIsFinal
  <1>8. QED
    BY <1>2, <1>3, <1>4, <1>5, <1>6, <1>7 DEF IInv

\* A stuttering step changes nothing the invariant speaks of.
LEMMA StutterInv ==
    ASSUME IInv, UNCHANGED vars
    PROVE  IInv'
  <1> USE DEF IInv, vars, opsVars, taskVars, tokenVars, trackerVars, replyVars,
              sessionVars
  <1>1. TypeOK'
    BY DEF TypeOK, OpsTypeOK, TaskTypeOK, TrackerTypeOK, SessionTypeOK
  <1>2. EventsFollowTask' /\ AnswersAreAwaited' /\ OneIsAdded'
    BY DEF EventsFollowTask, AnswersAreAwaited, OneIsAdded
  <1>3. QueuedIsFresh' /\ QueueIsSound'
    BY DEF QueuedIsFresh, QueueIsSound, Awaited
  <1>4. ShutdownOrder' /\ ShutdownIsAnnounced'
    BY DEF ShutdownOrder, ShutdownIsAnnounced, LoopsEnded
  <1>5. TrackedById' /\ TrackerWaits'
    BY DEF TrackedById, TrackerWaits, Ids
  <1>6. RegisteredIsTracked' /\ CanceledIsPending' /\ CancelAnswerIsFinal'
    BY DEF RegisteredIsTracked, Registered, Active, CanceledIsPending,
           CancelAnswerIsFinal
  <1>7. QED
    BY <1>1, <1>2, <1>3, <1>4, <1>5, <1>6

LEMMA StepInv ==
    ASSUME IInv, [Next]_vars
    PROVE  IInv'
  <1>1. CASE Next
    <2>1. TypeOK'
      BY <1>1, TypeStep
    <2>2. QED
      BY <1>1, <2>1, EventsStep, AnswersStep, OneStep, FreshStep,
         OrderStep, AnnouncedStep, QueueStep, ByIdStep, WaitsStep,
         RegisteredStep, PendingStep, FinalStep
         DEF IInv
  <1>2. CASE UNCHANGED vars
    BY <1>2, StutterInv
  <1>3. QED
    BY <1>1, <1>2

-----------------------------------------------------------------------------
\* The inductive invariant holds in every state of every session.
THEOREM Invariance == Spec => []IInv
  BY InitInv, StepInv, PTL DEF Spec

\* Every variable keeps its type: in particular an operation's log is never
\* more than "started" and one final event, or one error.
THEOREM TypeCorrect == Spec => []TypeOK
  <1>1. IInv => TypeOK
    BY DEF IInv
  <1>2. QED
    BY <1>1, Invariance, PTL

\* A running operation that nobody told to stop can be found by its id, for
\* any number of operations that share ids (tracker.rs, run).
THEOREM TrackingCorrect == Spec => []RunningIsTracked
  <1>1. IInv => RunningIsTracked
    BY DEF IInv, RegisteredIsTracked, Registered, RunningIsTracked
  <1>2. QED
    BY <1>1, Invariance, PTL

\* An answered cancellation means the named operation has sent its final
\* event and will send no other.
THEOREM CancelCorrect == Spec => []CancelAnswerIsFinal
  <1>1. IInv => CancelAnswerIsFinal
    BY DEF IInv
  <1>2. QED
    BY <1>1, Invariance, PTL

\* A graceful shutdown has reached every operation that is still active: when
\* the loop is done CancelAll has been answered and the map is empty.
THEOREM GracefulCorrect == Spec => []GracefulStopReachesAll
  <1>1. ASSUME IInv
        PROVE  GracefulStopReachesAll
    <2>1. SUFFICES ASSUME NEW r \in Requests, opsLoop = "done",
                          task[r] \in Active, r \notin canceler
                   PROVE  FALSE
      BY DEF GracefulStopReachesAll
    <2>2. tracked[IdOf[r]] = r
      BY <1>1, <2>1 DEF IInv, RegisteredIsTracked, Registered
    <2>3. tracked[IdOf[r]] = None
      BY <1>1, <2>1, ConstantsAssumption DEF IInv, ShutdownOrder, NoId
    <2>4. QED
      BY <2>2, <2>3, ConstantsAssumption
  <1>2. QED
    BY <1>1, Invariance, PTL

\* When stop() has returned to any of its callers, every loop has ended or the
\* watchdog has forced the end.
THEOREM StopCorrect == Spec => []StopMeansStopped
  <1>1. IInv => StopMeansStopped
    BY DEF IInv, ShutdownOrder, LoopsEnded, StopMeansStopped
  <1>2. QED
    BY <1>1, Invariance, PTL

\* The watchdog is armed whenever a shutdown may be under way.
THEOREM AnnouncedCorrect == Spec => []ShutdownIsAnnounced
  <1>1. IInv => ShutdownIsAnnounced
    BY DEF IInv
  <1>2. QED
    BY <1>1, Invariance, PTL
=============================================================================
