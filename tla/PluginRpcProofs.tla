---- MODULE PluginRpcProofs ----
(* Theorems about PluginRpc, for any number of tasks, switches and messages. *)
EXTENDS PluginRpc, TLAPS

----
(* Lemmas about the protocol. *)

LEMMA ReplyOpType ==
  ASSUME NEW r \in Requests
  PROVE  ReplyOp(r) \in ReplyOps
BY DEF Requests, ReplyOp, ReplyOps

LEMMA ReplyToType ==
  ASSUME NEW r \in Requests, NEW sws \in SUBSET SwitchIds
  PROVE  /\ ReplyTo(r, sws) \in Replies
         /\ ReplyTo(r, sws).op = ReplyOp(r)
<1>1. (IF r.op = "GetSwitches" THEN sws ELSE {r.sw} \cap sws) \in SUBSET SwitchIds
  OBVIOUS
<1> QED
  BY <1>1, ReplyOpType DEF ReplyTo, Replies

LEMMA PayloadType ==
  ASSUME NEW r \in Requests, r.op \in {"Send", "SendBatch"}
  PROVE  /\ Payload(r) \in Seq(Messages)
         /\ r.sw \in SwitchIds
<1>1. CASE r.op = "Send"
  <2>1. r \in [op : {"Send"}, sw : SwitchIds, msg : Messages]
    BY <1>1 DEF Requests
  <2> QED
    BY <1>1, <2>1 DEF Payload
<1>2. CASE r.op = "SendBatch"
  <2>1. r \in [op : {"SendBatch"}, sw : SwitchIds, msgs : Batches]
    BY <1>2 DEF Requests
  <2> QED
    BY <1>2, <2>1, BatchesAreLists DEF Payload
<1> QED
  BY <1>1, <1>2

LEMMA WireAfterType ==
  ASSUME NEW r \in Requests, NEW sws \in SUBSET SwitchIds,
         NEW w \in [SwitchIds -> Seq(Messages)]
  PROVE  WireAfter(r, sws, w) \in [SwitchIds -> Seq(Messages)]
<1>1. CASE r.op \in {"Send", "SendBatch"} /\ r.sw \in sws
  <2>1. Payload(r) \in Seq(Messages) /\ r.sw \in SwitchIds
    BY <1>1, PayloadType
  <2>2. w[r.sw] \o Payload(r) \in Seq(Messages)
    BY <2>1
  <2> QED
    BY <1>1, <2>2 DEF WireAfter
<1>2. CASE ~(r.op \in {"Send", "SendBatch"} /\ r.sw \in sws)
  BY <1>2 DEF WireAfter
<1> QED
  BY <1>1, <1>2

LEMMA Singleton ==
  ASSUME NEW S, NEW x \in S
  PROVE  /\ Head(<<x>>) = x
         /\ Tail(<<x>>) = <<>>
         /\ <<x>> \in Seq(S)
         /\ <<x>> # <<>>
OBVIOUS

LEMMA EmptyList == ASSUME NEW S PROVE <<>> \in Seq(S)
OBVIOUS

----
(* The inductive invariant. *)

LEMMA InitEstablishesIInv == Init => IInv
<1> SUFFICES ASSUME Init PROVE IInv
  OBVIOUS
<1> USE DEF Init
<1>1. TypeOK
  <2>1. linked \in BOOLEAN /\ readOutstanding \in BOOLEAN
    OBVIOUS
  <2>2. hops \in [Tasks -> 0..MaxHops]
    BY BoundsAreNat
  <2> QED
    BY <2>1, <2>2 DEF TypeOK, Phases
<1>2. CallsHaveRequests
  BY DEF CallsHaveRequests, Free
<1>3. QueuesAreDisjoint
  BY DEF QueuesAreDisjoint
<1>4. OneConversation
  BY DEF OneConversation, Holding
<1>5. SocketHasConversation
  BY DEF SocketHasConversation
<1>6. LockHasHolder /\ WaitersWaitForLock
  BY DEF LockHasHolder, WaitersWaitForLock
<1> QED
  BY <1>1, <1>2, <1>3, <1>4, <1>5, <1>6 DEF IInv

(* Steps that leave the lock, the socket and the tasks alone. *)
LEMMA OutsideStep ==
  ASSUME IInv, TypeOK', UNCHANGED <<lockVars, sockVars, taskVars>>,
         server = "dead" <=> server' = "dead"
  PROVE  IInv'
<1> USE DEF lockVars, sockVars, taskVars
<1>1. CallsHaveRequests'
  BY DEF IInv, CallsHaveRequests, Free
<1>2. QueuesAreDisjoint'
  BY DEF IInv, QueuesAreDisjoint
<1>3. OneConversation'
  BY DEF IInv, OneConversation, Holding
<1>4. SocketHasConversation'
  BY DEF IInv, SocketHasConversation
<1>5. LockHasHolder' /\ WaitersWaitForLock'
  BY DEF IInv, LockHasHolder, WaitersWaitForLock, Holding
<1> QED
  BY <1>1, <1>2, <1>3, <1>4, <1>5 DEF IInv

LEMMA ServerListensStep == IInv /\ ServerListens => IInv'
<1> SUFFICES ASSUME IInv, ServerListens PROVE IInv'
  OBVIOUS
<1>1. TypeOK'
  BY DEF IInv, TypeOK, ServerListens, netVars, lockVars, sockVars, taskVars
<1> QED
  BY <1>1, OutsideStep DEF ServerListens

LEMMA ConnectStep == IInv /\ Connect => IInv'
<1> SUFFICES ASSUME IInv, Connect PROVE IInv'
  OBVIOUS
<1>1. TypeOK'
  BY DEF IInv, TypeOK, Connect, netVars, lockVars, sockVars, taskVars
<1> QED
  BY <1>1, OutsideStep DEF Connect

LEMMA DieStep == IInv /\ Die => IInv'
<1> SUFFICES ASSUME IInv, Die PROVE IInv'
  OBVIOUS
<1> USE DEF IInv, Die, lockVars, taskVars
<1>1. TypeOK'
  BY DEF TypeOK
<1>2. CallsHaveRequests' /\ QueuesAreDisjoint'
  BY DEF CallsHaveRequests, Free, QueuesAreDisjoint
<1>3. OneConversation'
  BY DEF OneConversation, Holding
<1>4. SocketHasConversation'
  BY DEF SocketHasConversation
<1>5. LockHasHolder' /\ WaitersWaitForLock'
  BY DEF LockHasHolder, WaitersWaitForLock
<1> QED
  BY <1>1, <1>2, <1>3, <1>4, <1>5

LEMMA CallStep ==
  ASSUME NEW t \in Tasks, NEW r \in Requests, NEW h \in 0..MaxHops, IInv,
         Call(t, r, h)
  PROVE  IInv'
<1> USE DEF Call, netVars, sockVars
<1>0. TypeOK /\ pc \in [Tasks -> Phases] /\ jobs \in Seq(Tasks)
  BY DEF IInv, TypeOK
<1>1. TypeOK'
  BY <1>0 DEF TypeOK, Phases
<1>2. \A i \in 1..Len(jobs) : jobs[i] # t
  BY <1>0 DEF IInv, QueuesAreDisjoint, Free
<1>3. \A i \in 1..Len(waiters) : waiters[i] # t
  BY <1>0 DEF IInv, QueuesAreDisjoint, Free
<1>4. CallsHaveRequests'
  BY <1>0, NoRequestIsNoRequest DEF IInv, TypeOK, CallsHaveRequests, Free
<1>5. QueuesAreDisjoint'
  <2>1. Len(jobs') = Len(jobs) + 1 /\ jobs'[Len(jobs) + 1] = t
    BY <1>0
  <2>2. \A i \in 1..Len(jobs) : jobs'[i] = jobs[i] /\ jobs[i] \in Tasks
    BY <1>0
  <2>3. \A i \in 1..Len(waiters) : waiters[i] \in Tasks
    BY <1>0 DEF TypeOK
  <2>4. \A i \in 1..Len(jobs') : i \in 1..Len(jobs) \/ i = Len(jobs) + 1
    BY <2>1, <1>0
  <2> QED
    BY <1>0, <1>2, <1>3, <2>1, <2>2, <2>3, <2>4 DEF IInv, QueuesAreDisjoint
<1>6. OneConversation'
  BY <1>0 DEF IInv, OneConversation, Holding
<1>7. SocketHasConversation'
  BY <1>0 DEF IInv, SocketHasConversation, Free, TypeOK
<1>8. LockHasHolder' /\ WaitersWaitForLock'
  BY <1>0 DEF IInv, LockHasHolder, WaitersWaitForLock, Holding, Free
<1> QED
  BY <1>1, <1>4, <1>5, <1>6, <1>7, <1>8 DEF IInv

(* Moving the head of the scheduler's queue to its end. *)
LEMMA HopStep ==
  ASSUME NEW t \in Tasks, IInv, Hop(t)
  PROVE  IInv'
<1> USE DEF Hop, netVars, sockVars, taskVars
<1>0. /\ TypeOK
      /\ jobs \in Seq(Tasks) /\ jobs # <<>> /\ jobs[1] = t
      /\ waiters \in Seq(Tasks)
      /\ hops \in [Tasks -> 0..MaxHops]
  BY DEF IInv, TypeOK
<1>1. /\ jobs' \in Seq(Tasks)
      /\ Len(jobs') = Len(jobs)
      /\ jobs'[Len(jobs)] = jobs[1]
      /\ \A i \in 1..(Len(jobs) - 1) : jobs'[i] = jobs[i + 1]
  BY <1>0
<1>2. hops[t] - 1 \in 0..MaxHops
  BY <1>0, BoundsAreNat
<1>3. TypeOK'
  BY <1>0, <1>1, <1>2 DEF TypeOK
<1>4. CallsHaveRequests'
  BY DEF IInv, CallsHaveRequests, Free
<1>5. QueuesAreDisjoint'
  <2>1. ASSUME NEW i \in 1..Len(jobs')
        PROVE  \/ i = Len(jobs) /\ 1 \in 1..Len(jobs) /\ jobs'[i] = jobs[1]
               \/ i + 1 \in 1..Len(jobs) /\ i + 1 # 1 /\ jobs'[i] = jobs[i + 1]
    <3>1. i \in Nat /\ 1 <= i /\ i <= Len(jobs) /\ Len(jobs) \in Nat
      BY <1>0, <1>1
    <3>2. CASE i = Len(jobs)
      BY <1>1, <3>1, <3>2
    <3>3. CASE i # Len(jobs)
      <4>1. i \in 1..(Len(jobs) - 1) /\ i + 1 \in 1..Len(jobs) /\ i + 1 # 1
        BY <3>1, <3>3
      <4> QED
        BY <1>1, <4>1
    <3> QED
      BY <3>2, <3>3
  <2>2. \A i \in 1..Len(jobs') : pc[jobs'[i]] \in {"scheduled", "waiting"}
    BY <2>1 DEF IInv, QueuesAreDisjoint
  <2>3. \A i \in 1..Len(jobs'), j \in 1..Len(waiters) : jobs'[i] # waiters[j]
    BY <2>1 DEF IInv, QueuesAreDisjoint
  <2>4. ASSUME NEW i \in 1..Len(jobs'), NEW j \in 1..Len(jobs'), jobs'[i] = jobs'[j]
        PROVE  i = j
    <3>1. \A k, l \in 1..Len(jobs) : jobs[k] = jobs[l] => k = l
      BY DEF IInv, QueuesAreDisjoint
    <3>2. (i = Len(jobs) /\ j = Len(jobs)) \/ i + 1 = j + 1
      BY <2>1, <2>4, <3>1
    <3>3. i \in Nat /\ j \in Nat
      BY <1>0, <1>1
    <3> QED
      BY <3>2, <3>3
  <2> QED
    BY <2>2, <2>3, <2>4 DEF IInv, QueuesAreDisjoint
<1>6. OneConversation'
  BY DEF IInv, OneConversation, Holding
<1>7. SocketHasConversation'
  BY DEF IInv, SocketHasConversation
<1>8. LockHasHolder' /\ WaitersWaitForLock'
  BY DEF IInv, LockHasHolder, WaitersWaitForLock, Holding
<1> QED
  BY <1>3, <1>4, <1>5, <1>6, <1>7, <1>8 DEF IInv

LEMMA ClearToReadStep ==
  ASSUME NEW t \in Tasks, IInv, ClearToRead(t)
  PROVE  IInv'
<1> USE DEF ClearToRead, netVars, sockVars
<1>0. /\ TypeOK
      /\ pc \in [Tasks -> Phases]
      /\ jobs \in Seq(Tasks) /\ jobs # <<>>
      /\ waiters \in Seq(Tasks)
      /\ jobs[1] = t
  BY DEF IInv, TypeOK
<1>1. /\ jobs' \in Seq(Tasks)
      /\ Len(jobs') = Len(jobs) - 1
      /\ \A i \in 1..Len(jobs') : jobs'[i] = jobs[i + 1]
  BY <1>0
<1>2. \A i \in 1..Len(jobs') : i + 1 \in 1..Len(jobs) /\ i + 1 # 1 /\ jobs[i + 1] # t
  BY <1>0, <1>1 DEF IInv, QueuesAreDisjoint
<1>3. \A i \in 1..Len(waiters) : waiters[i] # t
  BY <1>0 DEF IInv, QueuesAreDisjoint
<1>4. pc[t] \in {"scheduled", "waiting"}
  BY <1>0 DEF IInv, QueuesAreDisjoint
<1>5. CASE readOutstanding
  <2>0. /\ waiters' = Append(waiters, t)
        /\ pc' = [pc EXCEPT ![t] = "waiting"]
        /\ readOutstanding' = readOutstanding
    BY <1>5
  <2>1. /\ waiters' \in Seq(Tasks)
        /\ Len(waiters') = Len(waiters) + 1
        /\ waiters'[Len(waiters) + 1] = t
        /\ \A i \in 1..Len(waiters) : waiters'[i] = waiters[i]
    BY <1>0, <2>0
  <2>2. TypeOK'
    BY <1>0, <1>1, <2>0, <2>1 DEF TypeOK, Phases
  <2>3. CallsHaveRequests'
    BY <1>0, <1>4, <2>0 DEF IInv, CallsHaveRequests, Free
  <2>4. QueuesAreDisjoint'
    <3>1. \A i \in 1..Len(waiters') : i \in 1..Len(waiters) \/ i = Len(waiters) + 1
      BY <1>0, <2>1
    <3>2. \A i \in 1..Len(jobs) : jobs[i] \in Tasks
      BY <1>0
    <3>3. \A i \in 1..Len(waiters) : waiters[i] \in Tasks
      BY <1>0
    <3>4. \A i \in 1..Len(jobs') : pc'[jobs'[i]] \in {"scheduled", "waiting"}
      BY <1>0, <1>1, <1>2, <2>0, <3>2 DEF IInv, QueuesAreDisjoint
    <3>5. \A i \in 1..Len(waiters') : pc'[waiters'[i]] = "waiting"
      BY <1>0, <2>0, <2>1, <3>1, <3>3 DEF IInv, QueuesAreDisjoint
    <3>6. \A i, j \in 1..Len(jobs') : jobs'[i] = jobs'[j] => i = j
      <4>1. ASSUME NEW i \in 1..Len(jobs'), NEW j \in 1..Len(jobs'), jobs'[i] = jobs'[j]
            PROVE  i = j
        <5>1. i + 1 = j + 1
          BY <1>1, <1>2, <4>1 DEF IInv, QueuesAreDisjoint
        <5> QED
          BY <5>1
      <4> QED
        BY <4>1
    <3>7. \A i, j \in 1..Len(waiters') : waiters'[i] = waiters'[j] => i = j
      BY <1>3, <2>1, <3>1 DEF IInv, QueuesAreDisjoint
    <3>8. \A i \in 1..Len(jobs'), j \in 1..Len(waiters') : jobs'[i] # waiters'[j]
      BY <1>1, <1>2, <2>1, <3>1 DEF IInv, QueuesAreDisjoint
    <3> QED
      BY <3>4, <3>5, <3>6, <3>7, <3>8 DEF QueuesAreDisjoint
  <2>5. OneConversation'
    BY <1>0, <2>0 DEF IInv, OneConversation, Holding
  <2>6. SocketHasConversation'
    BY <1>0, <1>4, <2>0 DEF IInv, SocketHasConversation
  <2>7. LockHasHolder' /\ WaitersWaitForLock'
    BY <1>0, <1>4, <1>5, <2>0 DEF IInv, LockHasHolder, WaitersWaitForLock, Holding
  <2> QED
    BY <2>2, <2>3, <2>4, <2>5, <2>6, <2>7 DEF IInv
<1>6. CASE ~readOutstanding
  <2>0. /\ readOutstanding' = TRUE
        /\ pc' = [pc EXCEPT ![t] = "granted"]
        /\ waiters' = waiters
    BY <1>6
  <2>1. waiters = <<>>
    BY <1>6 DEF IInv, WaitersWaitForLock
  <2>2. TypeOK'
    <3>1. readOutstanding' \in BOOLEAN
      BY <2>0
    <3> QED
      BY <1>0, <1>1, <2>0, <3>1 DEF TypeOK, Phases
  <2>3. CallsHaveRequests'
    BY <1>0, <1>4, <2>0 DEF IInv, CallsHaveRequests, Free
  <2>4. QueuesAreDisjoint'
    <3>1. \A i \in 1..Len(jobs) : jobs[i] \in Tasks
      BY <1>0
    <3>2. \A i \in 1..Len(jobs') : pc'[jobs'[i]] \in {"scheduled", "waiting"}
      BY <1>0, <1>1, <1>2, <2>0, <3>1 DEF IInv, QueuesAreDisjoint
    <3>3. \A i, j \in 1..Len(jobs') : jobs'[i] = jobs'[j] => i = j
      <4>1. ASSUME NEW i \in 1..Len(jobs'), NEW j \in 1..Len(jobs'), jobs'[i] = jobs'[j]
            PROVE  i = j
        <5>1. i + 1 = j + 1
          BY <1>1, <1>2, <4>1 DEF IInv, QueuesAreDisjoint
        <5> QED
          BY <5>1
      <4> QED
        BY <4>1
    <3>4. Len(waiters') = 0
      BY <2>0, <2>1
    <3>5. \A i \in 1..Len(waiters') : FALSE
      BY <3>4
    <3> QED
      BY <3>2, <3>3, <3>5 DEF QueuesAreDisjoint
  <2>5. OneConversation'
    BY <1>0, <1>6, <2>0 DEF IInv, OneConversation, Holding
  <2>6. SocketHasConversation'
    BY <1>0, <1>6, <2>0 DEF IInv, SocketHasConversation, OneConversation, Holding
  <2>7. LockHasHolder' /\ WaitersWaitForLock'
    BY <1>0, <2>0 DEF LockHasHolder, WaitersWaitForLock, Holding
  <2> QED
    BY <2>2, <2>3, <2>4, <2>5, <2>6, <2>7 DEF IInv
<1> QED
  BY <1>5, <1>6

LEMMA WriteRequestStep ==
  ASSUME NEW t \in Tasks, IInv, WriteRequest(t)
  PROVE  IInv'
<1> USE DEF WriteRequest, netVars, lockVars
<1>0. /\ TypeOK
      /\ pc \in [Tasks -> Phases]
      /\ pc[t] = "granted"
      /\ pc' = [pc EXCEPT ![t] = "reading"]
  BY DEF IInv, TypeOK
<1>1. \A u \in Tasks : pc[u] # "reading"
  BY <1>0 DEF IInv, OneConversation, Holding
<1>2. toServer = <<>> /\ toClient = <<>>
  BY <1>1 DEF IInv, SocketHasConversation
<1>3. req[t] \in Requests
  BY <1>0 DEF IInv, TypeOK, CallsHaveRequests, Free
<1>4. toServer' = IF server = "dead" THEN <<>> ELSE <<req[t]>>
  BY <1>2
<1>5. TypeOK'
  <2>0. <<req[t]>> \in Seq(Requests) /\ <<>> \in Seq(Requests)
    BY <1>3
  <2>1. toServer' \in Seq(Requests)
    BY <1>4, <2>0, Zenon
  <2> QED
    BY <1>0, <2>1 DEF TypeOK, Phases
<1>6. CallsHaveRequests'
  BY <1>0 DEF IInv, CallsHaveRequests, Free
<1>7. QueuesAreDisjoint'
  <2>1. \A i \in 1..Len(jobs) : jobs[i] \in Tasks
    BY <1>0 DEF TypeOK
  <2>2. \A i \in 1..Len(waiters) : waiters[i] \in Tasks
    BY <1>0 DEF TypeOK
  <2> QED
    BY <1>0, <2>1, <2>2 DEF IInv, QueuesAreDisjoint
<1>8. OneConversation'
  BY <1>0 DEF IInv, OneConversation, Holding
<1>9. SocketHasConversation'
  BY <1>0, <1>1, <1>2, <1>4 DEF SocketHasConversation
<1>10. LockHasHolder' /\ WaitersWaitForLock'
  BY <1>0 DEF IInv, LockHasHolder, WaitersWaitForLock, Holding
<1> QED
  BY <1>5, <1>6, <1>7, <1>8, <1>9, <1>10 DEF IInv

(* The reading task holds the only reply there is, and it is the one it
   expects: the assertion failures of the plug-in are unreachable. *)
LEMMA ReplyExpected ==
  ASSUME NEW t \in Tasks, IInv, pc[t] = "reading", toClient # <<>>
  PROVE  /\ toServer = <<>>
         /\ Tail(toClient) = <<>>
         /\ Head(toClient) \in Replies
         /\ Head(toClient).op = ReplyOp(req[t])
<1>1. toClient \in Seq(Replies)
  BY DEF IInv, TypeOK
<1>2. /\ toServer = <<>>
      /\ toClient = <<Head(toClient)>>
      /\ Head(toClient).op = ReplyOp(req[t])
  BY DEF IInv, SocketHasConversation
<1>3. Head(toClient) \in Replies
  BY <1>1
<1>4. Tail(toClient) = <<>>
  <2>1. Tail(<<Head(toClient)>>) = <<>>
    BY <1>3, Singleton
  <2> QED
    BY <1>2, <2>1, Zenon
<1> QED
  BY <1>2, <1>3, <1>4

LEMMA ReadReplyStep ==
  ASSUME NEW t \in Tasks, IInv, ReadReply(t)
  PROVE  IInv'
<1> USE DEF ReadReply, netVars
<1>0. /\ TypeOK
      /\ pc \in [Tasks -> Phases]
      /\ pc[t] = "reading"
      /\ jobs \in Seq(Tasks) /\ waiters \in Seq(Tasks)
  BY DEF IInv, TypeOK
<1>1. /\ toServer = <<>> /\ toClient' = <<>>
      /\ Head(toClient) \in Replies
      /\ Head(toClient).op = ReplyOp(req[t])
  BY ReplyExpected
<1>2. /\ pc' = [pc EXCEPT ![t] = "idle"]
      /\ readOutstanding' = FALSE
      /\ jobs' = jobs \o waiters
      /\ waiters' = <<>>
      /\ toServer' = <<>>
      /\ req' = [req EXCEPT ![t] = NoRequest]
      /\ hops' = hops
  BY <1>1 DEF SignalRead
<1>3. /\ jobs' \in Seq(Tasks)
      /\ Len(jobs') = Len(jobs) + Len(waiters)
      /\ \A i \in 1..Len(jobs) : jobs'[i] = jobs[i]
      /\ \A i \in 1..Len(waiters) : jobs'[Len(jobs) + i] = waiters[i]
  BY <1>0, <1>2
<1>4. TypeOK'
  <2>1. readOutstanding' \in BOOLEAN
    BY <1>2
  <2>2. waiters' \in Seq(Tasks) /\ toClient' \in Seq(Replies)
    BY <1>1, <1>2, EmptyList, Zenon
  <2> QED
    BY <1>0, <1>1, <1>2, <1>3, <2>1, <2>2 DEF TypeOK, Phases
<1>5. CallsHaveRequests'
  BY <1>0, <1>2 DEF IInv, CallsHaveRequests, Free, TypeOK
<1>6. QueuesAreDisjoint'
  <2>1. ASSUME NEW i \in 1..Len(jobs')
        PROVE  \/ i \in 1..Len(jobs) /\ jobs'[i] = jobs[i]
               \/ /\ i - Len(jobs) \in 1..Len(waiters)
                  /\ jobs'[i] = waiters[i - Len(jobs)]
                  /\ i \notin 1..Len(jobs)
    <3>1. i \in Nat /\ 1 <= i /\ i <= Len(jobs) + Len(waiters)
      BY <1>0, <1>3
    <3>2. CASE i <= Len(jobs)
      BY <1>0, <1>3, <3>1, <3>2
    <3>3. CASE i > Len(jobs)
      <4>1. i - Len(jobs) \in 1..Len(waiters) /\ Len(jobs) + (i - Len(jobs)) = i
        BY <1>0, <3>1, <3>3
      <4> QED
        BY <1>0, <1>3, <3>3, <4>1
    <3> QED
      BY <1>0, <3>1, <3>2, <3>3
  <2>2. \A i \in 1..Len(jobs) : jobs[i] \in Tasks /\ jobs[i] # t
    <3>1. \A i \in 1..Len(jobs) : jobs[i] \in Tasks
      BY <1>0
    <3> QED
      BY <1>0, <3>1 DEF IInv, QueuesAreDisjoint
  <2>3. \A i \in 1..Len(waiters) : waiters[i] \in Tasks /\ waiters[i] # t
    <3>1. \A i \in 1..Len(waiters) : waiters[i] \in Tasks
      BY <1>0
    <3> QED
      BY <1>0, <3>1 DEF IInv, QueuesAreDisjoint
  <2>4. \A i \in 1..Len(jobs') : pc'[jobs'[i]] \in {"scheduled", "waiting"}
    BY <1>0, <1>2, <2>1, <2>2, <2>3 DEF IInv, QueuesAreDisjoint
  <2>5. ASSUME NEW i \in 1..Len(jobs'), NEW j \in 1..Len(jobs'), jobs'[i] = jobs'[j]
        PROVE  i = j
    <3>1. CASE i \in 1..Len(jobs) /\ j \in 1..Len(jobs)
      BY <2>1, <2>5, <3>1 DEF IInv, QueuesAreDisjoint
    <3>2. CASE i \notin 1..Len(jobs) /\ j \notin 1..Len(jobs)
      <4>1. i - Len(jobs) = j - Len(jobs)
        BY <2>1, <2>5, <3>2 DEF IInv, QueuesAreDisjoint
      <4> QED
        BY <4>1, <1>0, <1>3
    <3>3. CASE i \in 1..Len(jobs) <=> j \notin 1..Len(jobs)
      BY <2>1, <2>5, <3>3 DEF IInv, QueuesAreDisjoint
    <3> QED
      BY <3>1, <3>2, <3>3
  <2>6. Len(waiters') = 0
    BY <1>2
  <2>7. \A i \in 1..Len(waiters') : FALSE
    BY <2>6
  <2> QED
    BY <2>4, <2>5, <2>7 DEF QueuesAreDisjoint
<1>7. \A u \in Tasks : ~Holding(u)'
  BY <1>0, <1>2 DEF IInv, OneConversation, Holding
<1>8. OneConversation'
  BY <1>7 DEF OneConversation
<1>9. SocketHasConversation'
  BY <1>1, <1>2, <1>7 DEF SocketHasConversation, Holding
<1>10. LockHasHolder' /\ WaitersWaitForLock'
  BY <1>2 DEF LockHasHolder, WaitersWaitForLock
<1> QED
  BY <1>4, <1>5, <1>6, <1>8, <1>9, <1>10 DEF IInv

LEMMA ReadEofStep ==
  ASSUME NEW t \in Tasks, IInv, ReadEof(t)
  PROVE  IInv'
<1> USE DEF ReadEof, netVars, lockVars, sockVars
<1>0. /\ TypeOK
      /\ pc \in [Tasks -> Phases]
      /\ pc[t] = "reading" /\ server = "dead"
      /\ pc' = [pc EXCEPT ![t] = "raised"]
      /\ toClient = <<>>
  BY DEF IInv, TypeOK
<1>1. TypeOK'
  BY <1>0 DEF TypeOK, Phases
<1>2. CallsHaveRequests'
  BY <1>0 DEF IInv, CallsHaveRequests, Free, TypeOK
<1>3. QueuesAreDisjoint'
  <2>1. \A i \in 1..Len(jobs) : jobs[i] \in Tasks
    BY <1>0 DEF TypeOK
  <2>2. \A i \in 1..Len(waiters) : waiters[i] \in Tasks
    BY <1>0 DEF TypeOK
  <2> QED
    BY <1>0, <2>1, <2>2 DEF IInv, QueuesAreDisjoint
<1>4. OneConversation'
  BY <1>0 DEF IInv, OneConversation, Holding
<1>5. SocketHasConversation'
  <2>1. \A u \in Tasks : pc[u] = "reading" => u = t
    BY <1>0 DEF IInv, OneConversation, Holding
  <2>2. toServer = <<>>
    BY <1>0 DEF IInv, SocketHasConversation
  <2> QED
    BY <1>0, <2>1, <2>2 DEF SocketHasConversation
<1>6. LockHasHolder' /\ WaitersWaitForLock'
  BY <1>0 DEF IInv, LockHasHolder, WaitersWaitForLock
<1> QED
  BY <1>1, <1>2, <1>3, <1>4, <1>5, <1>6 DEF IInv

LEMMA HandleRequestStep == IInv /\ HandleRequest => IInv'
<1> SUFFICES ASSUME IInv, HandleRequest PROVE IInv'
  OBVIOUS
<1> USE DEF HandleRequest, lockVars, taskVars
<1>0. /\ TypeOK
      /\ toServer \in Seq(Requests)
      /\ server = "listening"
  BY DEF IInv, TypeOK
<1>1. PICK t \in Tasks : pc[t] = "reading"
  BY DEF IInv, SocketHasConversation
<1>2. toServer = <<req[t]>> /\ toClient = <<>> /\ req[t] \in Requests
  BY <1>0, <1>1 DEF IInv, SocketHasConversation
<1>3. /\ toServer' = <<>>
      /\ toClient' = <<ReplyTo(req[t], switches)>>
      /\ wire' = WireAfter(req[t], switches, wire)
  BY <1>2
<1>4. /\ ReplyTo(req[t], switches) \in Replies
      /\ ReplyTo(req[t], switches).op = ReplyOp(req[t])
      /\ wire' \in [SwitchIds -> Seq(Messages)]
  <2>1. switches \in SUBSET SwitchIds /\ wire \in [SwitchIds -> Seq(Messages)]
    BY <1>0 DEF TypeOK
  <2> QED
    BY <1>2, <1>3, <2>1, ReplyToType, WireAfterType
<1>5. TypeOK'
  <2>1. toServer' \in Seq(Requests) /\ toClient' \in Seq(Replies)
    BY <1>3, <1>4, Singleton, EmptyList, Zenon
  <2> QED
    BY <1>0, <1>4, <2>1 DEF TypeOK
<1>6. CallsHaveRequests' /\ QueuesAreDisjoint'
  BY DEF IInv, CallsHaveRequests, Free, QueuesAreDisjoint
<1>7. OneConversation'
  BY DEF IInv, OneConversation, Holding
<1>8. \A u \in Tasks : pc[u] = "reading" => u = t
  BY <1>1 DEF IInv, OneConversation, Holding
<1>9. SocketHasConversation'
  <2> DEFINE y == ReplyTo(req[t], switches)
  <2>1. toClient' # <<>> /\ toClient' = <<Head(toClient')>> /\ Head(toClient') = y
    BY <1>3, <1>4, Singleton, Zenon
  <2>2. pc' = pc /\ req' = req
    OBVIOUS
  <2> QED
    BY <1>1, <1>3, <1>4, <1>8, <2>1, <2>2 DEF SocketHasConversation
<1>10. LockHasHolder' /\ WaitersWaitForLock'
  BY DEF IInv, LockHasHolder, WaitersWaitForLock, Holding
<1> QED
  BY <1>5, <1>6, <1>7, <1>9, <1>10 DEF IInv

LEMMA SwitchStep ==
  ASSUME NEW s \in SwitchIds, IInv,
         SwitchConnects(s) \/ SwitchDisconnects(s) \/ SwitchReceives(s)
  PROVE  IInv'
<1>0. TypeOK
  BY DEF IInv
<1>1. CASE SwitchConnects(s)
  <2>1. TypeOK'
    BY <1>0, <1>1 DEF TypeOK, SwitchConnects, lockVars, sockVars, taskVars
  <2> QED
    BY <1>1, <2>1, OutsideStep DEF SwitchConnects
<1>2. CASE SwitchDisconnects(s)
  <2>1. wire' \in [SwitchIds -> Seq(Messages)]
    BY <1>0, <1>2 DEF TypeOK, SwitchDisconnects
  <2>2. TypeOK'
    BY <1>0, <1>2, <2>1 DEF TypeOK, SwitchDisconnects, lockVars, sockVars, taskVars
  <2> QED
    BY <1>2, <2>2, OutsideStep DEF SwitchDisconnects
<1>3. CASE SwitchReceives(s)
  <2>1. wire' \in [SwitchIds -> Seq(Messages)]
    BY <1>0, <1>3 DEF TypeOK, SwitchReceives
  <2>2. TypeOK'
    BY <1>0, <1>3, <2>1 DEF TypeOK, SwitchReceives, lockVars, sockVars, taskVars
  <2> QED
    BY <1>3, <2>2, OutsideStep DEF SwitchReceives
<1> QED
  BY <1>1, <1>2, <1>3

LEMMA NextPreservesIInv == IInv /\ [Next]_vars => IInv'
<1> SUFFICES ASSUME IInv, [Next]_vars PROVE IInv'
  OBVIOUS
<1>1. CASE Next
  <2>1. CASE ServerListens \/ Connect \/ Die
    BY <2>1, ServerListensStep, ConnectStep, DieStep
  <2>2. ASSUME NEW t \in Tasks, TaskStep(t) PROVE IInv'
    BY <2>2, HopStep, ClearToReadStep, WriteRequestStep, ReadReplyStep, ReadEofStep
       DEF TaskStep
  <2>3. ASSUME NEW t \in Tasks, NEW r \in Requests, NEW h \in 0..MaxHops,
               Call(t, r, h) PROVE IInv'
    BY <2>3, CallStep
  <2>4. CASE HandleRequest
    BY <2>4, HandleRequestStep
  <2>5. ASSUME NEW s \in SwitchIds,
               SwitchConnects(s) \/ SwitchDisconnects(s) \/ SwitchReceives(s)
        PROVE  IInv'
    BY <2>5, SwitchStep
  <2> QED
    BY <1>1, <2>1, <2>2, <2>3, <2>4, <2>5 DEF Next
<1>2. CASE UNCHANGED vars
  <2>1. TypeOK'
    BY <1>2 DEF vars, IInv, TypeOK
  <2> QED
    BY <1>2, <2>1, OutsideStep DEF vars, lockVars, sockVars, taskVars
<1> QED
  BY <1>1, <1>2

(* IInv holds in every reachable state. *)
THEOREM Inductive == Spec => []IInv
<1> QED
  BY InitEstablishesIInv, NextPreservesIInv, PTL DEF Spec

(* Every variable keeps its type. *)
THEOREM TypeCorrect == Spec => []TypeOK
<1>1. IInv => TypeOK
  BY DEF IInv
<1> QED
  BY <1>1, Inductive, PTL

(* The shared socket carries one conversation at a time. *)
THEOREM SocketIsExclusive == Spec => []OneConversation
<1>1. IInv => OneConversation
  BY DEF IInv
<1> QED
  BY <1>1, Inductive, PTL

(* A task only ever reads the answer to its own request, so the `assert false'
   branches of the plug-in are unreachable. *)
THEOREM AssertionsHold == Spec => []RepliesMatch
<1>1. IInv => RepliesMatch
  BY ReplyExpected DEF RepliesMatch
<1> QED
  BY <1>1, Inductive, PTL

(* A waiter always has someone to wait for, unless the process is dead. *)
THEOREM WakeupsAreNotLost == Spec => []NoLostWakeup
<1>1. IInv => NoLostWakeup
  BY DEF IInv, NoLostWakeup, LockHasHolder, WaitersWaitForLock
<1> QED
  BY <1>1, Inductive, PTL

(* A read that raises leaves the client stuck, and it stays so. *)
THEOREM FailureIsFinal == Spec => FailedReadIsFinal
<1> DEFINE Failing == \E t \in Tasks : pc[t] = "reading" /\ pc'[t] = "raised"
<1>1. IInv /\ [Next]_vars => [Stuck \/ Failing => Stuck']_vars
  <2> SUFFICES ASSUME IInv, Next, Stuck \/ Failing PROVE Stuck'
    OBVIOUS
  <2>0. pc \in [Tasks -> Phases]
    BY DEF IInv, TypeOK
  <2>1. CASE \/ ServerListens \/ Connect \/ Die \/ HandleRequest
    <3>1. pc' = pc /\ readOutstanding' = readOutstanding
      BY <2>1 DEF ServerListens, Connect, Die, HandleRequest, lockVars, taskVars
    <3>2. server = "dead" => server' = "dead"
      BY <2>1 DEF ServerListens, Connect, Die, HandleRequest
    <3> QED
      BY <3>1, <3>2 DEF Stuck, Holding
  <2>2. ASSUME NEW u \in Tasks, NEW r \in Requests, NEW h \in 0..MaxHops,
               Call(u, r, h)
        PROVE  Stuck'
    BY <2>0, <2>2 DEF Call, Stuck, Holding, Free
  <2>3. ASSUME NEW u \in Tasks, Hop(u) \/ ClearToRead(u)
        PROVE  Stuck'
    BY <2>0, <2>3 DEF Hop, ClearToRead, taskVars, Stuck, Holding
  <2>4. ASSUME NEW u \in Tasks, WriteRequest(u)
        PROVE  Stuck'
    BY <2>0, <2>4 DEF WriteRequest, Stuck, Holding
  <2>5. ASSUME NEW u \in Tasks, ReadReply(u)
        PROVE  Stuck'
    <3>1. Head(toClient).op = ReplyOp(req[u])
      BY <2>5, ReplyExpected DEF ReadReply
    <3>2. pc[u] = "reading" /\ pc' = [pc EXCEPT ![u] = "idle"]
      BY <2>5, <3>1 DEF ReadReply
    <3> QED
      BY <2>0, <3>2 DEF Stuck, Holding
  <2>6. ASSUME NEW u \in Tasks, ReadEof(u)
        PROVE  Stuck'
    <3>1. pc[u] = "reading" /\ pc' = [pc EXCEPT ![u] = "raised"] /\ server' = "dead"
      BY <2>6 DEF ReadEof
    <3>2. readOutstanding' = TRUE
      BY <2>6, <3>1 DEF ReadEof, lockVars, IInv, OneConversation, Holding, TypeOK
    <3> QED
      BY <2>0, <3>1, <3>2 DEF IInv, OneConversation, Stuck, Holding
  <2>7. ASSUME NEW s \in SwitchIds,
               SwitchConnects(s) \/ SwitchDisconnects(s) \/ SwitchReceives(s)
        PROVE  Stuck'
    BY <2>7 DEF SwitchConnects, SwitchDisconnects, SwitchReceives, lockVars,
                taskVars, Stuck, Holding
  <2> QED
    BY <2>1, <2>2, <2>3, <2>4, <2>5, <2>6, <2>7 DEF Next, TaskStep
<1> QED
  BY <1>1, Inductive, PTL DEF Spec, FailedReadIsFinal

----
(* Refinement: the client implements the atomic calls of RpcService. *)

LEMMA InitRefines == Init => Service!Init
<1> SUFFICES ASSUME Init PROVE Service!Init
  OBVIOUS
<1>1. phaseBar = [t \in Tasks |-> "idle"]
  BY DEF Init, phaseBar, Free
<1>2. replyBar = [t \in Tasks |-> NoReply]
  BY DEF Init, replyBar, Answered
<1> QED
  BY <1>1, <1>2 DEF Init, Service!Init

(* Steps the service does not see. *)
LEMMA StutterRefines ==
  ASSUME UNCHANGED <<switches, wire, req>>, phaseBar' = phaseBar,
         replyBar' = replyBar, server = "dead" <=> server' = "dead"
  PROVE  UNCHANGED Service!vars
BY DEF Service!vars

LEMMA CallRefines ==
  ASSUME NEW t \in Tasks, NEW r \in Requests, NEW h \in 0..MaxHops, IInv,
         Call(t, r, h)
  PROVE  Service!Invoke(t, r)
<1> USE DEF Call, netVars, sockVars
<1>0. pc \in [Tasks -> Phases] /\ reply \in [Tasks -> Replies \cup {NoReply}]
  BY DEF IInv, TypeOK
<1>1. phaseBar[t] = "idle"
  BY DEF phaseBar
<1>2. phaseBar' = [phaseBar EXCEPT ![t] = "invoked"]
  BY <1>0 DEF phaseBar, Free, Answered
<1>3. replyBar' = [replyBar EXCEPT ![t] = NoReply]
  BY <1>0 DEF replyBar, Free, Answered
<1> QED
  BY <1>1, <1>2, <1>3 DEF Service!Invoke

LEMMA ReadReplyRefines ==
  ASSUME NEW t \in Tasks, IInv, ReadReply(t)
  PROVE  Service!Return(t)
<1> USE DEF ReadReply, netVars
<1>0. /\ pc \in [Tasks -> Phases]
      /\ reply \in [Tasks -> Replies \cup {NoReply}]
      /\ pc[t] = "reading" /\ toClient # <<>>
  BY DEF IInv, TypeOK
<1>1. /\ toClient' = <<>>
      /\ pc' = [pc EXCEPT ![t] = "idle"]
      /\ reply' = [reply EXCEPT ![t] = Head(toClient)]
  BY ReplyExpected DEF SignalRead
<1>2. \A u \in Tasks : pc[u] = "reading" => u = t
  BY <1>0 DEF IInv, OneConversation, Holding
<1>3. phaseBar[t] = "answered"
  BY <1>0 DEF phaseBar, Answered, Free
<1>4. phaseBar' = [phaseBar EXCEPT ![t] = "idle"]
  BY <1>0, <1>1, <1>2 DEF phaseBar, Free, Answered
<1>5. replyBar' = replyBar
  BY <1>0, <1>1, <1>2 DEF replyBar, Answered
<1> QED
  BY <1>3, <1>4, <1>5 DEF Service!Return

LEMMA ReadEofRefines ==
  ASSUME NEW t \in Tasks, IInv, ReadEof(t)
  PROVE  Service!Raise(t)
<1> USE DEF ReadEof, netVars, sockVars
<1>0. pc \in [Tasks -> Phases] /\ pc[t] = "reading" /\ toClient = <<>>
  BY DEF IInv, TypeOK
<1>1. phaseBar[t] = "invoked"
  BY <1>0 DEF phaseBar, Answered, Free
<1>2. phaseBar' = [phaseBar EXCEPT ![t] = "idle"]
  BY <1>0 DEF phaseBar, Free, Answered
<1>3. replyBar' = replyBar
  BY <1>0 DEF replyBar, Answered
<1> QED
  BY <1>1, <1>2, <1>3 DEF Service!Raise

(* The request is carried out, and the answer chosen, in this one step. *)
LEMMA HandleRequestRefines ==
  ASSUME IInv, HandleRequest
  PROVE  \E t \in Tasks : Service!Execute(t)
<1> USE DEF HandleRequest, taskVars
<1>0. /\ pc \in [Tasks -> Phases]
      /\ reply \in [Tasks -> Replies \cup {NoReply}]
      /\ server = "listening"
  BY DEF IInv, TypeOK
<1>1. PICK t \in Tasks : pc[t] = "reading"
  BY DEF IInv, SocketHasConversation
<1>2. toServer = <<req[t]>> /\ toClient = <<>> /\ req[t] \in Requests
  BY <1>0, <1>1 DEF IInv, TypeOK, SocketHasConversation
<1>3. \A u \in Tasks : pc[u] = "reading" => u = t
  BY <1>1 DEF IInv, OneConversation, Holding
<1>4. /\ toClient' = <<ReplyTo(req[t], switches)>>
      /\ wire' = WireAfter(req[t], switches, wire)
  BY <1>2
<1>5. ReplyTo(req[t], switches) \in Replies
  BY <1>2, ReplyToType DEF IInv, TypeOK
<1>6. toClient' # <<>> /\ Head(toClient') = ReplyTo(req[t], switches)
  BY <1>4, <1>5, Singleton, Zenon
<1>7. phaseBar[t] = "invoked"
  BY <1>1, <1>2 DEF phaseBar, Answered, Free
<1>8. phaseBar' = [phaseBar EXCEPT ![t] = "answered"]
  BY <1>0, <1>1, <1>2, <1>3, <1>6 DEF phaseBar, Free, Answered
<1>9. replyBar' = [replyBar EXCEPT ![t] = ReplyTo(req[t], switches)]
  BY <1>0, <1>1, <1>2, <1>3, <1>6 DEF replyBar, Answered
<1>10. /\ Service!ReplyTo(req[t], switches) = ReplyTo(req[t], switches)
       /\ Service!WireAfter(req[t], switches, wire)
            = WireAfter(req[t], switches, wire)
  BY DEF Service!ReplyTo, ReplyTo, Service!ReplyOp, ReplyOp,
         Service!WireAfter, WireAfter, Service!Payload, Payload
<1> QED
  BY <1>0, <1>4, <1>7, <1>8, <1>9, <1>10 DEF Service!Execute

LEMMA DieRefines ==
  ASSUME IInv, Die
  PROVE  Service!Die
<1>1. phaseBar' = phaseBar /\ replyBar' = replyBar
  BY DEF Die, lockVars, taskVars, phaseBar, replyBar, Answered, Free
<1> QED
  BY <1>1 DEF Die, taskVars, Service!Die

LEMMA LockStepRefines ==
  ASSUME NEW t \in Tasks, IInv, Hop(t) \/ ClearToRead(t) \/ WriteRequest(t)
  PROVE  UNCHANGED Service!vars
<1>0. pc \in [Tasks -> Phases]
  BY DEF IInv, TypeOK
<1>1. CASE ClearToRead(t)
  <2>1. pc[t] \in {"scheduled", "waiting"}
    BY <1>1 DEF IInv, TypeOK, QueuesAreDisjoint, ClearToRead
  <2>2. phaseBar' = phaseBar /\ replyBar' = replyBar
    BY <1>0, <1>1, <2>1
       DEF ClearToRead, sockVars, phaseBar, replyBar, Answered, Free
  <2> QED
    BY <1>1, <2>2, StutterRefines DEF ClearToRead, netVars
<1>2. CASE WriteRequest(t)
  <2>1. \A u \in Tasks : pc[u] # "reading"
    BY <1>0, <1>2 DEF IInv, OneConversation, Holding, WriteRequest
  <2>2. toClient = <<>>
    BY <2>1 DEF IInv, SocketHasConversation
  <2>3. phaseBar' = phaseBar /\ replyBar' = replyBar
    BY <1>0, <1>2, <2>2
       DEF WriteRequest, phaseBar, replyBar, Answered, Free
  <2> QED
    BY <1>2, <2>3, StutterRefines DEF WriteRequest, netVars
<1>3. CASE Hop(t)
  <2>1. phaseBar' = phaseBar /\ replyBar' = replyBar
    BY <1>3 DEF Hop, sockVars, taskVars, phaseBar, replyBar, Answered, Free
  <2> QED
    BY <1>3, <2>1, StutterRefines DEF Hop, netVars, taskVars
<1> QED
  BY <1>1, <1>2, <1>3

LEMMA SwitchStepRefines ==
  ASSUME NEW s \in SwitchIds, IInv,
         SwitchConnects(s) \/ SwitchDisconnects(s) \/ SwitchReceives(s)
  PROVE  \/ Service!SwitchConnects(s)
         \/ Service!SwitchDisconnects(s)
         \/ Service!SwitchReceives(s)
<1>1. phaseBar' = phaseBar /\ replyBar' = replyBar /\ req' = req /\ server' = server
  BY DEF SwitchConnects, SwitchDisconnects, SwitchReceives, sockVars, taskVars,
         phaseBar, replyBar, Answered, Free
<1> QED
  BY <1>1 DEF SwitchConnects, SwitchDisconnects, SwitchReceives,
     Service!SwitchConnects, Service!SwitchDisconnects, Service!SwitchReceives

LEMMA NextRefines == IInv /\ [Next]_vars => [Service!Next]_Service!vars
<1> SUFFICES ASSUME IInv, [Next]_vars PROVE [Service!Next]_Service!vars
  OBVIOUS
<1>1. CASE ServerListens \/ Connect \/ UNCHANGED vars
  <2>1. phaseBar' = phaseBar /\ replyBar' = replyBar
    BY <1>1 DEF ServerListens, Connect, vars, lockVars, sockVars, taskVars,
                phaseBar, replyBar, Answered, Free
  <2> QED
    BY <1>1, <2>1, StutterRefines
       DEF ServerListens, Connect, vars, netVars, taskVars
<1>2. CASE Die
  BY <1>2, DieRefines DEF Service!Next
<1>3. ASSUME NEW t \in Tasks, TaskStep(t)
      PROVE  [Service!Next]_Service!vars
  BY <1>3, LockStepRefines, ReadReplyRefines, ReadEofRefines
     DEF TaskStep, Service!Next
<1>4. ASSUME NEW t \in Tasks, NEW r \in Requests, NEW h \in 0..MaxHops,
               Call(t, r, h)
      PROVE  [Service!Next]_Service!vars
  <2>1. r \in Service!Requests
    BY DEF Requests, Service!Requests
  <2> QED
    BY <1>4, <2>1, CallRefines DEF Service!Next
<1>5. CASE HandleRequest
  BY <1>5, HandleRequestRefines DEF Service!Next
<1>6. ASSUME NEW s \in SwitchIds,
             SwitchConnects(s) \/ SwitchDisconnects(s) \/ SwitchReceives(s)
      PROVE  [Service!Next]_Service!vars
  BY <1>6, SwitchStepRefines DEF Service!Next
<1> QED
  BY <1>1, <1>2, <1>3, <1>4, <1>5, <1>6 DEF Next

(* Every behaviour of the client and of the request loop is one of RpcService. *)
THEOREM Refinement == Spec => ImplementsService
<1> QED
  BY InitRefines, NextRefines, Inductive, PTL
     DEF Spec, ImplementsService, Service!Spec
====
