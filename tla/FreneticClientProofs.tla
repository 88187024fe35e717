---- MODULE FreneticClientProofs ----
(* Polls and events, for any clients, numbers of events, crashes and policies. *)
EXTENDS FreneticClient, FiniteSetTheorems, TLAPS

Numbers == 1..MaxEvents

PollTypeOK ==
  /\ \A f \in {sent, waiting, failures, stale, exits} : f \in [Clients -> Nat]
  /\ \A f \in {answers, lost} : f \in [Clients -> SUBSET Numbers]
  /\ \A f \in {pipe, handled} : f \in [Clients -> Seq(Numbers)]
  /\ loop \in [Clients -> Loops]
  /\ event \in 0..MaxEvents /\ budget \in Budget

\* Each reader that a dead process left may swallow an event yet.
LossesCounted == \A c \in Clients : Cardinality(lost[c]) + stale[c] <= exits[c]

PollInv == PollTypeOK /\ OnePoll /\ LossesCounted

\* What a client was told of, what is on its way to it and what is in its pipe, in
\* this order, were numbered in this order.
InOrder ==
  \A c \in Clients :
    /\ \A i \in 1..Len(handled[c]) :
         /\ handled[c][i] <= event
         /\ \A e \in answers[c] : handled[c][i] < e
         /\ \A j \in 1..Len(pipe[c]) : handled[c][i] < pipe[c][j]
    /\ \A e \in answers[c] : e <= event /\ \A j \in 1..Len(pipe[c]) : e < pipe[c][j]
    /\ \A i, j \in 1..Len(pipe[c]) : i < j => pipe[c][i] < pipe[c][j]
    /\ \A i \in 1..Len(pipe[c]) : pipe[c][i] <= event

ClientInv == PollInv /\ InOrder

---------------------------------------------------------------------------
(* Sets of events. *)

LEMMA EventsAreFinite ==
  ASSUME NEW S \in SUBSET Numbers
  PROVE  IsFiniteSet(S) /\ Cardinality(S) \in Nat
<1>1. IsFiniteSet(Numbers)
  BY ClientBounds, FS_Interval DEF Numbers
<1> QED
  BY <1>1, FS_Subset, FS_CardinalityType

LEMMA NoneOrOne ==
  ASSUME NEW S \in SUBSET Numbers
  PROVE  /\ Cardinality({}) = 0
         /\ Cardinality(S) = 0 => S = {}
         /\ \A e \in S : Cardinality(S \ {e}) = Cardinality(S) - 1
         /\ \A e \in Numbers : Cardinality(S \cup {e}) <= Cardinality(S) + 1
         /\ \A e : Cardinality({e}) = 1
<1>1. IsFiniteSet(S) /\ Cardinality(S) \in Nat
  BY EventsAreFinite
<1>2. Cardinality({}) = 0 /\ (Cardinality(S) = 0 => S = {})
  BY <1>1, FS_EmptySet
<1>3. ASSUME NEW e \in S PROVE Cardinality(S \ {e}) = Cardinality(S) - 1
  BY <1>1, FS_RemoveElement
<1>4. ASSUME NEW e \in Numbers PROVE Cardinality(S \cup {e}) <= Cardinality(S) + 1
  <2>1. Cardinality(S \cup {e}) = IF e \in S THEN Cardinality(S) ELSE Cardinality(S) + 1
    BY <1>1, FS_AddElement
  <2> QED
    BY <1>1, <2>1
<1>5. \A e : Cardinality({e}) = 1
  BY FS_Singleton
<1> QED
  BY <1>2, <1>3, <1>4, <1>5

LEMMA UnionCounts ==
  ASSUME NEW S \in SUBSET Numbers, NEW T \in SUBSET Numbers
  PROVE  Cardinality(S \cup T) <= Cardinality(S) + Cardinality(T)
<1>1. /\ IsFiniteSet(S) /\ IsFiniteSet(T)
      /\ Cardinality(S) \in Nat /\ Cardinality(T) \in Nat
  BY EventsAreFinite
<1>2. Cardinality(S \cap T) \in Nat
  <2>1. S \cap T \in SUBSET Numbers
    OBVIOUS
  <2> QED
    BY <2>1, EventsAreFinite
<1>3. Cardinality(S \cup T) = Cardinality(S) + Cardinality(T) - Cardinality(S \cap T)
  BY <1>1, FS_Union
<1> QED
  BY <1>1, <1>2, <1>3

LEMMA SumIsZero ==
  ASSUME NEW j \in Nat, NEW k \in Nat, NEW m \in Nat, NEW n \in Nat, j + k + m + n = 0
  PROVE  j = 0 /\ k = 0 /\ m = 0 /\ n = 0
  OBVIOUS

LEMMA SumIsOne ==
  ASSUME NEW j \in Nat, NEW k \in Nat, NEW m \in Nat, NEW n \in Nat,
         j + k + m + n = 1, k > 0
  PROVE  j = 0 /\ k = 1 /\ m = 0 /\ n = 0
  OBVIOUS

---------------------------------------------------------------------------
(* Steps of one application. *)

LEMMA SamePollsKeep ==
  ASSUME ClientInv, UNCHANGED <<feed, polls, history, faults, event>>,
         loop' \in [Clients -> Loops],
         \A c \in Clients : loop'[c] = "running" <=> loop[c] = "running"
  PROVE  ClientInv'
<1> USE DEF feed, polls, history, faults
<1>1. PollTypeOK'
  BY DEF ClientInv, PollInv, PollTypeOK
<1>2. OnePoll' /\ LossesCounted' /\ InOrder'
  BY DEF ClientInv, PollInv, OnePoll, LossesCounted, InOrder
<1> QED
  BY <1>1, <1>2 DEF ClientInv, PollInv

LEMMA LoopsKeep ==
  ASSUME ClientInv, NEW c \in Clients,
         Start(c) \/ VersionReply(c) \/ HandleConnectError(c) \/ Retry(c)
  PROVE  ClientInv'
<1>1. UNCHANGED <<feed, polls, history, faults, event>>
  BY DEF Start, VersionReply, HandleConnectError, Retry
<1>2. loop \in [Clients -> Loops]
  BY DEF ClientInv, PollInv, PollTypeOK
<1>3. loop' \in [Clients -> Loops]
      /\ \A d \in Clients : loop'[d] = "running" <=> loop[d] = "running"
  <2>1. CASE Start(c)
    BY <1>2, <2>1 DEF Start, Loops
  <2>2. CASE VersionReply(c)
    BY <1>2, <2>2 DEF VersionReply, Loops
  <2>3. CASE HandleConnectError(c)
    BY <1>2, <2>3 DEF HandleConnectError, Loops
  <2>4. CASE Retry(c)
    BY <1>2, <2>4 DEF Retry, Loops
  <2> QED
    BY <2>1, <2>2, <2>3, <2>4
<1> QED
  BY <1>1, <1>3, SamePollsKeep

\* The counts of a client, as arithmetic sees them.
LEMMA Counts ==
  ASSUME PollInv, NEW c \in Clients
  PROVE  /\ sent[c] \in Nat /\ waiting[c] \in Nat /\ failures[c] \in Nat /\ stale[c] \in Nat
         /\ exits[c] \in Nat /\ answers[c] \in SUBSET Numbers /\ lost[c] \in SUBSET Numbers
         /\ Cardinality(answers[c]) \in Nat /\ Cardinality(lost[c]) \in Nat
         /\ sent[c] + waiting[c] + failures[c] + Cardinality(answers[c])
              = IF loop[c] = "running" THEN 1 ELSE 0
         /\ Cardinality(lost[c]) + stale[c] <= exits[c]
<1>1. answers[c] \in SUBSET Numbers /\ lost[c] \in SUBSET Numbers
  BY DEF PollInv, PollTypeOK
<1>2. Cardinality(answers[c]) \in Nat /\ Cardinality(lost[c]) \in Nat
  BY <1>1, EventsAreFinite
<1> QED
  BY <1>1, <1>2 DEF PollInv, PollTypeOK, OnePoll, LossesCounted

\* A poll of one client moves from one place to another, or is made.
LEMMA OnePollMoves ==
  ASSUME ClientInv, NEW c \in Clients,
         UNCHANGED <<pipe, answers, stale, lost, handled, exits, budget, event>>,
         sent' \in [Clients -> Nat], waiting' \in [Clients -> Nat],
         failures' \in [Clients -> Nat], loop' \in [Clients -> Loops],
         \A d \in Clients \ {c} : /\ sent'[d] = sent[d] /\ waiting'[d] = waiting[d]
                                  /\ failures'[d] = failures[d] /\ loop'[d] = loop[d],
         sent'[c] + waiting'[c] + failures'[c] + Cardinality(answers[c])
           = IF loop'[c] = "running" THEN 1 ELSE 0
  PROVE  ClientInv'
<1>1. PollTypeOK'
  BY DEF ClientInv, PollInv, PollTypeOK
<1>2. OnePoll'
  BY DEF ClientInv, PollInv, OnePoll
<1>3. LossesCounted' /\ InOrder'
  BY DEF ClientInv, PollInv, LossesCounted, InOrder
<1> QED
  BY <1>1, <1>2, <1>3 DEF ClientInv, PollInv

LEMMA HandleConnectKeeps ==
  ASSUME ClientInv, NEW c \in Clients, HandleConnect(c)
  PROVE  ClientInv'
<1> USE DEF feed, polls, history, faults
<1>1. /\ sent \in [Clients -> Nat] /\ waiting \in [Clients -> Nat]
      /\ failures \in [Clients -> Nat] /\ loop \in [Clients -> Loops]
  BY DEF ClientInv, PollInv, PollTypeOK
<1>2. /\ loop[c] = "connected" /\ loop' = [loop EXCEPT ![c] = "running"]
      /\ sent' = [sent EXCEPT ![c] = @ + 1]
      /\ UNCHANGED <<pipe, answers, stale, lost, handled, exits, budget, event, waiting, failures>>
  BY DEF HandleConnect, SendPoll
<1>3. sent' \in [Clients -> Nat] /\ loop' \in [Clients -> Loops]
  BY <1>1, <1>2 DEF Loops
<1>4. /\ sent[c] + waiting[c] + failures[c] + Cardinality(answers[c]) = 0
      /\ sent[c] \in Nat /\ waiting[c] \in Nat /\ failures[c] \in Nat
      /\ Cardinality(answers[c]) \in Nat
  BY <1>2, Counts DEF ClientInv
<1>5. sent'[c] = sent[c] + 1 /\ waiting'[c] = waiting[c] /\ failures'[c] = failures[c]
  BY <1>1, <1>2
<1> DEFINE n == Cardinality(answers[c])
<1>6. sent'[c] + waiting'[c] + failures'[c] + n = 1
  <2>1. sent[c] = 0 /\ waiting[c] = 0 /\ failures[c] = 0 /\ n = 0
    <3> HIDE DEF n
    <3>1. /\ n \in Nat /\ sent[c] \in Nat /\ waiting[c] \in Nat /\ failures[c] \in Nat
          /\ sent[c] + waiting[c] + failures[c] + n = 0
      BY <1>4 DEF n
    <3> QED
      BY ONLY <3>1, SumIsZero
  <2> QED
    BY <1>5, <2>1
<1>7. loop'[c] = "running"
  BY <1>1, <1>2
<1> QED
  BY <1>1, <1>2, <1>3, <1>6, <1>7, OnePollMoves

LEMMA HandleFailureKeeps ==
  ASSUME ClientInv, NEW c \in Clients, HandleFailure(c)
  PROVE  ClientInv'
<1> USE DEF feed, polls, history, faults
<1>1. /\ sent \in [Clients -> Nat] /\ waiting \in [Clients -> Nat]
      /\ failures \in [Clients -> Nat] /\ loop \in [Clients -> Loops]
  BY DEF ClientInv, PollInv, PollTypeOK
<1>2. /\ failures[c] > 0 /\ loop' = [loop EXCEPT ![c] = "retry"]
      /\ failures' = [failures EXCEPT ![c] = @ - 1]
      /\ UNCHANGED <<pipe, answers, stale, lost, handled, exits, budget, event, waiting, sent>>
  BY DEF HandleFailure
<1>3. failures' \in [Clients -> Nat] /\ loop' \in [Clients -> Loops]
  BY <1>1, <1>2 DEF Loops
<1>4. sent[c] + waiting[c] + failures[c] + Cardinality(answers[c]) = 1
  BY <1>1, <1>2, Counts DEF ClientInv
<1>5. sent'[c] + waiting'[c] + failures'[c] + Cardinality(answers[c]) = 0
  BY <1>1, <1>2, <1>4, Counts DEF ClientInv
<1> QED
  BY <1>1, <1>2, <1>3, <1>5, OnePollMoves

LEMMA PollArrivesKeeps ==
  ASSUME ClientInv, NEW c \in Clients, PollArrives(c)
  PROVE  ClientInv'
<1> USE DEF feed, polls, history, faults
<1>1. /\ sent \in [Clients -> Nat] /\ waiting \in [Clients -> Nat]
      /\ failures \in [Clients -> Nat] /\ loop \in [Clients -> Loops]
  BY DEF ClientInv, PollInv, PollTypeOK
<1>2. /\ sent[c] > 0 /\ sent' = [sent EXCEPT ![c] = @ - 1]
      /\ waiting' = [waiting EXCEPT ![c] = @ + 1]
      /\ UNCHANGED <<pipe, answers, stale, lost, handled, exits, budget, event, failures, loop>>
  BY DEF PollArrives
<1>3. sent' \in [Clients -> Nat] /\ waiting' \in [Clients -> Nat]
  BY <1>1, <1>2
<1>4. sent'[c] + waiting'[c] + failures'[c] + Cardinality(answers[c])
        = IF loop'[c] = "running" THEN 1 ELSE 0
  BY <1>1, <1>2, Counts DEF ClientInv
<1> QED
  BY <1>1, <1>2, <1>3, <1>4, OnePollMoves

LEMMA PollFailsKeeps ==
  ASSUME ClientInv, NEW c \in Clients, PollFails(c)
  PROVE  ClientInv'
<1> USE DEF feed, polls, history, faults
<1>1. /\ sent \in [Clients -> Nat] /\ waiting \in [Clients -> Nat]
      /\ failures \in [Clients -> Nat] /\ loop \in [Clients -> Loops]
  BY DEF ClientInv, PollInv, PollTypeOK
<1>2. /\ sent[c] > 0 /\ sent' = [sent EXCEPT ![c] = @ - 1]
      /\ failures' = [failures EXCEPT ![c] = @ + 1]
      /\ UNCHANGED <<pipe, answers, stale, lost, handled, exits, budget, event, waiting, loop>>
  BY DEF PollFails
<1>3. sent' \in [Clients -> Nat] /\ failures' \in [Clients -> Nat]
  BY <1>1, <1>2
<1>4. sent'[c] + waiting'[c] + failures'[c] + Cardinality(answers[c])
        = IF loop'[c] = "running" THEN 1 ELSE 0
  BY <1>1, <1>2, Counts DEF ClientInv
<1> QED
  BY <1>1, <1>2, <1>3, <1>4, OnePollMoves

---------------------------------------------------------------------------
(* Steps that move events. *)

\* An answer is the only one on its way, and later than what was handled before.
LEMMA HandleEventKeeps ==
  ASSUME ClientInv, NEW c \in Clients, HandleEvent(c)
  PROVE  ClientInv'
<1> USE DEF feed, polls, history, faults
<1>1. PICK e \in answers[c] :
        /\ answers' = [answers EXCEPT ![c] = @ \ {e}]
        /\ handled' = [handled EXCEPT ![c] = Append(@, e)]
        /\ \/ sent' = [sent EXCEPT ![c] = @ + 1] /\ loop' = loop
           \/ sent' = sent /\ loop' = [loop EXCEPT ![c] = "raised"]
        /\ UNCHANGED <<pipe, stale, waiting, failures, lost, exits, budget, event>>
  BY DEF HandleEvent, SendPoll
<1>2. /\ sent \in [Clients -> Nat] /\ loop \in [Clients -> Loops]
      /\ answers \in [Clients -> SUBSET Numbers] /\ handled \in [Clients -> Seq(Numbers)]
      /\ handled[c] \in Seq(Numbers) /\ e \in Numbers
  BY DEF ClientInv, PollInv, PollTypeOK
<1>3. /\ sent' \in [Clients -> Nat] /\ loop' \in [Clients -> Loops]
      /\ answers' \in [Clients -> SUBSET Numbers] /\ handled' \in [Clients -> Seq(Numbers)]
  <2>1. /\ Append(handled[c], e) \in Seq(Numbers) /\ answers[c] \ {e} \in SUBSET Numbers
        /\ sent[c] + 1 \in Nat
    BY <1>2
  <2>2. handled' \in [Clients -> Seq(Numbers)] /\ answers' \in [Clients -> SUBSET Numbers]
    BY <1>1, <1>2, <2>1
  <2> QED
    BY <1>1, <1>2, <2>1, <2>2 DEF Loops
<1>4. /\ Cardinality(answers[c]) = 1 /\ loop[c] = "running"
      /\ sent[c] = 0 /\ waiting[c] = 0 /\ failures[c] = 0 /\ answers'[c] = {}
  <2>1. /\ sent[c] \in Nat /\ waiting[c] \in Nat /\ failures[c] \in Nat
        /\ Cardinality(answers[c]) \in Nat /\ answers[c] \in SUBSET Numbers
        /\ sent[c] + waiting[c] + failures[c] + Cardinality(answers[c])
             = IF loop[c] = "running" THEN 1 ELSE 0
    BY Counts DEF ClientInv
  <2>2. Cardinality(answers[c]) # 0
    BY <2>1, NoneOrOne
  <2>3. Cardinality(answers[c] \ {e}) = Cardinality(answers[c]) - 1
    BY <2>1, NoneOrOne
  <2>4. Cardinality(answers[c]) = 1 /\ loop[c] = "running"
        /\ sent[c] = 0 /\ waiting[c] = 0 /\ failures[c] = 0
    <3> DEFINE n == Cardinality(answers[c])
    <3>1. n \in Nat /\ n # 0 /\ sent[c] \in Nat /\ waiting[c] \in Nat /\ failures[c] \in Nat
          /\ sent[c] + waiting[c] + failures[c] + n = IF loop[c] = "running" THEN 1 ELSE 0
      BY <2>1, <2>2
    <3> HIDE DEF n
    <3>2. n = 1 /\ loop[c] = "running" /\ sent[c] = 0 /\ waiting[c] = 0 /\ failures[c] = 0
      BY ONLY <3>1
    <3> QED
      BY <3>2 DEF n
  <2>5. answers[c] \ {e} = {}
    <3>1. answers[c] \ {e} \in SUBSET Numbers /\ Cardinality(answers[c] \ {e}) = 0
      BY <2>1, <2>3, <2>4
    <3> QED
      BY <3>1, NoneOrOne
  <2> QED
    BY <1>1, <1>2, <2>4, <2>5
<1>5. PollTypeOK'
  BY <1>1, <1>3 DEF ClientInv, PollInv, PollTypeOK
<1>6. OnePoll'
  <2>1. sent'[c] + waiting'[c] + failures'[c] + Cardinality(answers'[c])
          = IF loop'[c] = "running" THEN 1 ELSE 0
    <3>1. Cardinality(answers'[c]) = 0 /\ waiting'[c] = 0 /\ failures'[c] = 0
      BY <1>1, <1>4, FS_EmptySet
    <3>2. \/ sent'[c] = 1 /\ loop'[c] = "running"
          \/ sent'[c] = 0 /\ loop'[c] # "running"
      BY <1>1, <1>2, <1>4
    <3> QED
      BY <3>1, <3>2
  <2>2. \A d \in Clients \ {c} : /\ sent'[d] = sent[d] /\ answers'[d] = answers[d]
                                 /\ loop'[d] = loop[d]
    BY <1>1, <1>2
  <2> QED
    BY <1>1, <2>1, <2>2 DEF ClientInv, PollInv, OnePoll
<1>7. LossesCounted'
  BY <1>1 DEF ClientInv, PollInv, LossesCounted
<1>8. InOrder'
  <2>1. /\ Len(handled'[c]) = Len(handled[c]) + 1 /\ handled'[c][Len(handled[c]) + 1] = e
        /\ Len(handled[c]) \in Nat
        /\ \A i \in 1..Len(handled[c]) : handled'[c][i] = handled[c][i]
    BY <1>1, <1>2
  <2>2. \A d \in Clients \ {c} : answers'[d] = answers[d] /\ handled'[d] = handled[d]
    BY <1>1, <1>2
  <2>3. \A i \in 1..Len(handled'[c]) :
           handled'[c][i] <= event /\ \A j \in 1..Len(pipe[c]) : handled'[c][i] < pipe[c][j]
    <3> SUFFICES ASSUME NEW i \in 1..Len(handled'[c])
                 PROVE  /\ handled'[c][i] <= event
                        /\ \A j \in 1..Len(pipe[c]) : handled'[c][i] < pipe[c][j]
      OBVIOUS
    <3>1. CASE i \in 1..Len(handled[c])
      BY <2>1, <3>1 DEF ClientInv, InOrder
    <3>2. CASE i = Len(handled[c]) + 1
      BY <2>1, <3>2 DEF ClientInv, InOrder
    <3> QED
      BY <2>1, <3>1, <3>2
  <2>4. ASSUME NEW d \in Clients \ {c}
        PROVE  UNCHANGED <<answers[d], handled[d], pipe[d], event>>
    BY <1>1, <2>2
  <2> QED
    BY <1>1, <1>4, <2>3, <2>4 DEF ClientInv, InOrder
<1> QED
  BY <1>5, <1>6, <1>7, <1>8 DEF ClientInv, PollInv

\* A crash of the application: the reader it leaves and the answer on its way are one
\* poll at most.
LEMMA AppCrashKeeps ==
  ASSUME ClientInv, NEW c \in Clients, AppCrash(c)
  PROVE  ClientInv'
<1>1. /\ exits' = [exits EXCEPT ![c] = @ + 1] /\ loop' = [loop EXCEPT ![c] = "down"]
      /\ sent' = [sent EXCEPT ![c] = 0] /\ failures' = [failures EXCEPT ![c] = 0]
      /\ answers' = [answers EXCEPT ![c] = {}]
      /\ lost' = [lost EXCEPT ![c] = @ \cup answers[c]]
      /\ waiting' = [waiting EXCEPT ![c] = 0]
      /\ UNCHANGED <<event, pipe, handled, budget>>
  BY DEF AppCrash
<1>9. PICK late \in 0..sent[c] : stale' = [stale EXCEPT ![c] = @ + waiting[c] + late]
  BY DEF AppCrash
<1>2. /\ \A f \in {sent, waiting, failures, stale, exits} : f \in [Clients -> Nat]
      /\ answers \in [Clients -> SUBSET Numbers] /\ lost \in [Clients -> SUBSET Numbers]
      /\ loop \in [Clients -> Loops]
  BY DEF ClientInv, PollInv, PollTypeOK
<1>3. PollTypeOK'
  <2>1. /\ sent' \in [Clients -> Nat] /\ waiting' \in [Clients -> Nat]
        /\ failures' \in [Clients -> Nat]
    BY <1>1, <1>2
  <2>2. stale' \in [Clients -> Nat] /\ exits' \in [Clients -> Nat]
    <3>1. stale[c] + waiting[c] + late \in Nat /\ exits[c] + 1 \in Nat
      BY <1>2, <1>9
    <3> QED
      BY <1>1, <1>2, <1>9, <3>1
  <2>3. answers' \in [Clients -> SUBSET Numbers] /\ lost' \in [Clients -> SUBSET Numbers]
    <3>1. lost[c] \cup answers[c] \in SUBSET Numbers
      BY <1>2
    <3> QED
      BY <1>1, <1>2, <3>1
  <2>4. loop' \in [Clients -> Loops]
    BY <1>1, <1>2 DEF Loops
  <2> QED
    BY <1>1, <2>1, <2>2, <2>3, <2>4 DEF ClientInv, PollInv, PollTypeOK
<1>4. \A d \in Clients \ {c} :
        UNCHANGED <<sent[d], waiting[d], failures[d], answers[d], loop[d], lost[d], stale[d],
                    exits[d]>>
  BY <1>1, <1>2, <1>9
<1>5. OnePoll'
  <2>1. sent'[c] + waiting'[c] + failures'[c] + Cardinality(answers'[c])
          = IF loop'[c] = "running" THEN 1 ELSE 0
    <3>1. /\ sent'[c] = 0 /\ waiting'[c] = 0 /\ failures'[c] = 0
          /\ answers'[c] = {} /\ loop'[c] = "down"
      BY <1>1, <1>2
    <3>2. Cardinality(answers'[c]) = 0
      BY <3>1, FS_EmptySet
    <3> QED
      BY <3>1, <3>2
  <2> QED
    BY <1>4, <2>1 DEF ClientInv, PollInv, OnePoll
<1>6. LossesCounted'
  <2> DEFINE n == Cardinality(answers[c])
             before == Cardinality(lost[c])
             after == Cardinality(lost'[c])
  <2>1. /\ after \in Nat /\ before \in Nat /\ n \in Nat /\ after <= before + n
        /\ before + stale[c] <= exits[c]
    <3>1. /\ lost'[c] = lost[c] \cup answers[c]
          /\ lost[c] \in SUBSET Numbers /\ answers[c] \in SUBSET Numbers
          /\ lost'[c] \in SUBSET Numbers
      BY <1>1, <1>2
    <3>2. Cardinality(lost[c] \cup answers[c]) <= Cardinality(lost[c]) + Cardinality(answers[c])
      BY <3>1, UnionCounts
    <3>3. Cardinality(lost[c]) + stale[c] <= exits[c]
      BY Counts DEF ClientInv
    <3> QED
      BY <3>1, <3>2, <3>3, EventsAreFinite
  <2>2. /\ sent[c] \in Nat /\ waiting[c] \in Nat /\ failures[c] \in Nat
        /\ stale[c] \in Nat /\ exits[c] \in Nat
        /\ sent[c] + waiting[c] + failures[c] + n = IF loop[c] = "running" THEN 1 ELSE 0
    BY Counts DEF ClientInv
  <2>3. stale'[c] = stale[c] + waiting[c] + late /\ exits'[c] = exits[c] + 1
    BY <1>1, <1>2, <1>9
  <2> HIDE DEF n, before, after
  <2>4. late \in Nat /\ waiting[c] + late + n <= 1
    BY ONLY <1>9, <2>1, <2>2
  <2>5. after + stale'[c] <= exits'[c]
    BY ONLY <2>1, <2>2, <2>3, <2>4
  <2> QED
    BY <1>4, <2>5 DEF ClientInv, PollInv, LossesCounted, after
<1>7. InOrder'
  <2>1. answers'[c] = {}
    BY <1>1, <1>2
  <2> QED
    BY <1>1, <1>4, <2>1 DEF ClientInv, InOrder
<1> QED
  BY <1>3, <1>5, <1>6, <1>7 DEF ClientInv, PollInv

\* Pipe.read: the first event of the pipe goes to a dead reader, or on its way.
LEMMA ServeKeeps ==
  ASSUME ClientInv, NEW c \in Clients, Serve(c)
  PROVE  ClientInv'
<1> USE DEF feed, polls, history, faults
<1> DEFINE e == Head(pipe[c])
<1>1. /\ pipe[c] # <<>> /\ pipe' = [pipe EXCEPT ![c] = Tail(@)]
      /\ UNCHANGED <<loop, sent, failures, handled, exits, budget, event>>
  BY DEF Serve, AfterRead
<1>2. /\ \A f \in {sent, waiting, failures, stale, exits} : f \in [Clients -> Nat]
      /\ answers \in [Clients -> SUBSET Numbers] /\ lost \in [Clients -> SUBSET Numbers]
      /\ pipe \in [Clients -> Seq(Numbers)] /\ pipe[c] \in Seq(Numbers)
      /\ answers[c] \in SUBSET Numbers /\ lost[c] \in SUBSET Numbers
  BY DEF ClientInv, PollInv, PollTypeOK
<1>3. /\ pipe' \in [Clients -> Seq(Numbers)] /\ e \in Numbers /\ pipe'[c] = Tail(pipe[c])
      /\ Len(pipe'[c]) = Len(pipe[c]) - 1 /\ Len(pipe[c]) \in Nat /\ Len(pipe[c]) > 0
      /\ e = pipe[c][1] /\ \A j \in 1..Len(pipe'[c]) : pipe'[c][j] = pipe[c][j + 1]
  <2>1. Tail(pipe[c]) \in Seq(Numbers) /\ pipe'[c] = Tail(pipe[c])
    BY <1>1, <1>2
  <2>2. pipe' \in [Clients -> Seq(Numbers)]
    BY <1>1, <1>2, <2>1
  <2>3. /\ Len(pipe[c]) \in Nat /\ Len(pipe[c]) > 0 /\ e = pipe[c][1]
        /\ Len(Tail(pipe[c])) = Len(pipe[c]) - 1 /\ pipe[c][1] \in Numbers
        /\ \A j \in 1..Len(Tail(pipe[c])) : Tail(pipe[c])[j] = pipe[c][j + 1]
    BY <1>1, <1>2
  <2> QED
    BY <2>1, <2>2, <2>3
<1> HIDE DEF e
\* What is left of the pipe is later than e.
<1>4. /\ \A j \in 1..Len(pipe'[c]) : e < pipe'[c][j] /\ pipe'[c][j] <= event
      /\ \A i, j \in 1..Len(pipe'[c]) : i < j => pipe'[c][i] < pipe'[c][j]
      /\ e <= event
      /\ \A i \in 1..Len(handled[c]) :
           handled[c][i] < e /\ \A j \in 1..Len(pipe'[c]) : handled[c][i] < pipe'[c][j]
      /\ \A f \in answers[c] : \A j \in 1..Len(pipe'[c]) : f < pipe'[c][j]
  <2>1. 1 \in 1..Len(pipe[c]) /\ \A j \in 1..Len(pipe'[c]) : j + 1 \in 1..Len(pipe[c]) /\ 1 < j + 1
    BY <1>3
  <2>2. \A i, j \in 1..Len(pipe'[c]) : i < j => i + 1 < j + 1
    OBVIOUS
  <2> QED
    BY <1>3, <2>1, <2>2 DEF ClientInv, InOrder
<1>5. \A d \in Clients \ {c} : pipe'[d] = pipe[d]
  BY <1>1, <1>2
<1>6. CASE /\ stale[c] > 0 /\ stale' = [stale EXCEPT ![c] = @ - 1]
           /\ lost' = [lost EXCEPT ![c] = @ \cup {e}]
           /\ UNCHANGED <<waiting, answers>>
  <2>1. PollTypeOK'
    <3>1. lost[c] \cup {e} \in SUBSET Numbers /\ stale[c] - 1 \in Nat
      BY <1>2, <1>3, <1>6
    <3>2. lost' \in [Clients -> SUBSET Numbers] /\ stale' \in [Clients -> Nat]
      BY <1>2, <1>6, <3>1
    <3> QED
      BY <1>1, <1>3, <1>6, <3>2 DEF ClientInv, PollInv, PollTypeOK
  <2>2. OnePoll'
    BY <1>1, <1>6 DEF ClientInv, PollInv, OnePoll
  <2>3. LossesCounted'
    <3> DEFINE before == Cardinality(lost[c])
               after == Cardinality(lost'[c])
    <3>1. /\ stale[c] \in Nat /\ exits[c] \in Nat /\ before + stale[c] <= exits[c]
          /\ before \in Nat
      BY Counts DEF ClientInv
    <3>2. after \in Nat /\ after <= before + 1
      <4>1. lost'[c] = lost[c] \cup {e} /\ lost[c] \cup {e} \in SUBSET Numbers
        BY <1>2, <1>3, <1>6
      <4> QED
        BY <1>2, <1>3, <4>1, NoneOrOne, EventsAreFinite
    <3>3. stale'[c] = stale[c] - 1 /\ exits'[c] = exits[c]
      BY <1>1, <1>2, <1>6
    <3> HIDE DEF before, after
    <3>4. after + stale'[c] <= exits'[c]
      BY ONLY <3>1, <3>2, <3>3
    <3>5. \A d \in Clients \ {c} : lost'[d] = lost[d] /\ stale'[d] = stale[d]
      BY <1>2, <1>6
    <3> QED
      BY <1>1, <3>4, <3>5 DEF ClientInv, PollInv, LossesCounted, after
  <2>4. InOrder'
    BY <1>1, <1>4, <1>5, <1>6 DEF ClientInv, InOrder
  <2> QED
    BY <2>1, <2>2, <2>3, <2>4 DEF ClientInv, PollInv
<1>7. CASE /\ waiting[c] > 0 /\ waiting' = [waiting EXCEPT ![c] = @ - 1]
           /\ answers' = [answers EXCEPT ![c] = @ \cup {e}]
           /\ UNCHANGED <<stale, lost>>
  <2> DEFINE n == Cardinality(answers[c])
  <2>1. /\ sent[c] \in Nat /\ waiting[c] \in Nat /\ failures[c] \in Nat /\ n \in Nat
        /\ sent[c] + waiting[c] + failures[c] + n = IF loop[c] = "running" THEN 1 ELSE 0
    BY Counts DEF ClientInv
  <2> HIDE DEF n
  <2>2. n = 0 /\ sent[c] = 0 /\ failures[c] = 0 /\ waiting[c] = 1 /\ loop[c] = "running"
    <3>1. waiting[c] > 0
      BY <1>7
    <3>2. loop[c] = "running"
      BY ONLY <2>1, <3>1
    <3> QED
      BY ONLY <2>1, <3>1, <3>2, SumIsOne
  <2>3. answers[c] = {}
    BY <1>2, <2>2, NoneOrOne DEF n
  <2>4. answers'[c] = {e} /\ waiting'[c] = 0
    BY <1>2, <1>7, <2>2, <2>3
  <2>5. PollTypeOK'
    <3>1. waiting' \in [Clients -> Nat] /\ answers' \in [Clients -> SUBSET Numbers]
      <4>1. answers[c] \cup {e} \in SUBSET Numbers /\ waiting[c] - 1 \in Nat
        BY <1>2, <1>3, <2>2
      <4> QED
        BY <1>2, <1>7, <4>1
    <3> QED
      BY <1>1, <1>3, <1>7, <3>1 DEF ClientInv, PollInv, PollTypeOK
  <2>6. \A d \in Clients \ {c} : waiting'[d] = waiting[d] /\ answers'[d] = answers[d]
    BY <1>2, <1>7
  <2>7. OnePoll'
    <3>1. Cardinality(answers'[c]) = 1
      BY <2>4, FS_Singleton
    <3>2. sent'[c] + waiting'[c] + failures'[c] + Cardinality(answers'[c])
            = IF loop'[c] = "running" THEN 1 ELSE 0
      BY <1>1, <2>2, <2>4, <3>1
    <3> QED
      BY <1>1, <2>6, <3>2 DEF ClientInv, PollInv, OnePoll
  <2>8. LossesCounted'
    BY <1>1, <1>7 DEF ClientInv, PollInv, LossesCounted
  <2>9. InOrder'
    <3>1. ASSUME NEW d \in Clients \ {c}
          PROVE  UNCHANGED <<answers[d], handled[d], pipe[d], event>>
      BY <1>1, <1>5, <2>6
    <3>2. handled'[c] = handled[c] /\ event' = event
      BY <1>1
    <3>3. \A i \in 1..Len(handled[c]) : handled[c][i] <= event
      BY DEF ClientInv, InOrder
    <3> QED
      BY <1>4, <2>4, <3>1, <3>2, <3>3 DEF ClientInv, InOrder
  <2> QED
    BY <2>5, <2>7, <2>8, <2>9 DEF ClientInv, PollInv
<1> QED
  BY <1>6, <1>7 DEF Serve, e

\* propogate_events: the new event is later than all before it.
LEMMA NetworkEventKeeps ==
  ASSUME ClientInv, NetworkEvent
  PROVE  ClientInv'
<1> USE DEF polls, history, faults
<1>1. /\ event < budget.events /\ event' = event + 1
      /\ pipe' = [c \in Clients |->
                    IF c \in known THEN Append(pipe[c], event + 1) ELSE pipe[c]]
      /\ UNCHANGED <<stale, waiting, sent, answers, failures, handled, lost, exits, budget, loop>>
  BY DEF NetworkEvent
<1>2. /\ event \in Nat /\ MaxEvents \in Nat /\ budget.events \in 0..MaxEvents
      /\ pipe \in [Clients -> Seq(Numbers)]
  BY ClientBounds DEF ClientInv, PollInv, PollTypeOK, Budget
<1>3. event + 1 \in Numbers /\ event' \in 0..MaxEvents
  BY <1>1, <1>2 DEF Numbers
<1>4. PollTypeOK'
  <2>1. \A c \in Clients : Append(pipe[c], event + 1) \in Seq(Numbers)
    BY <1>2, <1>3
  <2>2. pipe' \in [Clients -> Seq(Numbers)]
    BY <1>1, <1>2, <2>1
  <2> QED
    BY <1>1, <1>3, <2>2 DEF ClientInv, PollInv, PollTypeOK
<1>5. OnePoll' /\ LossesCounted'
  BY <1>1 DEF ClientInv, PollInv, OnePoll, LossesCounted
<1>6. InOrder'
  <2>1. ASSUME NEW c \in Clients
        PROVE  /\ \A i \in 1..Len(handled[c]) :
                    /\ handled[c][i] <= event + 1
                    /\ \A e \in answers[c] : handled[c][i] < e
                    /\ \A j \in 1..Len(pipe'[c]) : handled[c][i] < pipe'[c][j]
               /\ \A e \in answers[c] :
                    e <= event + 1 /\ \A j \in 1..Len(pipe'[c]) : e < pipe'[c][j]
               /\ \A i, j \in 1..Len(pipe'[c]) : i < j => pipe'[c][i] < pipe'[c][j]
               /\ \A i \in 1..Len(pipe'[c]) : pipe'[c][i] <= event + 1
    <3>1. /\ Len(pipe[c]) \in Nat
          /\ \A i \in 1..Len(pipe'[c]) :
               \/ i \in 1..Len(pipe[c]) /\ pipe'[c][i] = pipe[c][i]
               \/ i = Len(pipe[c]) + 1 /\ pipe'[c][i] = event + 1
      <4>1. pipe[c] \in Seq(Numbers)
        BY <1>2
      <4>2. CASE c \in known
        <5>1. pipe'[c] = Append(pipe[c], event + 1)
          BY <1>1, <4>2
        <5> QED
          BY <4>1, <5>1
      <4>3. CASE c \notin known
        BY <1>1, <4>1, <4>3
      <4> QED
        BY <4>2, <4>3
    <3>2. /\ \A i \in 1..Len(handled[c]) :
               /\ handled[c][i] \in Nat /\ handled[c][i] <= event
               /\ \A e \in answers[c] : handled[c][i] < e
               /\ \A j \in 1..Len(pipe[c]) : handled[c][i] < pipe[c][j]
          /\ \A e \in answers[c] :
               e \in Nat /\ e <= event /\ \A j \in 1..Len(pipe[c]) : e < pipe[c][j]
          /\ \A i, j \in 1..Len(pipe[c]) : i < j => pipe[c][i] < pipe[c][j]
          /\ \A i \in 1..Len(pipe[c]) : pipe[c][i] \in Nat /\ pipe[c][i] <= event
      <4>1. /\ handled[c] \in Seq(Numbers) /\ pipe[c] \in Seq(Numbers)
            /\ answers[c] \in SUBSET Numbers
        BY DEF ClientInv, PollInv, PollTypeOK
      <4>2. \A i \in 1..Len(handled[c]) : handled[c][i] \in Nat
        <5>1. \A i \in 1..Len(handled[c]) : handled[c][i] \in Numbers
          BY <4>1
        <5> QED
          BY <5>1 DEF Numbers
      <4>3. \A i \in 1..Len(pipe[c]) : pipe[c][i] \in Nat
        <5>1. \A i \in 1..Len(pipe[c]) : pipe[c][i] \in Numbers
          BY <4>1
        <5> QED
          BY <5>1 DEF Numbers
      <4>4. \A e \in answers[c] : e \in Nat
        BY <4>1 DEF Numbers
      <4> QED
        BY <4>2, <4>3, <4>4 DEF ClientInv, InOrder
    <3>3. \A i \in 1..Len(handled[c]) :
            /\ handled[c][i] <= event + 1
            /\ \A e \in answers[c] : handled[c][i] < e
            /\ \A j \in 1..Len(pipe'[c]) : handled[c][i] < pipe'[c][j]
      <4> SUFFICES ASSUME NEW i \in 1..Len(handled[c])
                   PROVE  /\ handled[c][i] <= event + 1
                          /\ \A e \in answers[c] : handled[c][i] < e
                          /\ \A j \in 1..Len(pipe'[c]) : handled[c][i] < pipe'[c][j]
        OBVIOUS
      <4> DEFINE x == handled[c][i]
      <4>1. /\ x \in Nat /\ x <= event /\ \A e \in answers[c] : x < e
            /\ \A j \in 1..Len(pipe[c]) : x < pipe[c][j]
        BY <3>2
      <4> HIDE DEF x
      <4>2. \A j \in 1..Len(pipe'[c]) : x < pipe'[c][j]
        BY <1>2, <3>1, <4>1
      <4> QED
        BY <1>2, <4>1, <4>2 DEF x
    <3>4. \A e \in answers[c] :
            e <= event + 1 /\ \A j \in 1..Len(pipe'[c]) : e < pipe'[c][j]
      <4> SUFFICES ASSUME NEW e \in answers[c]
                   PROVE  e <= event + 1 /\ \A j \in 1..Len(pipe'[c]) : e < pipe'[c][j]
        OBVIOUS
      <4>1. e \in Nat /\ e <= event /\ \A j \in 1..Len(pipe[c]) : e < pipe[c][j]
        BY <3>2
      <4>2. \A j \in 1..Len(pipe'[c]) : e < pipe'[c][j]
        BY <1>2, <3>1, <4>1
      <4> QED
        BY <1>2, <4>1, <4>2
    <3>5. \A i, j \in 1..Len(pipe'[c]) : i < j => pipe'[c][i] < pipe'[c][j]
      <4> SUFFICES ASSUME NEW i \in 1..Len(pipe'[c]), NEW j \in 1..Len(pipe'[c]), i < j
                   PROVE  pipe'[c][i] < pipe'[c][j]
        OBVIOUS
      <4>1. i \in 1..Len(pipe[c]) /\ pipe'[c][i] = pipe[c][i]
        BY <3>1
      <4> QED
        BY <1>2, <3>1, <3>2, <4>1
    <3>6. \A i \in 1..Len(pipe'[c]) : pipe'[c][i] <= event + 1
      BY <1>2, <3>1, <3>2
    <3> QED
      BY <3>3, <3>4, <3>5, <3>6
  <2> QED
    BY <1>1, <2>1 DEF InOrder
<1> QED
  BY <1>4, <1>5, <1>6 DEF ClientInv, PollInv

\* Waiting polls become failures, and the readers of dead processes are gone.
LEMMA ControllerCrashKeeps ==
  ASSUME ClientInv, ControllerCrash
  PROVE  ClientInv'
<1>1. /\ pipe' = [c \in Clients |-> <<>>] /\ stale' = Zero /\ waiting' = Zero
      /\ failures' = [c \in Clients |-> failures[c] + waiting[c]]
      /\ UNCHANGED <<event, loop, sent, answers, handled, lost, exits, budget>>
  BY DEF ControllerCrash, history
<1>2. \A c \in Clients : /\ pipe'[c] = <<>> /\ stale'[c] = 0 /\ waiting'[c] = 0
                         /\ failures'[c] = failures[c] + waiting[c]
  BY <1>1 DEF Zero
<1>3. PollTypeOK'
  <2>1. \A c \in Clients : failures[c] + waiting[c] \in Nat
    BY Counts DEF ClientInv
  <2>2. /\ failures' \in [Clients -> Nat] /\ stale' \in [Clients -> Nat]
        /\ waiting' \in [Clients -> Nat] /\ pipe' \in [Clients -> Seq(Numbers)]
    BY <1>1, <2>1 DEF Zero
  <2> QED
    BY <1>1, <2>2 DEF ClientInv, PollInv, PollTypeOK
<1>4. OnePoll'
  <2> SUFFICES ASSUME NEW c \in Clients
               PROVE  sent'[c] + waiting'[c] + failures'[c] + Cardinality(answers'[c])
                        = IF loop'[c] = "running" THEN 1 ELSE 0
    BY DEF OnePoll
  <2> DEFINE n == Cardinality(answers[c])
  <2>1. /\ sent[c] \in Nat /\ waiting[c] \in Nat /\ failures[c] \in Nat /\ n \in Nat
        /\ sent[c] + waiting[c] + failures[c] + n = IF loop[c] = "running" THEN 1 ELSE 0
    BY Counts DEF ClientInv
  <2> HIDE DEF n
  <2>2. waiting'[c] = 0 /\ failures'[c] = failures[c] + waiting[c] /\ sent'[c] = sent[c]
    BY <1>1, <1>2
  <2>3. sent'[c] + waiting'[c] + failures'[c] + n = IF loop[c] = "running" THEN 1 ELSE 0
    BY ONLY <2>1, <2>2
  <2> QED
    BY <1>1, <2>3 DEF n
<1>5. LossesCounted'
  <2> SUFFICES ASSUME NEW c \in Clients PROVE Cardinality(lost[c]) <= exits[c]
    BY <1>1, <1>2, Counts DEF LossesCounted, ClientInv
  <2> DEFINE n == Cardinality(lost[c])
  <2>1. n \in Nat /\ stale[c] \in Nat /\ exits[c] \in Nat /\ n + stale[c] <= exits[c]
    BY Counts DEF ClientInv
  <2> HIDE DEF n
  <2>2. n <= exits[c]
    BY ONLY <2>1
  <2> QED
    BY <2>2 DEF n
<1>6. InOrder'
  <2>1. \A c \in Clients : Len(pipe'[c]) = 0
    BY <1>2
  <2> QED
    BY <1>1, <2>1 DEF ClientInv, InOrder
<1> QED
  BY <1>3, <1>4, <1>5, <1>6 DEF ClientInv, PollInv

---------------------------------------------------------------------------

LEMMA ClientInvAtFirst == Init => ClientInv
<1> SUFFICES ASSUME Init PROVE ClientInv
  OBVIOUS
<1>1. PollTypeOK
  BY ClientBounds DEF Init, PollTypeOK, Zero, Loops
<1>2. \A c \in Clients : /\ sent[c] = 0 /\ waiting[c] = 0 /\ failures[c] = 0 /\ answers[c] = {}
                         /\ lost[c] = {} /\ stale[c] = 0 /\ exits[c] = 0
                         /\ loop[c] = "down" /\ Len(pipe[c]) = 0 /\ Len(handled[c]) = 0
  BY DEF Init, Zero
<1>3. OnePoll
  <2>1. \A c \in Clients : Cardinality(answers[c]) = 0
    BY <1>2, FS_EmptySet
  <2>2. \A c \in Clients : loop[c] # "running"
    BY <1>2
  <2> QED
    BY <1>2, <2>1, <2>2 DEF OnePoll
<1>4. LossesCounted
  <2>1. \A c \in Clients : Cardinality(lost[c]) = 0
    BY <1>2, FS_EmptySet
  <2> QED
    BY <1>2, <2>1 DEF LossesCounted
<1>5. InOrder
  BY <1>2 DEF InOrder
<1> QED
  BY <1>1, <1>3, <1>4, <1>5 DEF ClientInv, PollInv

LEMMA ClientInvStep == ClientInv /\ [Next]_vars => ClientInv'
<1> SUFFICES ASSUME ClientInv, [Next]_vars PROVE ClientInv'
  OBVIOUS
<1> USE DEF feed, polls, history, faults
<1>1. ASSUME NEW c \in Clients, AppNext(c) PROVE ClientInv'
  BY <1>1, LoopsKeep, HandleConnectKeeps, HandleEventKeeps, HandleFailureKeeps, AppCrashKeeps
     DEF AppNext
<1>2. ASSUME NEW c \in Clients, FrontNext(c) PROVE ClientInv'
  <2>1. CASE UpdateArrives(c) \/ UpdateFails(c)
    <3>1. UNCHANGED <<feed, polls, history, faults, event, loop>>
      BY <2>1 DEF UpdateArrives, UpdateFails
    <3> QED
      BY <3>1, SamePollsKeep DEF ClientInv, PollInv, PollTypeOK
  <2> QED
    BY <1>2, <2>1, PollArrivesKeeps, PollFailsKeeps, ServeKeeps DEF FrontNext
<1>3. CASE Install \/ ControllerStart \/ UNCHANGED vars
  <2>1. UNCHANGED <<feed, polls, history, faults, event, loop>>
    BY <1>3 DEF Install, ControllerStart, vars
  <2> QED
    BY <2>1, SamePollsKeep DEF ClientInv, PollInv, PollTypeOK
<1> QED
  BY <1>1, <1>2, <1>3, NetworkEventKeeps, ControllerCrashKeeps DEF Next

LEMMA ClientInvStays == Spec => []ClientInv
  BY ClientInvAtFirst, ClientInvStep, PTL DEF Spec

\* __init__.py: a running application has one poll, and any other none, for any clients
\* and whatever crashes.
THEOREM ApplicationsPollOnce == Spec => []OnePoll
<1>1. ClientInv => OnePoll
  BY DEF ClientInv, PollInv
<1> QED
  BY ClientInvStays, <1>1, PTL

\* A crash of an application costs it one event at most.
THEOREM CrashesLoseOneEvent == Spec => []OneLostPerExit
<1>1. ClientInv => OneLostPerExit
  <2> SUFFICES ASSUME ClientInv, NEW c \in Clients PROVE Cardinality(lost[c]) <= exits[c]
    BY DEF OneLostPerExit
  <2> DEFINE n == Cardinality(lost[c])
  <2>1. n \in Nat /\ stale[c] \in Nat /\ exits[c] \in Nat /\ n + stale[c] <= exits[c]
    BY Counts DEF ClientInv
  <2> HIDE DEF n
  <2>2. n <= exits[c]
    BY ONLY <2>1
  <2> QED
    BY <2>2 DEF n
<1> QED
  BY ClientInvStays, <1>1, PTL

---------------------------------------------------------------------------
(* The feed. *)

LEMMA FeedStep == ClientInv /\ [Next]_vars => [Feed!Next]_handled
<1> SUFFICES ASSUME ClientInv, [Next]_vars PROVE [Feed!Next]_handled
  OBVIOUS
<1> USE DEF feed, polls, history, faults
<1>1. ASSUME NEW c \in Clients, HandleEvent(c) PROVE Feed!Next
  <2>1. PICK e \in answers[c] : handled' = [handled EXCEPT ![c] = Append(@, e)]
    BY <1>1 DEF HandleEvent
  <2>2. e \in 1..MaxEvents
    BY DEF ClientInv, PollInv, PollTypeOK, Numbers
  <2>3. \A i \in 1..Len(handled[c]) : handled[c][i] < e
    BY DEF ClientInv, InOrder
  <2> QED
    BY <2>1, <2>2, <2>3 DEF Feed!Next, Feed!Deliver
<1>2. CASE ~\E c \in Clients : HandleEvent(c)
  <2>1. UNCHANGED handled
    <3>1. ASSUME NEW c \in Clients, AppNext(c) PROVE UNCHANGED handled
      BY <1>2, <3>1 DEF AppNext, Start, VersionReply, HandleConnect, HandleConnectError,
         Retry, HandleFailure, AppCrash
    <3>2. ASSUME NEW c \in Clients, FrontNext(c) PROVE UNCHANGED handled
      BY <3>2 DEF FrontNext, PollArrives, PollFails, Serve, UpdateArrives, UpdateFails
    <3>3. CASE NetworkEvent \/ Install \/ ControllerCrash \/ ControllerStart \/ UNCHANGED vars
      BY <3>3 DEF NetworkEvent, Install, ControllerCrash, ControllerStart, vars
    <3> QED
      BY <3>1, <3>2, <3>3 DEF Next
  <2> QED
    BY <2>1
<1> QED
  BY <1>1, <1>2

\* The client and the front end together are a feed: an application is told of the
\* network's events in their order and of none twice.
THEOREM ClientImplementsFeed == Spec => ImplementsFeed
<1>1. Init => Feed!Init
  BY DEF Init, Feed!Init
<1> QED
  BY <1>1, ClientInvStays, FeedStep, PTL DEF Spec, ImplementsFeed, Feed!Spec

====
