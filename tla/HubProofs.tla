----------------------------- MODULE HubProofs ------------------------------
(***************************************************************************)
(* The safety of the circuit breaker for every set of callers and every    *)
(* threshold; of the calls that go through it: HubCalls implements         *)
(* CircuitBreaker, and the lock of the sidecar's brain never has an owner  *)
(* or a waiter that has left; of the boot, which finds in time the hub it  *)
(* has started; and of the bytes of a call: whatever the messages, each    *)
(* side reads what the other was given to write.                           *)
(***************************************************************************)
EXTENDS HubCalls, HubBoot, HubWire, SequenceTheorems, WellFoundedInduction, TLAPS

-----------------------------------------------------------------------------
(* The breaker.  StatusMatchesCount is what makes a failed probe reopen the *)
(* circuit, so HalfOpenIsCool is inductive only together with it.           *)

Inv == TypeOK /\ StatusMatchesCount /\ HalfOpenIsCool

\* The constructor's state satisfies the invariant.
LEMMA BreakerInit == Init => Inv
BY BreakerAssumption DEF Init, Inv, TypeOK, StatusMatchesCount, HalfOpenIsCool

\* Every step of every caller, and of the hub, keeps it.
LEMMA BreakerNext ==
  ASSUME Inv, [Next]_vars
  PROVE  Inv'
<1> USE BreakerAssumption DEF Inv, TypeOK, StatusMatchesCount, HalfOpenIsCool
<1>1. ASSUME NEW c \in Callers, Begin(c) PROVE Inv'
  BY <1>1 DEF Begin, Send, Refused
<1>2. ASSUME NEW c \in Callers, Succeed(c) PROVE Inv'
  BY <1>2 DEF Succeed
<1>3. ASSUME NEW c \in Callers, Fail(c) PROVE Inv'
  <2>1. failureCount' \in Nat /\ cooledDown' = FALSE /\ serving' \in BOOLEAN
    BY <1>3 DEF Fail
  <2>2. call' \in [Callers -> {"idle", "sent", "doomed"}]
    BY <1>3 DEF Fail
  <2>3. CASE failureCount' >= FAILURE_THRESHOLD
    <3>1. circuitStatus' = "OPEN" /\ ~(failureCount' < FAILURE_THRESHOLD)
      BY <1>3, <2>1, <2>3 DEF Fail
    <3>2. QED
      BY <2>1, <2>2, <3>1
  <2>4. CASE failureCount' < FAILURE_THRESHOLD
    <3>1. circuitStatus' = circuitStatus /\ failureCount < FAILURE_THRESHOLD
      BY <1>3, <2>1, <2>4 DEF Fail
    <3>2. circuitStatus = "CLOSED"
      BY <3>1
    <3>3. QED
      BY <2>1, <2>2, <2>4, <3>1, <3>2
  <2>5. QED
    BY <2>1, <2>3, <2>4
<1>4. CASE CoolDown
  BY <1>4 DEF CoolDown
<1>5. CASE HubDown
  BY <1>5 DEF HubDown, breaker
<1>6. CASE HubUp
  BY <1>6 DEF HubUp, breaker
<1>7. ASSUME NEW c \in Callers, Disturb(c) PROVE Inv'
  BY <1>7 DEF Disturb, breaker
<1>8. CASE UNCHANGED vars
  BY <1>8 DEF vars, breaker
<1>9. QED
  BY <1>1, <1>2, <1>3, <1>4, <1>5, <1>6, <1>7, <1>8 DEF Next

\* The invariant holds in every reachable state.
THEOREM BreakerInvariant == Spec => []Inv
<1>1. QED
  BY BreakerInit, BreakerNext, PTL DEF Spec

\* The types of the breaker's fields.
THEOREM BreakerTypeCorrect == Spec => []TypeOK
<1>1. Inv => TypeOK
  BY DEF Inv
<1>2. QED
  BY <1>1, BreakerInvariant, PTL

\* The status and the count never disagree.
THEOREM BreakerStatusMatchesCount == Spec => []StatusMatchesCount
<1>1. Inv => StatusMatchesCount
  BY DEF Inv
<1>2. QED
  BY <1>1, BreakerInvariant, PTL

\* One failure while half-open reopens the circuit.
THEOREM BreakerHalfOpenIsCool == Spec => []HalfOpenIsCool
<1>1. Inv => HalfOpenIsCool
  BY DEF Inv
<1>2. QED
  BY <1>1, BreakerInvariant, PTL

\* SentOnlyWhenCool without the box.
SparingStep ==
  \A c \in Callers :
    call[c] = "idle" /\ call'[c] # "idle" =>
      failureCount < FAILURE_THRESHOLD \/ (cooledDown /\ circuitStatus' = "HALF_OPEN")

\* A call is sent only by Begin, which makes an open circuit half-open.
LEMMA StepIsSparing ==
  ASSUME Inv, [Next]_vars
  PROVE  SparingStep
<1> USE BreakerAssumption DEF Inv, TypeOK, StatusMatchesCount, HalfOpenIsCool, SparingStep
<1>1. ASSUME NEW c \in Callers, Begin(c) PROVE SparingStep
  BY <1>1 DEF Begin, Send, Refused
<1>2. ASSUME NEW c \in Callers, Succeed(c) PROVE SparingStep
  BY <1>2 DEF Succeed
<1>3. ASSUME NEW c \in Callers, Fail(c) PROVE SparingStep
  BY <1>3 DEF Fail
<1>4. CASE CoolDown
  BY <1>4 DEF CoolDown
<1>5. CASE HubDown
  BY <1>5 DEF HubDown
<1>6. CASE HubUp
  BY <1>6 DEF HubUp
<1>7. ASSUME NEW c \in Callers, Disturb(c) PROVE SparingStep
  BY <1>7 DEF Disturb, breaker
<1>8. CASE UNCHANGED vars
  BY <1>8 DEF vars
<1>9. QED
  BY <1>1, <1>2, <1>3, <1>4, <1>5, <1>6, <1>7, <1>8 DEF Next

\* While the circuit is tripped and still cooling, the hub is sent nothing new.
THEOREM BreakerSparesTheHub == Spec => SentOnlyWhenCool
<1>1. Inv /\ [Next]_vars => [SparingStep]_vars
  BY StepIsSparing
<1>2. Spec => [][SparingStep]_vars
  BY <1>1, BreakerInvariant, PTL DEF Spec
<1>3. QED
  BY <1>2 DEF SentOnlyWhenCool, SparingStep

-----------------------------------------------------------------------------
(* Every step of a call on its way is one of the breaker, or leaves it alone. *)

\* The answer and the failure of a call, for the breaker.
LEMMA AnswerIsBreakerStep ==
  ASSUME NEW c \in Callers, Answered(c) \/ Failing(c) \/ GiveUp(c)
  PROVE  [Next]_vars
BY DEF Answered, Failing, GiveUp, Next

\* Each action of the way, seen from the breaker.
LEMMA HubStepIsBreakerStep ==
  ASSUME thinking \in Callers \cup {Nobody, Abandoned}, [HubNext]_hubVars
  PROVE  [Next]_vars
<1>1. ASSUME NEW c \in Callers, NEW m \in Methods, Ask(c, m) \/ Open(c, m) PROVE [Next]_vars
  BY <1>1 DEF Ask, Open, Next
<1>2. ASSUME NEW c \in Callers, HubStep(c) PROVE [Next]_vars
  <2>1. CASE OwnAnswer(c)
    BY <2>1, AnswerIsBreakerStep DEF OwnAnswer
  <2>2. CASE Reject(c)
    BY <2>2, AnswerIsBreakerStep DEF Reject
  <2>3. CASE Delegate(c) \/ FallBack(c) \/ CommandLine(c)
    BY <2>3 DEF Delegate, FallBack, CommandLine
  <2>4. CASE LinkedTooLate(c)
    BY <2>4, AnswerIsBreakerStep DEF LinkedTooLate
  <2>5. CASE Fails(c)
    BY <2>5 DEF Fails, Next
  <2> QED
    BY <1>2, <2>1, <2>2, <2>3, <2>4, <2>5 DEF HubStep
<1>3. ASSUME NEW c \in Callers, SidecarStep(c) PROVE [Next]_vars
  <2>1. CASE Execute(c) \/ Read(c)
    BY <2>1, AnswerIsBreakerStep DEF Execute, Read
  <2>2. CASE Enqueue(c) \/ Think(c) \/ Unreachable(c) \/ Again(c)
    BY <2>2 DEF Enqueue, Think, Unreachable, Again
  <2>3. CASE TryFails(c)
    BY <2>3, AnswerIsBreakerStep DEF TryFails
  <2>4. CASE Deadline(c)
    BY <2>4, AnswerIsBreakerStep DEF Deadline
  <2> QED
    BY <1>3, <2>1, <2>2, <2>3, <2>4 DEF SidecarStep
<1>4. ASSUME NEW c \in Callers, CommandEnds(c) PROVE [Next]_vars
  BY <1>4, AnswerIsBreakerStep DEF CommandEnds
<1>5. CASE SidecarDown \/ SidecarUp \/ Link
  BY <1>5 DEF SidecarDown, SidecarUp, Link
<1>6. CASE HubDies \/ HubStarts \/ Cool
  BY <1>6 DEF HubDies, HubStarts, Cool, Next
<1>7. CASE UNCHANGED hubVars
  BY <1>7 DEF hubVars
<1>8. CASE ThinkEnds
  BY <1>8, AnswerIsBreakerStep DEF ThinkEnds
<1> QED
  BY <1>1, <1>2, <1>3, <1>4, <1>5, <1>6, <1>7, <1>8 DEF HubNext

-----------------------------------------------------------------------------
(* Types. *)

\* Where the calls are, and what the sidecar knows of them; who waits between two
\* attempts has one left.
CallsTyped ==
  /\ method \in [Callers -> Methods \cup {Nobody}]
  /\ at \in [Callers -> Places]
  /\ tries \in [Callers -> 0..MaxTries]
  /\ \A c \in Callers : at[c] = "waiting" => tries[c] < MaxTries

SideTyped ==
  /\ linked \in BOOLEAN /\ sidecar \in BOOLEAN
  /\ queue \in Seq(Callers)
  /\ thinking \in Callers \cup {Nobody, Abandoned}

\* A sequence without its k-th element.
LEMMA RemoveAtProperties ==
  ASSUME NEW S, NEW s \in Seq(S), NEW k \in 1..Len(s)
  PROVE  /\ RemoveAt(s, k) \in Seq(S)
         /\ Len(RemoveAt(s, k)) = Len(s) - 1
         /\ \A i \in 1..(Len(s) - 1) : RemoveAt(s, k)[i] = IF i < k THEN s[i] ELSE s[i + 1]
<1> DEFINE before == SubSeq(s, 1, k - 1)
           after == SubSeq(s, k + 1, Len(s))
<1>1. /\ before \in Seq(S) /\ Len(before) = k - 1
      /\ \A i \in 1..(k - 1) : before[i] = s[i]
  BY SubSeqProperties, ElementOfSeq, LenProperties
<1>2. /\ after \in Seq(S) /\ Len(after) = Len(s) - k
      /\ \A i \in 1..(Len(s) - k) : after[i] = s[k + i]
  BY SubSeqProperties, ElementOfSeq, LenProperties
<1>3. RemoveAt(s, k) = before \o after
  BY DEF RemoveAt
<1> HIDE DEF before, after
<1>4. /\ before \o after \in Seq(S)
      /\ Len(before \o after) = Len(before) + Len(after)
      /\ \A i \in 1..(Len(before) + Len(after)) :
           (before \o after)[i] = IF i <= Len(before) THEN before[i] ELSE after[i - Len(before)]
  BY <1>1, <1>2, ConcatProperties
<1>5. ASSUME NEW i \in 1..(Len(s) - 1)
      PROVE  (before \o after)[i] = IF i < k THEN s[i] ELSE s[i + 1]
  <2> k \in Nat /\ Len(s) \in Nat /\ i \in Nat
    BY LenProperties
  <2>1. (before \o after)[i] = IF i <= k - 1 THEN before[i] ELSE after[i - (k - 1)]
    <3>1. i \in 1..(Len(before) + Len(after))
      BY <1>1, <1>2
    <3> QED
      BY <1>1, <1>4, <3>1
  <2>2. CASE i < k
    <3>1. i <= k - 1 /\ i \in 1..(k - 1)
      BY <2>2
    <3> QED
      BY <1>1, <2>1, <2>2, <3>1
  <2>3. CASE ~(i < k)
    <3> DEFINE j == i - (k - 1)
    <3>1. ~(i <= k - 1) /\ j \in 1..(Len(s) - k) /\ k + j = i + 1
      BY <2>3
    <3>2. after[j] = s[k + j]
      BY <1>2, <3>1
    <3>3. (before \o after)[i] = after[j]
      BY <2>1, <3>1
    <3> QED
      BY <2>3, <3>1, <3>2, <3>3
  <2> QED
    BY <2>2, <2>3
<1> QED
  BY <1>1, <1>2, <1>3, <1>4, <1>5, LenProperties

\* An answer, a failure: the call is where a call may be.
LEMMA AnswerTyped ==
  ASSUME CallsTyped, NEW c \in Callers, Answered(c) \/ Failing(c) \/ GiveUp(c) \/ Leave(c)
  PROVE  CallsTyped'
BY HubAssumption DEF CallsTyped, Answered, Failing, GiveUp, Leave, Places, InSidecar

\* A withdrawal from the queue leaves a queue.
LEMMA ForgetTyped ==
  ASSUME SideTyped, NEW c \in Callers, Forget(c)
  PROVE  queue' \in Seq(Callers) /\ thinking' \in Callers \cup {Nobody, Abandoned}
<1>1. DOMAIN queue = 1..Len(queue)
  BY LenProperties DEF SideTyped
<1>2. thinking' \in Callers \cup {Nobody, Abandoned}
  BY DEF SideTyped, Forget
<1>3. CASE \E i \in DOMAIN queue : queue[i] = c
  <2> DEFINE k == CHOOSE i \in DOMAIN queue : queue[i] = c
  <2>1. k \in 1..Len(queue)
    BY <1>1, <1>3
  <2>2. queue' = RemoveAt(queue, k)
    BY <1>3 DEF Forget
  <2> QED
    BY <1>2, <2>1, <2>2, RemoveAtProperties DEF SideTyped
<1>4. CASE ~\E i \in DOMAIN queue : queue[i] = c
  BY <1>2, <1>4 DEF Forget, SideTyped
<1> QED
  BY <1>3, <1>4

\* Every step keeps the types of the way.
LEMMA WayTypedNext ==
  ASSUME CallsTyped, SideTyped, [HubNext]_hubVars
  PROVE  CallsTyped' /\ SideTyped'
<1> USE HubAssumption DEF calls, side
<1>1. ASSUME NEW c \in Callers, NEW m \in Methods, Ask(c, m) \/ Open(c, m)
      PROVE  CallsTyped' /\ SideTyped'
  BY ZenonT(60), <1>1 DEF Ask, Open, Move, CallsTyped, SideTyped, Places, InSidecar
<1>2. ASSUME NEW c \in Callers, HubStep(c) PROVE CallsTyped' /\ SideTyped'
  <2>1. CASE OwnAnswer(c) \/ Reject(c) \/ LinkedTooLate(c) \/ Fails(c)
    BY <2>1, AnswerTyped DEF OwnAnswer, Reject, LinkedTooLate, Fails, SideTyped
  <2>2. CASE Delegate(c)
    BY <2>2 DEF Delegate, Move, CallsTyped, SideTyped, Places, InSidecar
  <2>3. CASE FallBack(c)
    BY <2>3 DEF FallBack, Move, CallsTyped, SideTyped, Places, InSidecar
  <2>4. CASE CommandLine(c)
    BY <2>4 DEF CommandLine, Move, CallsTyped, SideTyped, Places, InSidecar
  <2> QED
    BY <1>2, <2>1, <2>2, <2>3, <2>4 DEF HubStep
<1>3. ASSUME NEW c \in Callers, SidecarStep(c) PROVE CallsTyped' /\ SideTyped'
  <2>1. CASE Execute(c)
    BY <2>1, AnswerTyped DEF Execute, SideTyped
  <2>2. CASE Enqueue(c)
    BY <2>2, AppendProperties DEF Enqueue, Move, CallsTyped, SideTyped, Places, InSidecar
  <2>3. CASE Read(c)
    BY <2>3, AnswerTyped, HeadTailProperties DEF Read, Granted, SideTyped
  <2>4. CASE Think(c)
    BY <2>4, HeadTailProperties DEF Think, Granted, Move, CallsTyped, SideTyped, Places, InSidecar
  <2>5. CASE Unreachable(c)
    BY <2>5 DEF Unreachable, Move, CallsTyped, SideTyped, Places, InSidecar
  <2>6. CASE TryFails(c)
    <3>1. SideTyped'
      BY <2>6 DEF TryFails, SideTyped
    <3>2. CASE tries[c] \in 1..(MaxTries - 1)
      BY <2>6, <3>1, <3>2 DEF TryFails, Move, CallsTyped, Places, InSidecar
    <3>3. CASE tries[c] \notin 1..(MaxTries - 1)
      BY <2>6, <3>1, <3>3, AnswerTyped DEF TryFails
    <3> QED
      BY <3>2, <3>3
  <2>7. CASE Again(c)
    BY <2>7 DEF Again, Move, CallsTyped, SideTyped, Places, InSidecar
  <2>8. CASE Deadline(c)
    BY <2>8, AnswerTyped, ForgetTyped DEF Deadline, SideTyped
  <2> QED
    BY <1>3, <2>1, <2>2, <2>3, <2>4, <2>5, <2>6, <2>7, <2>8 DEF SidecarStep
<1>4. ASSUME NEW c \in Callers, CommandEnds(c) PROVE CallsTyped' /\ SideTyped'
  BY <1>4, AnswerTyped DEF CommandEnds, SideTyped
<1>5. CASE ThinkEnds
  BY <1>5, AnswerTyped DEF ThinkEnds, SideTyped, CallsTyped
<1>6. CASE SidecarDown
  BY <1>6, EmptySeq DEF SidecarDown, CallsTyped, SideTyped, Places, InSidecar
<1>7. CASE HubDies
  BY <1>7, EmptySeq DEF HubDies, CallsTyped, SideTyped, Places, InSidecar
<1>8. CASE SidecarUp \/ HubStarts \/ Link \/ Cool
  BY <1>8 DEF SidecarUp, HubStarts, Link, Cool, CallsTyped, SideTyped
<1>9. CASE UNCHANGED hubVars
  BY <1>9 DEF hubVars, CallsTyped, SideTyped
<1> QED
  BY <1>1, <1>2, <1>3, <1>4, <1>5, <1>6, <1>7, <1>8, <1>9 DEF HubNext

-----------------------------------------------------------------------------
(* The lock of the brain. *)

HubInv == Inv /\ CallsTyped /\ SideTyped /\ LockHasLiveOwners

\* The queue without its head: its other members, one place ahead.
LEMMA TailKeepsPlaces ==
  ASSUME queue \in Seq(Callers), LockHasLiveOwners, NEW c \in Callers, Granted(c)
  PROVE  /\ at[c] = "queued"
         /\ \A i, j \in DOMAIN queue' : queue'[i] = queue'[j] => i = j
         /\ \A d \in Callers : (\E i \in DOMAIN queue' : queue'[i] = d) <=>
                             d # c /\ \E i \in DOMAIN queue : queue[i] = d
<1> DEFINE n == Len(queue)
<1>1. n \in Nat \ {0} /\ DOMAIN queue = 1..n /\ queue[1] = c
  BY LenProperties, EmptySeq, HeadTailProperties DEF Granted
<1>2. /\ queue' \in Seq(Callers) /\ DOMAIN queue' = 1..(n - 1)
      /\ \A i \in 1..(n - 1) : queue'[i] = queue[i + 1]
  BY LenProperties, HeadTailProperties DEF Granted
<1> HIDE DEF n
<1>3. at[c] = "queued"
  BY <1>1 DEF LockHasLiveOwners
<1>4. \A i, j \in DOMAIN queue : queue[i] = queue[j] => i = j
  BY DEF LockHasLiveOwners
<1>5. \A i \in 1..(n - 1) : i + 1 \in 1..n /\ i + 1 # 1
  BY <1>1
<1>6. \A i, j \in 1..(n - 1) : i + 1 = j + 1 => i = j
  BY <1>1
<1>7. \A i, j \in DOMAIN queue' : queue'[i] = queue'[j] => i = j
  BY <1>1, <1>2, <1>4, <1>5, <1>6
<1>8. ASSUME NEW d \in Callers, NEW i \in DOMAIN queue', queue'[i] = d
      PROVE  d # c /\ \E j \in DOMAIN queue : queue[j] = d
  <2>1. i + 1 \in 1..n /\ i + 1 # 1 /\ queue[i + 1] = d
    BY <1>2, <1>5, <1>8
  <2>2. 1 \in 1..n
    BY <1>1
  <2> QED
    BY <1>1, <1>4, <2>1, <2>2
<1>9. ASSUME NEW d \in Callers, d # c, NEW i \in DOMAIN queue, queue[i] = d
      PROVE  \E j \in DOMAIN queue' : queue'[j] = d
  <2>1. i # 1
    BY <1>1, <1>9
  <2>2. i - 1 \in 1..(n - 1) /\ (i - 1) + 1 = i
    BY <1>1, <2>1
  <2> QED
    BY <1>2, <1>9, <2>2
<1> QED
  BY <1>3, <1>7, <1>8, <1>9

\* The queue a call has withdrawn from: the others keep their order.
LEMMA ForgetKeepsPlaces ==
  ASSUME queue \in Seq(Callers), NEW c \in Callers, Forget(c),
         \A i, j \in DOMAIN queue : queue[i] = queue[j] => i = j
  PROVE  /\ \A i, j \in DOMAIN queue' : queue'[i] = queue'[j] => i = j
         /\ \A d \in Callers : (\E i \in DOMAIN queue' : queue'[i] = d) <=>
                             d # c /\ \E i \in DOMAIN queue : queue[i] = d
<1> DEFINE n == Len(queue)
<1>1. n \in Nat /\ DOMAIN queue = 1..n
  BY LenProperties
<1>2. CASE ~\E i \in DOMAIN queue : queue[i] = c
  BY <1>2 DEF Forget
<1>3. CASE \E i \in DOMAIN queue : queue[i] = c
  <2> DEFINE k == CHOOSE i \in DOMAIN queue : queue[i] = c
  <2>1. k \in 1..n /\ queue[k] = c
    BY <1>1, <1>3
  <2>2. queue' = RemoveAt(queue, k)
    BY <1>3 DEF Forget
  <2> HIDE DEF k
  <2>3. /\ queue' \in Seq(Callers) /\ Len(queue') = n - 1
        /\ \A i \in 1..(n - 1) : queue'[i] = IF i < k THEN queue[i] ELSE queue[i + 1]
    BY <2>1, <2>2, RemoveAtProperties
  <2>4. DOMAIN queue' = 1..(n - 1)
    BY <2>3, LenProperties
  <2> HIDE DEF n
  <2> DEFINE old(i) == IF i < k THEN i ELSE i + 1
  <2>5. \A i \in 1..(n - 1) : old(i) \in 1..n /\ old(i) # k /\ queue'[i] = queue[old(i)]
    BY <1>1, <2>1, <2>3
  <2>6. \A i, j \in 1..(n - 1) : old(i) = old(j) => i = j
    BY <1>1, <2>1
  <2>7. \A i \in 1..n : i # k => \E j \in 1..(n - 1) : old(j) = i
    <3> TAKE i \in 1..n
    <3>1. CASE i < k
      <4>1. i \in 1..(n - 1) /\ old(i) = i
        BY <1>1, <2>1, <3>1
      <4> QED
        BY <4>1
    <3>2. CASE i > k
      <4>1. i - 1 \in 1..(n - 1) /\ old(i - 1) = i
        BY <1>1, <2>1, <3>2
      <4> QED
        BY <4>1
    <3> QED
      BY <1>1, <2>1, <3>1, <3>2
  <2> HIDE DEF old
  <2>8. \A i, j \in DOMAIN queue' : queue'[i] = queue'[j] => i = j
    BY <1>1, <2>4, <2>5, <2>6
  <2>9. ASSUME NEW d \in Callers, NEW i \in DOMAIN queue', queue'[i] = d
        PROVE  d # c /\ \E j \in DOMAIN queue : queue[j] = d
    BY <1>1, <2>1, <2>4, <2>5, <2>9
  <2>10. ASSUME NEW d \in Callers, d # c, NEW i \in DOMAIN queue, queue[i] = d
         PROVE  \E j \in DOMAIN queue' : queue'[j] = d
    <3>1. PICK j \in 1..(n - 1) : old(j) = i
      BY <1>1, <2>1, <2>7, <2>10
    <3> QED
      BY <2>4, <2>5, <2>10, <3>1
  <2> QED
    BY <2>8, <2>9, <2>10
<1> QED
  BY <1>2, <1>3

\* A step that moves nobody into or out of the brain's queue.
LEMMA LockKept ==
  ASSUME LockHasLiveOwners, UNCHANGED <<queue, thinking>>,
         \A d \in Callers : /\ at'[d] = "queued" <=> at[d] = "queued"
                            /\ at'[d] = "thinking" <=> at[d] = "thinking"
  PROVE  LockHasLiveOwners'
BY DEF LockHasLiveOwners

\* Where a call is after its answer or its failure.
LEMMA AnswerMoves ==
  ASSUME CallsTyped, NEW c \in Callers, Answered(c) \/ Failing(c) \/ GiveUp(c) \/ Leave(c)
  PROVE  /\ at'[c] \in {"idle", "failing"}
         /\ \A d \in Callers : d # c => at'[d] = at[d]
BY DEF CallsTyped, Answered, Failing, GiveUp, Leave

\* Every step keeps the owners of the lock alive.
LEMMA LockNext ==
  ASSUME CallsTyped, SideTyped, LockHasLiveOwners, [HubNext]_hubVars
  PROVE  LockHasLiveOwners'
<1> USE DEF calls, side
<1>1. ASSUME NEW c \in Callers, NEW m \in Methods, Ask(c, m) \/ Open(c, m)
      PROVE  LockHasLiveOwners'
  BY <1>1, LockKept DEF Ask, Open, Move, CallsTyped
<1>2. ASSUME NEW c \in Callers, HubStep(c) PROVE LockHasLiveOwners'
  <2>1. CASE OwnAnswer(c) \/ Reject(c) \/ LinkedTooLate(c) \/ Fails(c)
    <3>1. at[c] \in {"handler", "fallback", "failing"} /\ UNCHANGED <<queue, thinking>>
      BY <2>1 DEF OwnAnswer, Reject, LinkedTooLate, Fails
    <3>2. Answered(c) \/ Failing(c) \/ Leave(c)
      BY <2>1 DEF OwnAnswer, Reject, LinkedTooLate, Fails
    <3> QED
      BY <3>1, <3>2, AnswerMoves, LockKept
  <2>2. CASE Delegate(c) \/ FallBack(c) \/ CommandLine(c)
    BY <2>2, LockKept DEF Delegate, FallBack, CommandLine, Move, CallsTyped
  <2> QED
    BY <1>2, <2>1, <2>2 DEF HubStep
<1>3. ASSUME NEW c \in Callers, SidecarStep(c) PROVE LockHasLiveOwners'
  <2>1. CASE Execute(c)
    BY <2>1, AnswerMoves, LockKept DEF Execute
  <2>2. CASE Enqueue(c)
    <3> DEFINE n == Len(queue)
    <3>1. n \in Nat /\ DOMAIN queue = 1..n
      BY LenProperties DEF SideTyped
    <3>2. /\ queue' \in Seq(Callers) /\ DOMAIN queue' = 1..(n + 1)
          /\ \A i \in 1..n : queue'[i] = queue[i]
          /\ queue'[n + 1] = c
      BY <2>2, AppendProperties, LenProperties DEF Enqueue, SideTyped
    <3> HIDE DEF n
    <3>3. 1..(n + 1) = (1..n) \cup {n + 1} /\ n + 1 \notin 1..n
      BY <3>1
    <3>4. \A i \in 1..n : queue[i] # c
      BY <2>2, <3>1 DEF Enqueue, Move, LockHasLiveOwners
    <3>5. \A i, j \in DOMAIN queue' : queue'[i] = queue'[j] => i = j
      BY <3>1, <3>2, <3>3, <3>4 DEF LockHasLiveOwners
    <3>6. /\ at[c] = "calling" /\ at'[c] = "queued" /\ thinking' = thinking
          /\ \A d \in Callers : d # c => at'[d] = at[d]
      BY <2>2 DEF Enqueue, Move, CallsTyped
    <3>7. ASSUME NEW d \in Callers
          PROVE  at'[d] = "queued" <=> \E i \in DOMAIN queue' : queue'[i] = d
      <4>1. CASE d = c
        BY <3>2, <3>3, <3>6, <4>1
      <4>2. CASE d # c
        BY <3>1, <3>2, <3>3, <3>6, <4>2 DEF LockHasLiveOwners
      <4> QED
        BY <4>1, <4>2
    <3>8. \A d \in Callers : at'[d] = "thinking" <=> thinking' = d
      BY <3>6 DEF LockHasLiveOwners
    <3> QED
      BY <3>5, <3>7, <3>8 DEF LockHasLiveOwners
  <2>3. CASE Read(c)
    <3>1. /\ at'[c] \in {"idle", "failing"} /\ thinking' = thinking
          /\ \A d \in Callers : d # c => at'[d] = at[d]
      BY <2>3, AnswerMoves DEF Read
    <3>2. thinking = Nobody /\ thinking' = Nobody
      BY <2>3, <3>1 DEF Read, Granted
    <3>3. Granted(c) /\ queue \in Seq(Callers)
      BY <2>3 DEF Read, SideTyped
    <3> QED
      BY <3>1, <3>2, <3>3, TailKeepsPlaces DEF LockHasLiveOwners
  <2>4. CASE Think(c)
    <3>1. /\ at'[c] = "thinking" /\ thinking' = c /\ thinking = Nobody
          /\ \A d \in Callers : d # c => at'[d] = at[d]
      BY <2>4 DEF Think, Granted, Move, CallsTyped
    <3>2. Granted(c) /\ queue \in Seq(Callers)
      BY <2>4 DEF Think, SideTyped
    <3>3. \A d \in Callers : d # Nobody
      BY HubAssumption DEF Nobody
    <3>4. \A d \in Callers : at'[d] = "thinking" <=> thinking' = d
      BY <3>1, <3>3 DEF LockHasLiveOwners
    <3> QED
      BY <3>1, <3>2, <3>4, TailKeepsPlaces DEF LockHasLiveOwners
  <2>5. CASE Unreachable(c) \/ Again(c)
    BY <2>5, LockKept DEF Unreachable, Again, Move, CallsTyped
  <2>6. CASE TryFails(c)
    <3>1. at[c] \in {"broken", "calling"} /\ UNCHANGED <<queue, thinking>>
      BY <2>6 DEF TryFails
    <3>2. CASE tries[c] \in 1..(MaxTries - 1)
      BY <2>6, <3>1, <3>2, LockKept DEF TryFails, Move, CallsTyped
    <3>3. CASE tries[c] \notin 1..(MaxTries - 1)
      BY <2>6, <3>1, <3>3, AnswerMoves, LockKept DEF TryFails
    <3> QED
      BY <3>2, <3>3
  <2>7. CASE Deadline(c)
    <3>1. /\ at'[c] \in {"idle", "failing"}
          /\ \A d \in Callers : d # c => at'[d] = at[d]
      BY <2>7, AnswerMoves DEF Deadline
    <3>2. Forget(c) /\ queue \in Seq(Callers)
      BY <2>7 DEF Deadline, SideTyped
    <3>3. \A d \in Callers : d # Abandoned
      BY HubAssumption DEF Abandoned
    <3>4. \A d \in Callers : thinking' = d <=> d # c /\ thinking = d
      BY <3>2, <3>3 DEF Forget
    <3>5. \A d \in Callers : at'[d] = "thinking" <=> thinking' = d
      BY <3>1, <3>4 DEF LockHasLiveOwners
    <3>6. \A i, j \in DOMAIN queue : queue[i] = queue[j] => i = j
      BY DEF LockHasLiveOwners
    <3>7. /\ \A i, j \in DOMAIN queue' : queue'[i] = queue'[j] => i = j
          /\ \A d \in Callers : (\E i \in DOMAIN queue' : queue'[i] = d) <=>
                              d # c /\ \E i \in DOMAIN queue : queue[i] = d
      BY <3>2, <3>6, ForgetKeepsPlaces
    <3>8. \A d \in Callers : at'[d] = "queued" <=> \E i \in DOMAIN queue' : queue'[i] = d
      BY <3>1, <3>7 DEF LockHasLiveOwners
    <3> QED
      BY <3>5, <3>7, <3>8 DEF LockHasLiveOwners
  <2> QED
    BY <1>3, <2>1, <2>2, <2>3, <2>4, <2>5, <2>6, <2>7 DEF SidecarStep
<1>4. ASSUME NEW c \in Callers, CommandEnds(c) PROVE LockHasLiveOwners'
  BY <1>4, AnswerMoves, LockKept DEF CommandEnds
<1>5. CASE ThinkEnds
  <2>1. thinking' = Nobody /\ UNCHANGED queue
    BY <1>5 DEF ThinkEnds
  <2>2. \A d \in Callers : d # Nobody /\ d # Abandoned
    BY HubAssumption DEF Nobody, Abandoned
  <2>3. CASE thinking = Abandoned
    <3>1. UNCHANGED at
      BY <1>5, <2>3 DEF ThinkEnds
    <3> QED
      BY <2>1, <2>2, <2>3, <3>1 DEF LockHasLiveOwners
  <2>4. CASE thinking # Abandoned
    <3>1. thinking \in Callers /\ Answered(thinking)
      BY <1>5, <2>4 DEF ThinkEnds, SideTyped
    <3>2. /\ at'[thinking] \in {"idle", "failing"}
          /\ \A d \in Callers : d # thinking => at'[d] = at[d]
      BY <3>1, AnswerMoves
    <3>3. at[thinking] = "thinking"
      BY <3>1 DEF LockHasLiveOwners
    <3> QED
      BY <2>1, <2>2, <3>1, <3>2, <3>3 DEF LockHasLiveOwners
  <2> QED
    BY <2>3, <2>4
<1>6. ASSUME SidecarDown \/ HubDies PROVE LockHasLiveOwners'
  <2>1. queue' = <<>> /\ DOMAIN queue' = {}
    BY <1>6 DEF SidecarDown, HubDies
  <2>2. \A d \in Callers : thinking' # d
    BY <1>6, HubAssumption DEF SidecarDown, HubDies, SideTyped, Nobody, Abandoned
  <2>3. \A d \in Callers : at'[d] \notin {"queued", "thinking"}
    BY <1>6 DEF SidecarDown, HubDies, InSidecar
  <2> QED
    BY <2>1, <2>2, <2>3 DEF LockHasLiveOwners
<1>7. CASE SidecarUp \/ HubStarts \/ Link \/ Cool
  BY <1>7, LockKept DEF SidecarUp, HubStarts, Link, Cool
<1>8. CASE UNCHANGED hubVars
  BY <1>8, LockKept DEF hubVars
<1> QED
  BY <1>1, <1>2, <1>3, <1>4, <1>5, <1>6, <1>7, <1>8 DEF HubNext

-----------------------------------------------------------------------------
(* The theorems of the calls. *)

\* Nobody has called yet.
LEMMA HubInitInv == HubInit => HubInv
<1> SUFFICES ASSUME HubInit PROVE HubInv
  OBVIOUS
<1>1. Inv
  BY BreakerInit DEF HubInit
<1>2. CallsTyped /\ SideTyped
  <2>1. CallsTyped
    BY HubAssumption DEF HubInit, CallsTyped, Places, InSidecar
  <2>2. <<>> \in Seq(Callers)
    BY EmptySeq
  <2> QED
    BY <2>1, <2>2 DEF HubInit, SideTyped
<1>3. queue = <<>> /\ DOMAIN queue = {}
  BY DEF HubInit
<1>4. \A c \in Callers : at[c] = "idle" /\ thinking # c
  BY HubAssumption DEF HubInit, Nobody
<1>5. LockHasLiveOwners
  BY <1>3, <1>4 DEF LockHasLiveOwners
<1> QED
  BY <1>1, <1>2, <1>5 DEF HubInv

\* The invariant holds in every reachable state of the calls.
THEOREM HubInvariant == HubSpec => []HubInv
<1>1. HubInv /\ [HubNext]_hubVars => HubInv'
  <2> SUFFICES ASSUME HubInv, [HubNext]_hubVars PROVE HubInv'
    OBVIOUS
  <2>1. [Next]_vars
    BY HubStepIsBreakerStep DEF HubInv, SideTyped
  <2>2. Inv'
    BY <2>1, BreakerNext DEF HubInv
  <2> QED
    BY <2>2, WayTypedNext, LockNext DEF HubInv
<1> QED
  BY <1>1, HubInitInv, PTL DEF HubSpec

\* The types of the breaker, the calls and the sidecar.
THEOREM HubTypeCorrect == HubSpec => []HubTypeOK
<1>1. HubInv => HubTypeOK
  BY DEF HubInv, Inv, CallsTyped, SideTyped, HubTypeOK
<1> QED
  BY <1>1, HubInvariant, PTL

\* The brain's lock is never held or waited for by a call that has left.
THEOREM LockLive == HubSpec => []LockHasLiveOwners
<1>1. HubInv => LockHasLiveOwners
  BY DEF HubInv
<1> QED
  BY <1>1, HubInvariant, PTL

\* The calls implement the breaker's specification: whatever happens to them in
\* the hub and in the sidecar, the breaker sees only beginnings, answers and
\* failures in the order it allows.
THEOREM HubRefinesBreaker == HubSpec => Spec
<1>1. HubInit => Init
  BY DEF HubInit
<1>2. HubInv /\ [HubNext]_hubVars => [Next]_vars
  BY HubStepIsBreakerStep DEF HubInv, SideTyped
<1> QED
  BY <1>1, <1>2, HubInvariant, PTL DEF HubSpec, Spec

\* So the hub is spared on the whole way, too.
THEOREM HubIsSpared == HubSpec => SentOnlyWhenCool
BY HubRefinesBreaker, BreakerSparesTheHub

-----------------------------------------------------------------------------
(* The boot.  SeenInTime is inductive only with an account of the failures  *)
(* the breaker has counted: before the hub is up, one for the first check   *)
(* and one for each poll that is over; after, none but the poll under way.  *)

Polling == phase \in {"poll", "pollSleep"}
DoomedCheck == IF call[Booter] = "doomed" THEN 1 ELSE 0

\* A hub that is away has nothing to answer.
NoneSentInVain == ~serving => \A c \in Callers : call[c] # "sent"

\* Where the boot is, and what it may find there.
BootPlaces ==
  /\ phase \in Checking \cup Sleeping \cup {"clean", "running"}
  /\ left \in 0..(Polls + Waits) /\ ready \in BOOLEAN
  /\ child \in {"none", "starting", "listening", "dead"}
  /\ other \in {"gone", "healthy", "wedged"}
  /\ phase \in {"check", "clean"} => child = "none"
  /\ Polling => left \in 1..Polls
  /\ phase = "wait" => left > 0
  /\ phase \notin Checking => call[Booter] = "idle"
  /\ child = "listening" => serving

BootClocks ==
  /\ shutdownInProgress \in BOOLEAN /\ othersFailed \in BOOLEAN
  /\ age \in 0..COOLDOWN /\ heardAt \in 0..Never

\* The failures of the boot's own checks, as long as there are no others.
OwnFailures ==
  ~othersFailed =>
    /\ phase = "check" => failureCount = 0
    /\ phase = "clean" => failureCount <= 1
    /\ Polling => failureCount <= 1 + (Polls - left)

\* A hub that was heard early: nothing has failed since, and the polls go on until
\* one of them has found it.
Heard == child = "listening" /\ heardAt <= FAILURE_THRESHOLD - 2 /\ ~othersFailed
HeardEarly ==
  Heard =>
    /\ failureCount + DoomedCheck <= 1 + heardAt
    /\ IF Polling THEN FailedPolls = heardAt ELSE ready

BootRest == NoneSentInVain /\ BootPlaces /\ BootClocks /\ OwnFailures /\ HeardEarly
BootInv == Inv /\ BootRest

\* A hub that goes or comes, for the breaker.
LEMMA ServesIsBreakerStep ==
  ASSUME TypeOK, NoneSentInVain, NEW b \in BOOLEAN, Serves(b)
  PROVE  [Next]_vars /\ NoneSentInVain' /\ UNCHANGED breaker
         /\ (b => call' = call) /\ (call[Booter] = "idle" => call'[Booter] = "idle")
<1> USE BootAssumption DEF Serves
<1>1. call' \in [Callers -> {"idle", "sent", "doomed"}]
  BY DEF TypeOK
<1>2. NoneSentInVain'
  BY DEF NoneSentInVain
<1>3. b => call' = call
  BY <1>1 DEF TypeOK
<1>4. ~b /\ ~serving => call' = call
  BY <1>1 DEF TypeOK, NoneSentInVain
<1>5. ASSUME b = serving PROVE [Next]_vars
  BY <1>3, <1>4, <1>5 DEF vars, breaker, TypeOK
<1>6. ASSUME b # serving, b PROVE [Next]_vars
  BY <1>3, <1>6 DEF Next, HubUp, breaker, TypeOK
<1>7. ASSUME b # serving, ~b PROVE [Next]_vars
  BY <1>7 DEF Next, HubDown, breaker, TypeOK
<1>8. [Next]_vars
  BY <1>5, <1>6, <1>7 DEF TypeOK
<1> QED
  BY <1>2, <1>3, <1>8

\* What a call's beginning and its two ends make of the count and of the calls.
LEMMA CallCounts ==
  ASSUME Inv, NEW c \in Callers, Begin(c) \/ Succeed(c) \/ Fail(c)
  PROVE  /\ failureCount' \in Nat /\ serving' = serving
         /\ \A d \in Callers : d # c => call'[d] = call[d]
         /\ Begin(c) => /\ failureCount' = failureCount /\ call[c] = "idle"
                        /\ call'[c] = (IF serving THEN "sent" ELSE "doomed")
         /\ Succeed(c) => failureCount' <= failureCount /\ call'[c] = "idle"
         /\ Fail(c) => failureCount' <= failureCount + 1 /\ call[c] = "doomed" /\ call'[c] = "idle"
<1> USE DEF Inv, TypeOK
<1>1. CASE Begin(c)
  BY <1>1 DEF Begin, Send, Succeed, Fail
<1>2. CASE Succeed(c)
  BY <1>2 DEF Begin, Succeed, Fail
<1>3. CASE Fail(c)
  BY <1>3, BreakerAssumption DEF Begin, Succeed, Fail
<1> QED
  BY <1>1, <1>2, <1>3

\* Each step of the boot, seen from the breaker.
LEMMA BootStepIsBreakerStep ==
  ASSUME Inv, BootRest, [BootNext]_bootVars
  PROVE  [Next]_vars /\ NoneSentInVain'
<1> USE BootAssumption DEF BootRest
<1>1. ASSUME NEW c \in Callers, Begin(c) \/ Succeed(c) \/ Fail(c) PROVE [Next]_vars /\ NoneSentInVain'
  BY <1>1, CallCounts DEF Next, NoneSentInVain
<1>2. ASSUME NEW b \in BOOLEAN, Serves(b) PROVE [Next]_vars /\ NoneSentInVain'
  BY <1>2, ServesIsBreakerStep DEF Inv
<1>3. ASSUME UNCHANGED vars PROVE [Next]_vars /\ NoneSentInVain'
  BY <1>3 DEF vars, NoneSentInVain
<1>4. CASE Check \/ Healthy \/ Unhealthy
  BY <1>1, <1>4 DEF Check, Healthy, Unhealthy
<1>5. CASE Unasked \/ Tick \/ UNCHANGED bootVars
  BY <1>3, <1>5 DEF Unasked, Tick, bootVars
<1>6. CASE Cools
  BY <1>6 DEF Cools, CoolDown, Next, NoneSentInVain
<1>7. CASE CleanAndSpawn \/ Shutdown \/ ChildListens \/ ChildDies \/ OtherListens
  BY <1>2, <1>7 DEF CleanAndSpawn, Shutdown, ChildListens, ChildDies, OtherListens
<1>8. ASSUME NEW c \in Callers, Others(c) PROVE [Next]_vars /\ NoneSentInVain'
  BY <1>1, <1>8 DEF Others
<1> QED
  BY <1>4, <1>5, <1>6, <1>7, <1>8 DEF BootNext

\* A circuit that has counted too few failures refuses nobody.
LEMMA NotRefused ==
  ASSUME Inv, failureCount < FAILURE_THRESHOLD
  PROVE  ~Refused
BY DEF Inv, StatusMatchesCount, Refused

\* The boot goes on after a check that found nothing: where it is, and how much of
\* it is left.
LEMMA GoOnMoves ==
  ASSUME BootPlaces, GoOn
  PROVE  /\ phase \in Checking /\ ready' \in BOOLEAN /\ left' \in 0..(Polls + Waits)
         /\ \/ phase = "check" /\ phase' = "clean" /\ ready' = ready
            \/ phase = "poll" /\ phase' = "pollSleep" /\ left > 1 /\ left' = left - 1 /\ ready' = ready
            \/ phase = "poll" /\ phase' = "wait" /\ left = 1 /\ left' = Waits
            \/ phase = "wait" /\ phase' = "waitSleep" /\ ready' = ready
<1> USE BootAssumption DEF BootPlaces, Return, Checking, Polling
<1>1. left \in Int /\ {Polls, Waits} \subseteq Nat \ {0}
  OBVIOUS
<1>2. CASE phase = "check" /\ phase' = "clean" /\ UNCHANGED <<left, ready>>
  BY <1>2
<1>3. CASE phase = "poll" /\ left > 1 /\ phase' = "pollSleep" /\ left' = left - 1 /\ UNCHANGED ready
  BY <1>1, <1>3
<1>4. CASE phase = "poll" /\ left = 1 /\ Return(FALSE)
  <2>1. left' = Waits /\ phase' = "wait" /\ ready' = FALSE
    BY <1>4
  <2>2. left' \in 0..(Polls + Waits)
    BY <1>1, <2>1
  <2> QED
    BY <1>4, <2>1, <2>2
<1>5. CASE phase = "wait" /\ phase' = "waitSleep" /\ left' = left - 1 /\ UNCHANGED ready
  BY <1>1, <1>5
<1> QED
  BY <1>2, <1>3, <1>4, <1>5 DEF GoOn

\* Where a step leaves the boot.
LEMMA PlacesNext ==
  ASSUME Inv, BootRest, [BootNext]_bootVars
  PROVE  BootPlaces'
<1> USE BootAssumption DEF BootRest, BootPlaces, Checking, Sleeping, Polling
<1>1. CASE Check
  <2>1. Begin(Booter) /\ phase \in Checking /\ UNCHANGED <<boot, procs>>
    BY <1>1 DEF Check
  <2>2. serving' = serving
    BY <2>1, CallCounts
  <2> QED
    BY <2>1, <2>2 DEF boot, procs
<1>2. CASE Healthy
  <2>1. Succeed(Booter) /\ UNCHANGED procs
    BY <1>2 DEF Healthy
  <2>2. serving' = serving /\ call'[Booter] = "idle"
    BY <2>1, CallCounts
  <2>3. CASE phase = "wait"
    BY <1>2, <2>1, <2>2, <2>3 DEF Healthy, procs
  <2>4. CASE phase # "wait"
    <3>1. phase' = "wait" /\ left' = Waits /\ ready' = TRUE
      BY <1>2, <2>4 DEF Healthy, Return
    <3>2. left' \in 0..(Polls + Waits) /\ left' > 0
      BY <3>1
    <3> QED
      BY <2>1, <2>2, <3>1, <3>2 DEF procs
  <2> QED
    BY <2>3, <2>4
<1>3. CASE Unhealthy \/ Unasked
  <2>1. GoOn /\ UNCHANGED procs
    BY <1>3 DEF Unhealthy, Unasked
  <2>2. serving' = serving /\ call'[Booter] = "idle"
    BY <1>3, CallCounts DEF Unhealthy, Unasked, vars
  <2>3. ready' \in BOOLEAN /\ left' \in 0..(Polls + Waits)
    BY <2>1, GoOnMoves
  <2>4. CASE phase = "poll" /\ phase' = "pollSleep" /\ left > 1 /\ left' = left - 1
    <3>1. left \in 1..Polls
      BY <2>4
    <3>2. left' \in 1..Polls
      BY <2>4, <3>1
    <3> QED
      BY <2>1, <2>2, <2>3, <2>4, <3>2 DEF procs
  <2>5. CASE phase = "poll" /\ phase' = "wait" /\ left' = Waits
    BY <2>1, <2>2, <2>3, <2>5 DEF procs
  <2>6. CASE phase' \in {"clean", "waitSleep"} /\ (phase = "check" \/ phase = "wait")
    <3>1. child = "none" \/ phase' # "clean"
      BY <2>1, <2>6, GoOnMoves
    <3> QED
      BY <2>1, <2>2, <2>3, <2>6, <3>1 DEF procs
  <2> QED
    BY <2>1, <2>4, <2>5, <2>6, GoOnMoves
<1>4. CASE Tick
  BY <1>4 DEF Tick, vars, procs
<1>5. CASE Cools
  BY <1>5 DEF Cools, CoolDown, boot, procs
<1>6. CASE CleanAndSpawn
  <2>1. Serves(FALSE) /\ call[Booter] = "idle" /\ child = "none"
    BY <1>6 DEF CleanAndSpawn
  <2>2. call'[Booter] = "idle"
    BY <2>1, ServesIsBreakerStep DEF Inv
  <2>3. CASE child' = "starting" /\ phase' = "pollSleep" /\ left' = Polls /\ UNCHANGED ready
    <3>1. left' \in 0..(Polls + Waits) /\ left' \in 1..Polls
      BY <2>3
    <3> QED
      BY <1>6, <2>2, <2>3, <3>1 DEF CleanAndSpawn
  <2>4. CASE UNCHANGED child /\ Return(FALSE)
    <3>1. phase' = "wait" /\ left' = Waits /\ ready' = FALSE
      BY <2>4 DEF Return
    <3>2. left' \in 0..(Polls + Waits) /\ left' > 0
      BY <3>1
    <3> QED
      BY <1>6, <2>1, <2>2, <2>4, <3>1, <3>2 DEF CleanAndSpawn
  <2> QED
    BY <1>6, <2>3, <2>4 DEF CleanAndSpawn
<1>7. CASE Shutdown \/ ChildListens \/ ChildDies \/ OtherListens
  <2>1. UNCHANGED boot
    BY <1>7 DEF Shutdown, ChildListens, ChildDies, OtherListens
  <2>2. PICK b \in BOOLEAN : Serves(b)
    BY <1>7 DEF Shutdown, ChildListens, ChildDies, OtherListens
  <2>3. call[Booter] = "idle" => call'[Booter] = "idle"
    BY <2>2, ServesIsBreakerStep DEF Inv
  <2>4. /\ child' \in {"none", "starting", "listening", "dead"}
        /\ other' \in {"gone", "healthy", "wedged"}
        /\ phase \in {"check", "clean"} => child' = "none"
        /\ child' = "listening" => serving'
    BY <1>7 DEF Shutdown, ChildListens, ChildDies, OtherListens, Serves
  <2> QED
    BY <2>1, <2>3, <2>4 DEF boot
<1>8. ASSUME NEW c \in Callers, Others(c) PROVE BootPlaces'
  <2>1. c # Booter /\ UNCHANGED <<boot, procs>>
    BY <1>8 DEF Others
  <2>2. serving' = serving /\ call'[Booter] = call[Booter]
    BY <1>8, <2>1, CallCounts DEF Others
  <2> QED
    BY <2>1, <2>2 DEF boot, procs
<1>9. CASE UNCHANGED bootVars
  BY <1>9 DEF bootVars, vars, boot, procs
<1> QED
  BY <1>1, <1>2, <1>3, <1>4, <1>5, <1>6, <1>7, <1>8, <1>9 DEF BootNext

\* Clocks and history.
LEMMA ClocksNext ==
  ASSUME Inv, BootRest, [BootNext]_bootVars
  PROVE  BootClocks'
<1> USE BootAssumption DEF BootRest, BootClocks, Never
<1>1. CASE Check \/ Healthy \/ Unasked \/ Cools \/ UNCHANGED bootVars
  BY <1>1 DEF Check, Healthy, Unasked, Cools, bootVars, procs, history
<1>2. CASE Unhealthy
  BY <1>2 DEF Unhealthy, procs, history
<1>3. CASE Tick
  BY <1>3 DEF Tick, procs, history
<1>4. CASE CleanAndSpawn \/ Shutdown \/ ChildDies \/ OtherListens
  BY <1>4 DEF CleanAndSpawn, Shutdown, ChildDies, OtherListens, history
<1>5. CASE ChildListens
  <2>1. /\ UNCHANGED <<shutdownInProgress, age, othersFailed>>
        /\ heardAt' \in {FailedPolls, Never}
        /\ phase \in {"poll", "pollSleep"} \/ heardAt' = Never
    BY <1>5 DEF ChildListens
  <2>2. Polling => FailedPolls \in 0..Never
    <3> SUFFICES ASSUME Polling PROVE FailedPolls \in 0..Never
      OBVIOUS
    <3>1. left \in 1..Polls
      BY DEF BootPlaces
    <3> QED
      BY <3>1 DEF FailedPolls
  <2>3. heardAt' \in 0..Never
    BY <2>1, <2>2 DEF Polling
  <2>4. /\ shutdownInProgress' \in BOOLEAN /\ othersFailed' \in BOOLEAN
        /\ age' \in 0..COOLDOWN
    BY <2>1
  <2> QED
    BY <2>3, <2>4
<1>6. ASSUME NEW c \in Callers, Others(c) PROVE BootClocks'
  <2>1. UNCHANGED <<shutdownInProgress, heardAt>>
    BY <1>6 DEF Others, procs
  <2>2. (age' = age \/ age' = 0) /\ (othersFailed' = othersFailed \/ othersFailed' = TRUE)
    BY <1>6 DEF Others
  <2>3. shutdownInProgress' \in BOOLEAN /\ heardAt' \in 0..Never
    BY <2>1
  <2>4. age' \in 0..COOLDOWN
    BY <2>2
  <2>5. othersFailed' \in BOOLEAN
    BY <2>2
  <2> QED
    BY <2>3, <2>4, <2>5
<1> QED
  BY <1>1, <1>2, <1>3, <1>4, <1>5, <1>6 DEF BootNext

\* A hub that goes or comes is no failure.
LEMMA ServesCounts ==
  ASSUME Inv, BootRest,
         CleanAndSpawn \/ Shutdown \/ ChildListens \/ ChildDies \/ OtherListens
  PROVE  failureCount' = failureCount
BY DEF CleanAndSpawn, Shutdown, ChildListens, ChildDies, OtherListens, Serves, breaker

\* The account of the boot's own failures.
LEMMA OwnFailuresNext ==
  ASSUME Inv, BootRest, [BootNext]_bootVars
  PROVE  OwnFailures'
<1> USE BootAssumption DEF BootRest, OwnFailures, Polling
<1>0. failureCount \in Nat /\ Polls \in Nat /\ left \in Int
  BY DEF Inv, TypeOK, BootPlaces
<1>1. CASE Check \/ Healthy
  <2>0. (Begin(Booter) \/ Succeed(Booter)) /\ UNCHANGED othersFailed
    BY <1>1 DEF Check, Healthy, history
  <2>1. failureCount' \in Nat /\ failureCount' <= failureCount /\ UNCHANGED othersFailed
    <3>1. failureCount' \in Nat /\ (failureCount' = failureCount \/ failureCount' <= failureCount)
      BY <2>0, CallCounts
    <3> QED
      BY <1>0, <2>0, <3>1
  <2>2. CASE UNCHANGED <<phase, left>>
    BY <1>0, <2>1, <2>2
  <2>3. CASE phase' \in {"wait", "running"}
    BY <2>3
  <2> QED
    BY <1>1, <2>2, <2>3 DEF Check, Healthy, Return, boot
<1>2. CASE Unhealthy \/ Unasked
  <2>1. failureCount' \in Nat /\ failureCount' <= failureCount + 1 /\ UNCHANGED othersFailed /\ GoOn
    BY <1>0, <1>2, CallCounts DEF Unhealthy, Unasked, history, vars, breaker
  <2>2. CASE phase = "check" /\ phase' = "clean"
    BY <1>0, <2>1, <2>2
  <2>3. CASE phase = "poll" /\ phase' = "pollSleep" /\ left' = left - 1
    BY <1>0, <2>1, <2>3
  <2>4. CASE phase' \in {"wait", "waitSleep"}
    BY <2>4
  <2> QED
    BY <2>1, <2>2, <2>3, <2>4, GoOnMoves
<1>3. CASE Tick \/ Cools \/ UNCHANGED bootVars
  <2>1. failureCount' = failureCount /\ UNCHANGED <<left, othersFailed>>
    BY <1>3 DEF Tick, Cools, CoolDown, bootVars, vars, breaker, boot, history
  <2>2. \/ phase' = phase
        \/ phase = "pollSleep" /\ phase' = "poll"
        \/ phase' \in {"wait", "running"}
    BY <1>3 DEF Tick, Cools, bootVars, boot
  <2> QED
    BY <2>1, <2>2
<1>4. CASE CleanAndSpawn
  <2>1. failureCount' = failureCount /\ phase = "clean" /\ UNCHANGED othersFailed
    BY <1>4, ServesCounts DEF CleanAndSpawn
  <2>2. (phase' = "pollSleep" /\ left' = Polls) \/ phase' = "wait"
    BY <1>4 DEF CleanAndSpawn, Return
  <2> QED
    BY <1>0, <2>1, <2>2
<1>5. CASE Shutdown \/ ChildListens \/ ChildDies \/ OtherListens
  BY <1>5, ServesCounts DEF Shutdown, ChildListens, ChildDies, OtherListens, boot, history
<1>6. ASSUME NEW c \in Callers, Others(c) PROVE OwnFailures'
  <2>1. CASE othersFailed'
    BY <2>1
  <2>2. CASE UNCHANGED othersFailed /\ (Begin(c) \/ Succeed(c))
    <3>1. failureCount' \in Nat /\ failureCount' <= failureCount
      BY <1>0, <2>2, CallCounts
    <3> QED
      BY <1>0, <1>6, <2>2, <3>1 DEF Others, boot
  <2> QED
    BY <1>6, <2>1, <2>2 DEF Others
<1> QED
  BY <1>1, <1>2, <1>3, <1>4, <1>5, <1>6 DEF BootNext

\* The hub that was heard early is still to be found: nobody else's failure spoils
\* the count, so no check is refused, and the one check that may yet fail is the
\* one that was doomed before the hub came up.  A poll that is the last is not
\* among those: there are more polls than failures that open the circuit.
LEMMA HeardNext ==
  ASSUME Inv, BootRest, [BootNext]_bootVars
  PROVE  HeardEarly'
<1> USE BootAssumption DEF BootRest, Polling
<1>0. /\ failureCount \in Nat /\ {Polls, Waits} \subseteq Nat \ {0} /\ left \in Int
      /\ heardAt \in Nat /\ FAILURE_THRESHOLD \in Nat
      /\ Polling => left \in 1..Polls
  BY BreakerAssumption DEF Inv, TypeOK, BootPlaces, BootClocks, Never
<1>1. DoomedCheck \in Nat /\ FailedPolls = (Polls - left) + DoomedCheck
  BY DEF DoomedCheck, FailedPolls
<1>2. DoomedCheck' \in Nat /\ FailedPolls' = (Polls - left') + DoomedCheck'
  BY DEF DoomedCheck, FailedPolls
<1>A. \A count, bound, d, e \in Nat : count <= bound /\ d <= e =>
        \A h \in Nat : bound + e <= 1 + h => count + d <= 1 + h
  OBVIOUS
<1>3. Heard => failureCount + DoomedCheck <= 1 + heardAt
  BY DEF HeardEarly
<1>4. Heard => IF Polling THEN FailedPolls = heardAt ELSE ready
  BY DEF HeardEarly
<1>5. Heard => child = "listening" /\ serving
  BY DEF BootPlaces, Heard
<1>Q. ASSUME Heard' => Heard /\ heardAt' = heardAt,
             Heard => failureCount' + DoomedCheck' <= 1 + heardAt,
             Heard => IF phase' \in {"poll", "pollSleep"} THEN FailedPolls' = heardAt ELSE ready'
      PROVE  HeardEarly'
  BY <1>Q DEF HeardEarly
<1>6. CASE Check
  <2>1. Begin(Booter) /\ UNCHANGED <<boot, procs, history>>
    BY <1>6 DEF Check
  <2>2. failureCount' = failureCount /\ call[Booter] = "idle"
        /\ (serving => call'[Booter] = "sent")
    BY <2>1, CallCounts
  <2>3. Heard => DoomedCheck' = 0 /\ DoomedCheck = 0
    BY <1>5, <2>2 DEF DoomedCheck
  <2>4. Heard' => Heard /\ heardAt' = heardAt
    BY <2>1 DEF Heard, procs, history
  <2>5. Heard => failureCount' + DoomedCheck' <= 1 + heardAt
    BY <1>0, <1>3, <2>2, <2>3
  <2>6. Heard => FailedPolls' = FailedPolls
    BY <1>1, <1>2, <2>1, <2>3 DEF boot
  <2> QED
    BY <1>4, <1>Q, <2>1, <2>4, <2>5, <2>6 DEF boot
<1>7. CASE Healthy
  <2>1. Succeed(Booter) /\ UNCHANGED <<procs, history>>
    BY <1>7 DEF Healthy
  <2>2. failureCount' \in Nat /\ failureCount' <= failureCount /\ call'[Booter] = "idle"
    BY <2>1, CallCounts
  <2>3. DoomedCheck' = 0
    BY <2>2 DEF DoomedCheck
  <2>4. \/ phase = "wait" /\ phase' = "running" /\ ready' = ready
        \/ phase' = "wait" /\ ready'
    BY <1>7 DEF Healthy, Return
  <2>5. Heard' => Heard /\ heardAt' = heardAt
    BY <2>1 DEF Heard, procs, history
  <2>6. ASSUME Heard PROVE failureCount' + DoomedCheck' <= 1 + heardAt
    <3>1. failureCount + DoomedCheck <= 1 + heardAt /\ failureCount' <= failureCount
      BY <1>3, <2>2, <2>6
    <3> QED
      <4>1. 0 \in Nat /\ 0 <= DoomedCheck
        BY <1>1
      <4> QED
        BY <1>0, <1>1, <1>A, <2>2, <2>3, <3>1, <4>1
  <2> QED
    BY <1>4, <1>Q, <2>4, <2>5, <2>6
<1>8. CASE Unhealthy
  <2>1. Fail(Booter) /\ GoOn /\ UNCHANGED <<procs, history>>
    BY <1>8 DEF Unhealthy
  <2>2. failureCount' \in Nat /\ failureCount' <= failureCount + 1
        /\ call[Booter] = "doomed" /\ call'[Booter] = "idle"
    BY <2>1, CallCounts
  <2>3. DoomedCheck = 1 /\ DoomedCheck' = 0
    BY <2>2 DEF DoomedCheck
  <2>8. Heard' => Heard /\ heardAt' = heardAt
    BY <2>1 DEF Heard, procs, history
  <2>9. Heard => failureCount' + DoomedCheck' <= 1 + heardAt
    BY <1>0, <1>3, <2>2, <2>3
  <2>4. CASE phase = "poll" /\ phase' = "pollSleep" /\ left' = left - 1
    <3>1. FailedPolls' = FailedPolls
      BY <1>0, <1>1, <1>2, <2>3, <2>4
    <3> QED
      BY <1>4, <1>Q, <2>4, <2>8, <2>9, <3>1
  <2>5. CASE phase = "poll" /\ left = 1
    <3>1. Heard => heardAt = Polls
      BY <1>0, <1>1, <1>4, <2>3, <2>5
    <3>2. ~Heard
      BY <1>0, <3>1 DEF Heard
    <3> QED
      BY <2>8, <3>2 DEF HeardEarly
  <2>6. CASE phase = "check"
    BY <2>8, <2>6 DEF HeardEarly, BootPlaces, Heard
  <2>7. CASE phase = "wait" /\ phase' = "waitSleep" /\ ready' = ready
    BY <1>4, <1>Q, <2>7, <2>8, <2>9
  <2> QED
    BY <2>1, <2>4, <2>5, <2>6, <2>7, GoOnMoves
<1>9. CASE Unasked
  <2>1. failureCount >= FAILURE_THRESHOLD
    BY <1>0, <1>9, NotRefused DEF Unasked
  <2>2. ~Heard
    BY <1>0, <1>1, <1>3, <2>1 DEF Heard
  <2> QED
    BY <1>9, <2>2 DEF HeardEarly, Heard, Unasked, procs, history
<1>10. CASE Tick
  <2>1. /\ UNCHANGED <<failureCount, call, left, ready, child, heardAt, othersFailed>>
        /\ \/ phase' = phase
           \/ phase = "pollSleep" /\ phase' = "poll"
           \/ phase = "waitSleep" /\ phase' \in {"wait", "running"}
    BY <1>10 DEF Tick, vars, breaker, procs, history
  <2>2. DoomedCheck' = DoomedCheck /\ FailedPolls' = FailedPolls
    BY <2>1 DEF DoomedCheck, FailedPolls
  <2> QED
    BY <1>3, <1>4, <2>1, <2>2 DEF HeardEarly, Heard
<1>11. CASE Cools \/ UNCHANGED bootVars
  <2>1. UNCHANGED <<failureCount, call, phase, left, ready, child, heardAt, othersFailed>>
    BY <1>11 DEF Cools, CoolDown, bootVars, vars, breaker, boot, procs, history
  <2>2. DoomedCheck' = DoomedCheck /\ FailedPolls' = FailedPolls
    BY <2>1 DEF DoomedCheck, FailedPolls
  <2> QED
    BY <1>3, <1>4, <2>1, <2>2 DEF HeardEarly, Heard
<1>12. CASE CleanAndSpawn \/ Shutdown \/ ChildDies \/ OtherListens
  <2>1. child' # "listening"
    BY <1>12 DEF CleanAndSpawn, Shutdown, ChildDies, OtherListens, BootPlaces
  <2> QED
    BY <2>1 DEF HeardEarly, Heard
<1>13. CASE ChildListens
  <2>1. CASE other = "gone" /\ Polling
    <3>1. Serves(TRUE) /\ UNCHANGED boot /\ heardAt' = FailedPolls
      BY <1>13, <2>1 DEF ChildListens
    <3>2. failureCount' = failureCount /\ call' = call
      BY <1>13, <3>1, ServesCounts, ServesIsBreakerStep DEF Inv
    <3>3. DoomedCheck' = DoomedCheck /\ FailedPolls' = FailedPolls
      BY <3>1, <3>2 DEF DoomedCheck, FailedPolls, boot
    <3>4. ~othersFailed => failureCount <= 1 + (Polls - left)
      BY <2>1 DEF OwnFailures
    <3>5. UNCHANGED othersFailed
      BY <1>13 DEF ChildListens
    <3> QED
      BY <1>0, <1>1, <2>1, <3>1, <3>2, <3>3, <3>4, <3>5 DEF HeardEarly, Heard, boot
  <2>2. CASE other # "gone"
    BY <1>13, <2>2 DEF ChildListens, HeardEarly, Heard
  <2>3. CASE ~Polling
    <3>1. heardAt' = Polls + 1
      BY <1>13, <2>3 DEF ChildListens, Never
    <3>2. ~(heardAt' <= FAILURE_THRESHOLD - 2)
      BY <1>0, <3>1
    <3> QED
      BY <3>2 DEF HeardEarly, Heard
  <2> QED
    BY <2>1, <2>2, <2>3
<1>14. ASSUME NEW c \in Callers, Others(c) PROVE HeardEarly'
  <2>1. CASE othersFailed'
    BY <2>1 DEF HeardEarly, Heard
  <2>2. CASE UNCHANGED othersFailed /\ (Begin(c) \/ Succeed(c))
    <3>1. c # Booter /\ UNCHANGED <<boot, procs, heardAt>>
      BY <1>14 DEF Others
    <3>2. call'[Booter] = call[Booter] /\ failureCount' \in Nat
          /\ (failureCount' = failureCount \/ failureCount' <= failureCount)
      BY <2>2, <3>1, CallCounts
    <3>3. DoomedCheck' = DoomedCheck /\ FailedPolls' = FailedPolls
      BY <3>1, <3>2 DEF DoomedCheck, FailedPolls, boot
    <3>4. Heard' => Heard /\ heardAt' = heardAt
      BY <2>2, <3>1 DEF Heard, procs
    <3>5. ASSUME Heard PROVE failureCount' + DoomedCheck' <= 1 + heardAt
      <4>1. failureCount + DoomedCheck <= 1 + heardAt
        BY <1>3, <3>5
      <4>2. failureCount' <= failureCount
        BY <1>0, <3>2
      <4>3. DoomedCheck <= DoomedCheck
        BY <1>1
      <4> QED
        BY <1>0, <1>1, <1>A, <3>2, <3>3, <4>1, <4>2, <4>3
    <3> QED
      BY <1>4, <1>Q, <3>1, <3>3, <3>4, <3>5 DEF boot
  <2> QED
    BY <1>14, <2>1, <2>2 DEF Others
<1> QED
  BY <1>6, <1>7, <1>8, <1>9, <1>10, <1>11, <1>12, <1>13, <1>14 DEF BootNext

-----------------------------------------------------------------------------
(* The theorems of the boot. *)

\* Nothing is started, and nothing has failed.
LEMMA BootInitInv == BootInit => BootInv
<1> SUFFICES ASSUME BootInit PROVE BootInv
  OBVIOUS
<1> USE BootAssumption DEF BootInit
<1>1. Inv
  BY BreakerAssumption DEF Inv, TypeOK, StatusMatchesCount, HalfOpenIsCool
<1>2. NoneSentInVain /\ OwnFailures
  BY DEF NoneSentInVain, OwnFailures, Polling
<1>3. BootPlaces
  <2>1. left \in 0..(Polls + Waits)
    OBVIOUS
  <2>2. /\ phase = "check" /\ call[Booter] = "idle" /\ child = "none"
        /\ ready \in BOOLEAN /\ other \in {"gone", "healthy", "wedged"}
    OBVIOUS
  <2> QED
    BY <2>1, <2>2 DEF BootPlaces, Checking, Sleeping, Polling
<1>4. BootClocks /\ HeardEarly
  <2>1. age \in 0..COOLDOWN /\ heardAt \in 0..Never
    BY DEF Never
  <2> QED
    BY <2>1 DEF BootClocks, HeardEarly, Heard
<1> QED
  BY <1>1, <1>2, <1>3, <1>4 DEF BootInv, BootRest

\* The invariant holds in every reachable state of the boot.
THEOREM BootInvariant == BootSpec => []BootInv
<1>1. BootInv /\ [BootNext]_bootVars => BootInv'
  <2> SUFFICES ASSUME BootInv, [BootNext]_bootVars PROVE BootInv'
    OBVIOUS
  <2>1. [Next]_vars /\ NoneSentInVain'
    BY BootStepIsBreakerStep DEF BootInv
  <2>2. Inv'
    BY <2>1, BreakerNext DEF BootInv
  <2> QED
    BY <2>1, <2>2, PlacesNext, ClocksNext, OwnFailuresNext, HeardNext DEF BootInv, BootRest
<1> QED
  BY <1>1, BootInitInv, PTL DEF BootSpec

\* The types of the breaker and of the boot.
THEOREM BootTypeCorrect == BootSpec => []BootTypeOK
<1>1. BootInv => BootTypeOK
  BY DEF BootInv, BootRest, Inv, BootPlaces, BootClocks, BootTypeOK
<1> QED
  BY <1>1, BootInvariant, PTL

\* A hub this boot started, up before the breaker has counted its failures, is found.
THEOREM BootSeesInTime == BootSpec => []SeenInTime
<1>1. BootInv => SeenInTime
  BY DEF BootInv, BootRest, HeardEarly, Heard, Polling, SeenInTime
<1> QED
  BY <1>1, BootInvariant, PTL

\* The boot's checks spare the hub as all calls do.
THEOREM BootSparesTheHub == BootSpec => SentOnlyWhenCool
<1>1. BootInv /\ [BootNext]_bootVars => [SparingStep]_vars
  BY BootStepIsBreakerStep, StepIsSparing DEF BootInv
<1> QED
  <2>1. BootSpec => [][SparingStep]_vars
    BY <1>1, BootInvariant, PTL DEF BootSpec
  <2> QED
    BY <2>1 DEF SentOnlyWhenCool, SparingStep

-----------------------------------------------------------------------------
(* The bytes of a call.  Pack and ReadInto are recursive functions: each is *)
(* known by its steps (Packs, Takes), and what it gives after n of them by   *)
(* counting up.                                                              *)

\* A set of numbers with 0, and with n + 1 if with n, is Nat.
LEMMA AllNumbers ==
  ASSUME NEW T \in SUBSET Nat, 0 \in T, \A n \in T : n + 1 \in T
  PROVE  T = Nat
<1> SUFFICES ASSUME T # Nat PROVE FALSE
  OBVIOUS
<1> DEFINE U == Nat \ T
<1>1. U # {} /\ U \subseteq Nat
  OBVIOUS
<1>2. PICK x \in U : \A y \in U : ~ (<<y, x>> \in OpToRel(<, Nat))
  BY <1>1, NatLessThanWellFounded, WFMin
<1>3. x # 0 /\ x - 1 \in Nat
  OBVIOUS
<1>4. x - 1 \in U
  BY <1>3
<1>5. <<x - 1, x>> \in OpToRel(<, Nat)
  BY <1>3 DEF OpToRel
<1> QED
  BY <1>2, <1>4, <1>5

\* The same up to a bound.
LEMMA CountingUp ==
  ASSUME NEW N \in Nat, NEW T, 0 \in T, \A n \in 0..(N - 1) : n \in T => n + 1 \in T
  PROVE  \A n \in 0..N : n \in T
<1> DEFINE U == {n \in Nat : n \in T \/ n > N}
<1>1. 0 \in U
  OBVIOUS
<1>2. ASSUME NEW n \in U PROVE n + 1 \in U
  <2>1. CASE n \in 0..(N - 1)
    BY <2>1
  <2>2. CASE n \notin 0..(N - 1)
    BY <2>2
  <2> QED
    BY <2>1, <2>2
<1>3. U = Nat
  <2> HIDE DEF U
  <2>1. U \in SUBSET Nat
    BY DEF U
  <2> QED
    BY <1>1, <1>2, <2>1, AllNumbers
<1> QED
  BY <1>3

-----------------------------------------------------------------------------
\* f[n] are the entries of the first n fields of a message.
Packs(f, type, message) ==
  /\ DOMAIN f = 0..Len(type)
  /\ f[0] = << >>
  /\ \A n \in 1..Len(type) : f[n] = f[n - 1] \o FieldEntries(n, type[n], message[n])

\* Pack is the last of such a function.
LEMMA PackIsLast ==
  ASSUME NEW F, NEW type \in Seq(F), NEW message
  PROVE  \E f : Packs(f, type, message) /\ Pack(type, message) = f[Len(type)]
<1> DEFINE D == 0..Len(type)
           Body(f, n) == IF n = 0 THEN << >> ELSE f[n - 1] \o FieldEntries(n, type[n], message[n])
           Fixed(f) == f = [n \in D |-> Body(f, n)]
           Good(f, m) == DOMAIN f = D /\ \A n \in D : n < m => f[n] = Body(f, n)
           M == {m \in Nat : \E f : Good(f, m)}
<1>0. Len(type) \in Nat /\ D \subseteq Nat
  BY LenProperties
<1>1. 0 \in M
  <2>1. Good([n \in D |-> 0], 0)
    BY <1>0
  <2> HIDE DEF Good
  <2> QED
    BY <2>1
<1>2. ASSUME NEW m \in M PROVE m + 1 \in M
  <2>1. PICK f : Good(f, m)
    BY <1>2
  <2> DEFINE g == [n \in D |-> Body(f, n)]
  <2>2. Good(g, m + 1)
    <3> SUFFICES ASSUME NEW n \in D, n < m + 1 PROVE g[n] = Body(g, n)
      OBVIOUS
    <3>1. CASE n = 0
      BY <3>1
    <3>2. CASE n # 0
      <4>1. n - 1 \in D /\ n - 1 < m
        BY <1>0, <3>2
      <4>2. f[n - 1] = Body(f, n - 1)
        BY <2>1, <4>1
      <4>3. g[n - 1] = f[n - 1]
        BY <4>1, <4>2
      <4> QED
        BY <3>2, <4>3
    <3> QED
      BY <3>1, <3>2
  <2>3. m + 1 \in Nat
    OBVIOUS
  <2> HIDE DEF Good, g
  <2> QED
    BY <2>2, <2>3
<1>3. Len(type) + 1 \in M
  <2>1. M \in SUBSET Nat
    OBVIOUS
  <2> HIDE DEF M
  <2>2. M = Nat
    BY <1>1, <1>2, <2>1, AllNumbers
  <2> QED
    BY <1>0, <2>2
<1>4. PICK p : Good(p, Len(type) + 1)
  BY <1>3
<1> DEFINE g == [n \in D |-> Body(p, n)]
<1>5. Fixed(g)
  <2>1. \A n \in D : Body(g, n) = Body(p, n)
    <3> SUFFICES ASSUME NEW n \in D PROVE Body(g, n) = Body(p, n)
      OBVIOUS
    <3>1. CASE n = 0
      BY <3>1
    <3>2. CASE n # 0
      <4>1. n - 1 \in D /\ n - 1 < Len(type) + 1
        BY <1>0, <3>2
      <4>2. g[n - 1] = p[n - 1]
        BY <1>4, <4>1
      <4> QED
        BY <4>2
    <3> QED
      BY <3>1, <3>2
  <2> HIDE DEF Body
  <2> QED
    BY <2>1
<1> DEFINE packed == CHOOSE f : Fixed(f)
<1>6. Fixed(packed)
  <2> HIDE DEF Fixed
  <2> QED
    BY <1>5
<1>7. Pack(type, message) = packed[Len(type)]
  BY DEF Pack
<1> HIDE DEF packed
<1>8. Packs(packed, type, message)
  <2>1. DOMAIN packed = D /\ \A n \in D : packed[n] = Body(packed, n)
    <3> HIDE DEF Body
    <3> QED
      BY <1>6
  <2>2. packed[0] = << >>
    BY <1>0, <2>1
  <2>3. ASSUME NEW n \in 1..Len(type)
        PROVE  packed[n] = packed[n - 1] \o FieldEntries(n, type[n], message[n])
    <3>1. n \in D /\ n # 0
      BY <1>0
    <3>2. packed[n] = Body(packed, n)
      <4> HIDE DEF D, Body
      <4> QED
        BY <2>1, <3>1
    <3> QED
      BY Zenon, <3>1, <3>2
  <2> QED
    BY <2>1, <2>2, <2>3 DEF Packs
<1> QED
  BY <1>7, <1>8

\* f[n] is what a reader has after n entries.
Takes(f, type, target, bytes) ==
  /\ DOMAIN f = 0..Len(bytes)
  /\ f[0] = target
  /\ \A n \in 1..Len(bytes) : f[n] = TakeEntry(type, f[n - 1], bytes[n])

\* ReadInto is the last of such a function.
LEMMA ReadIntoIsLast ==
  ASSUME NEW S, NEW bytes \in Seq(S), NEW type, NEW target
  PROVE  \E f : Takes(f, type, target, bytes) /\ ReadInto(type, target, bytes) = f[Len(bytes)]
<1> DEFINE D == 0..Len(bytes)
           Body(f, n) == IF n = 0 THEN target ELSE TakeEntry(type, f[n - 1], bytes[n])
           Fixed(f) == f = [n \in D |-> Body(f, n)]
           Good(f, m) == DOMAIN f = D /\ \A n \in D : n < m => f[n] = Body(f, n)
           M == {m \in Nat : \E f : Good(f, m)}
<1>0. Len(bytes) \in Nat /\ D \subseteq Nat
  BY LenProperties
<1>1. 0 \in M
  <2>1. Good([n \in D |-> 0], 0)
    BY <1>0
  <2> HIDE DEF Good
  <2> QED
    BY <2>1
<1>2. ASSUME NEW m \in M PROVE m + 1 \in M
  <2>1. PICK f : Good(f, m)
    BY <1>2
  <2> DEFINE g == [n \in D |-> Body(f, n)]
  <2>2. Good(g, m + 1)
    <3> SUFFICES ASSUME NEW n \in D, n < m + 1 PROVE g[n] = Body(g, n)
      OBVIOUS
    <3>1. CASE n = 0
      BY <3>1
    <3>2. CASE n # 0
      <4>1. n - 1 \in D /\ n - 1 < m
        BY <1>0, <3>2
      <4>2. f[n - 1] = Body(f, n - 1)
        BY <2>1, <4>1
      <4>3. g[n - 1] = f[n - 1]
        BY <4>1, <4>2
      <4> QED
        BY <3>2, <4>3
    <3> QED
      BY <3>1, <3>2
  <2>3. m + 1 \in Nat
    OBVIOUS
  <2> HIDE DEF Good, g
  <2> QED
    BY <2>2, <2>3
<1>3. Len(bytes) + 1 \in M
  <2>1. M \in SUBSET Nat
    OBVIOUS
  <2> HIDE DEF M
  <2>2. M = Nat
    BY <1>1, <1>2, <2>1, AllNumbers
  <2> QED
    BY <1>0, <2>2
<1>4. PICK p : Good(p, Len(bytes) + 1)
  BY <1>3
<1> DEFINE g == [n \in D |-> Body(p, n)]
<1>5. Fixed(g)
  <2>1. \A n \in D : Body(g, n) = Body(p, n)
    <3> SUFFICES ASSUME NEW n \in D PROVE Body(g, n) = Body(p, n)
      OBVIOUS
    <3>1. CASE n = 0
      BY <3>1
    <3>2. CASE n # 0
      <4>1. n - 1 \in D /\ n - 1 < Len(bytes) + 1
        BY <1>0, <3>2
      <4>2. g[n - 1] = p[n - 1]
        BY <1>4, <4>1
      <4> QED
        BY <4>2
    <3> QED
      BY <3>1, <3>2
  <2> HIDE DEF Body
  <2> QED
    BY <2>1
<1> DEFINE taken == CHOOSE f : Fixed(f)
<1>6. Fixed(taken)
  <2> HIDE DEF Fixed
  <2> QED
    BY <1>5
<1>7. ReadInto(type, target, bytes) = taken[Len(bytes)]
  BY DEF ReadInto
<1> HIDE DEF taken
<1>8. Takes(taken, type, target, bytes)
  <2>1. DOMAIN taken = D /\ \A n \in D : taken[n] = Body(taken, n)
    <3> HIDE DEF Body
    <3> QED
      BY <1>6
  <2>2. taken[0] = target
    BY <1>0, <2>1
  <2>3. ASSUME NEW n \in 1..Len(bytes)
        PROVE  taken[n] = TakeEntry(type, taken[n - 1], bytes[n])
    BY <1>0, <2>1
  <2> QED
    BY <2>1, <2>2, <2>3 DEF Takes
<1> QED
  BY <1>7, <1>8

\* No entry leaves the message as it is.
LEMMA ReadIntoNothing ==
  ASSUME NEW type, NEW target
  PROVE  ReadInto(type, target, << >>) = target
<1>1. << >> \in Seq({}) /\ Len(<< >>) = 0
  OBVIOUS
<1>2. PICK f : Takes(f, type, target, << >>) /\ ReadInto(type, target, << >>) = f[0]
  BY <1>1, ReadIntoIsLast
<1> QED
  BY <1>2 DEF Takes

\* One entry is taken.
LEMMA ReadIntoOne ==
  ASSUME NEW type, NEW target, NEW entry
  PROVE  ReadInto(type, target, <<entry>>) = TakeEntry(type, target, entry)
<1>1. <<entry>> \in Seq({entry}) /\ Len(<<entry>>) = 1 /\ <<entry>>[1] = entry
  OBVIOUS
<1>2. PICK f : Takes(f, type, target, <<entry>>) /\ ReadInto(type, target, <<entry>>) = f[1]
  BY <1>1, ReadIntoIsLast
<1>3. f[0] = target /\ f[1] = TakeEntry(type, f[0], <<entry>>[1])
  BY <1>1, <1>2 DEF Takes
<1> QED
  BY <1>1, <1>2, <1>3

\* To read bytes in a row is to read the second ones into what the first ones gave.
LEMMA ReadIntoRow ==
  ASSUME NEW S, NEW bs \in Seq(S), NEW cs \in Seq(S), NEW type, NEW target
  PROVE  ReadInto(type, target, bs \o cs) = ReadInto(type, ReadInto(type, target, bs), cs)
<1> DEFINE all == bs \o cs
           B == Len(bs)
           C == Len(cs)
<1>0. B \in Nat /\ C \in Nat
  BY LenProperties
<1>1. /\ all \in Seq(S) /\ Len(all) = B + C
      /\ \A n \in 1..B : all[n] = bs[n]
      /\ \A n \in 1..C : all[B + n] = cs[n]
  <2>1. all \in Seq(S) /\ Len(all) = B + C
    BY ConcatProperties
  <2>2. ASSUME NEW n \in 1..B PROVE all[n] = bs[n]
    BY <1>0, ConcatProperties
  <2>3. ASSUME NEW n \in 1..C PROVE all[B + n] = cs[n]
    BY <1>0, ConcatProperties
  <2> QED
    BY <2>1, <2>2, <2>3
<1> HIDE DEF all
<1>2. PICK f : Takes(f, type, target, all) /\ ReadInto(type, target, all) = f[Len(all)]
  BY <1>1, ReadIntoIsLast
<1>3. PICK g : Takes(g, type, target, bs) /\ ReadInto(type, target, bs) = g[B]
  BY ReadIntoIsLast
<1>4. PICK h : Takes(h, type, g[B], cs) /\ ReadInto(type, g[B], cs) = h[C]
  BY ReadIntoIsLast
<1> HIDE DEF B, C
<1>5. f[0] = g[0] /\ g[B] = h[0]
  BY <1>2, <1>3, <1>4 DEF Takes
<1>6. \A n \in 0..B : f[n] = g[n]
  <2> DEFINE T == {n \in 0..B : f[n] = g[n]}
  <2>1. 0 \in T
    BY <1>0, <1>5
  <2>2. ASSUME NEW n \in 0..(B - 1), n \in T PROVE n + 1 \in T
    <3>1. n + 1 \in 1..B /\ n + 1 \in 1..(B + C) /\ (n + 1) - 1 = n
      BY <1>0
    <3>2. f[n + 1] = TakeEntry(type, f[n], all[n + 1]) /\ g[n + 1] = TakeEntry(type, g[n], bs[n + 1])
      BY <1>1, <1>2, <1>3, <3>1 DEF Takes, B
    <3>3. f[n] = g[n] /\ all[n + 1] = bs[n + 1]
      BY <1>1, <2>2, <3>1
    <3> QED
      BY <3>1, <3>2, <3>3
  <2> HIDE DEF T
  <2>3. \A n \in 0..B : n \in T
    BY <1>0, <2>1, <2>2, CountingUp
  <2> QED
    BY <2>3 DEF T
<1>7. \A n \in 0..C : f[B + n] = h[n]
  <2> DEFINE T == {n \in 0..C : f[B + n] = h[n]}
  <2>1. 0 \in T
    <3>1. B + 0 = B /\ B \in 0..B /\ 0 \in 0..C
      BY <1>0
    <3> QED
      BY <1>5, <1>6, <3>1
  <2>2. ASSUME NEW n \in 0..(C - 1), n \in T PROVE n + 1 \in T
    <3>1. /\ n + 1 \in 1..C /\ (n + 1) - 1 = n
          /\ B + (n + 1) \in 1..(B + C) /\ (B + (n + 1)) - 1 = B + n
      BY <1>0
    <3>2. /\ f[B + (n + 1)] = TakeEntry(type, f[B + n], all[B + (n + 1)])
          /\ h[n + 1] = TakeEntry(type, h[n], cs[n + 1])
      <4>1. f[B + (n + 1)] = TakeEntry(type, f[(B + (n + 1)) - 1], all[B + (n + 1)])
        BY <1>1, <1>2, <3>1 DEF Takes
      <4>2. h[n + 1] = TakeEntry(type, h[(n + 1) - 1], cs[n + 1])
        BY <1>4, <3>1 DEF Takes, C
      <4> QED
        BY <3>1, <4>1, <4>2
    <3>3. f[B + n] = h[n] /\ all[B + (n + 1)] = cs[n + 1]
      BY <1>1, <2>2, <3>1
    <3> QED
      BY <3>1, <3>2, <3>3
  <2> HIDE DEF T
  <2>3. \A n \in 0..C : n \in T
    BY <1>0, <2>1, <2>2, CountingUp
  <2> QED
    BY <2>3 DEF T
<1>8. f[B + C] = h[C]
  BY <1>0, <1>7
<1> QED
  BY <1>1, <1>2, <1>3, <1>4, <1>8 DEF all

\* Entries with a number the type does not have leave the message as it is.
LEMMA Skipped ==
  ASSUME NEW S, NEW bytes \in Seq(S), NEW type, NEW target,
         \A k \in 1..Len(bytes) : bytes[k].no \notin DOMAIN type
  PROVE  ReadInto(type, target, bytes) = target
<1>0. Len(bytes) \in Nat
  BY LenProperties
<1>1. PICK f : Takes(f, type, target, bytes) /\ ReadInto(type, target, bytes) = f[Len(bytes)]
  BY ReadIntoIsLast
<1> DEFINE T == {k \in 0..Len(bytes) : f[k] = target}
<1>2. 0 \in T
  BY <1>0, <1>1 DEF Takes
<1>3. ASSUME NEW k \in 0..(Len(bytes) - 1), k \in T PROVE k + 1 \in T
  <2>1. k + 1 \in 1..Len(bytes) /\ (k + 1) - 1 = k
    BY <1>0
  <2>2. f[k + 1] = TakeEntry(type, f[k], bytes[k + 1])
    <3>1. f[k + 1] = TakeEntry(type, f[(k + 1) - 1], bytes[k + 1])
      BY <1>1, <2>1 DEF Takes
    <3> QED
      BY <2>1, <3>1
  <2>3. f[k + 1] = f[k]
    BY <2>1, <2>2 DEF TakeEntry
  <2> QED
    BY <1>3, <2>1, <2>3
<1> HIDE DEF T
<1>4. \A k \in 0..Len(bytes) : k \in T
  BY <1>0, <1>2, <1>3, CountingUp
<1>5. Len(bytes) \in 0..Len(bytes)
  BY <1>0
<1> QED
  BY <1>1, <1>4, <1>5 DEF T

\* The message with another value for a field.
Put(message, i, value) == [message EXCEPT ![i] = value]

\* The texts or messages of a field are read one after the other.
LEMMA OneByOne ==
  ASSUME NEW V, NEW values \in Seq(V), NEW type, NEW i \in DOMAIN type, NEW target,
         DOMAIN target = DOMAIN type, Put(target, i, target[i]) = target,
         target[i] = << >>, type[i].kind \in {"strings", "messages"}
  PROVE  ReadInto(type, target, [k \in DOMAIN values |-> [no |-> i, data |-> values[k]]])
           = Put(target, i, values)
<1> DEFINE N == Len(values)
           bytes == [k \in DOMAIN values |-> [no |-> i, data |-> values[k]]]
           S == {bytes[k] : k \in 1..N}
           Done(k) == Put(target, i, SubSeq(values, 1, k))
<1>0. N \in Nat /\ DOMAIN values = 1..N
  BY LenProperties
<1>1. bytes \in Seq(S) /\ Len(bytes) = N
  <2>1. DOMAIN bytes = 1..N
    BY <1>0
  <2>2. bytes \in [1..N -> S]
    BY <2>1
  <2> HIDE DEF bytes, S
  <2>3. bytes \in Seq(S)
    BY <1>0, <2>2
  <2>4. Len(bytes) = N
    BY <1>0, <2>1, <2>3, LenProperties
  <2> QED
    BY <2>3, <2>4
<1>2. \A k \in 1..N : bytes[k].no = i /\ bytes[k].data = values[k]
  BY <1>0
<1> HIDE DEF bytes, N
<1>3. PICK f : Takes(f, type, target, bytes) /\ ReadInto(type, target, bytes) = f[N]
  <2> HIDE DEF S
  <2> QED
    BY <1>1, ReadIntoIsLast
<1> DEFINE T == {k \in 0..N : f[k] = Done(k)}
<1>4. 0 \in T
  <2>1. f[0] = target
    BY <1>3 DEF Takes
  <2>2. SubSeq(values, 1, 0) = << >>
    BY SubSeqEmpty
  <2>3. Done(0) = target
    <3>1. Done(0) = Put(target, i, target[i])
      BY <2>2
    <3> QED
      BY <3>1
  <2>4. 0 \in 0..N
    BY <1>0
  <2> HIDE DEF Done
  <2> QED
    BY <2>1, <2>3, <2>4
<1>5. ASSUME NEW k \in 0..(N - 1), k \in T PROVE k + 1 \in T
  <2>1. k + 1 \in 1..N /\ (k + 1) - 1 = k /\ k \in Nat /\ k + 1 \in 0..N
    BY <1>0
  <2>2. f[k + 1] = TakeEntry(type, f[k], bytes[k + 1])
    <3>1. f[k + 1] = TakeEntry(type, f[(k + 1) - 1], bytes[k + 1])
      BY <1>1, <1>3, <2>1 DEF Takes
    <3> QED
      BY <2>1, <3>1
  <2>3. f[k][i] = SubSeq(values, 1, k)
    BY <1>5 DEF Put
  <2>4. f[k + 1] = Put(f[k], i, Append(SubSeq(values, 1, k), values[k + 1]))
    <3>1. f[k + 1] = Put(f[k], i, Taken(type[i], f[k][i], values[k + 1]))
      BY <1>2, <2>1, <2>2 DEF TakeEntry, Put
    <3>2. Taken(type[i], f[k][i], values[k + 1]) = Append(f[k][i], values[k + 1])
      BY DEF Taken
    <3> QED
      BY <2>3, <3>1, <3>2
  <2>5. Append(SubSeq(values, 1, k), values[k + 1]) = SubSeq(values, 1, k + 1)
    <3>1. SubSeq(values, 1, k) \in Seq(V) /\ values[k + 1] \in V
      BY <1>0, <2>1, SubSeqProperties, ElementOfSeq DEF N
    <3>2. Append(SubSeq(values, 1, k), values[k + 1]) = SubSeq(values, 1, k) \o <<values[k + 1]>>
      BY <3>1, AppendIsConcat
    <3>3. SubSeq(values, 1, k + 1) = SubSeq(values, 1, (k + 1) - 1) \o <<values[k + 1]>>
      BY <1>0, <2>1, SubSeqRecursiveSecond DEF N
    <3> QED
      BY <2>1, <3>2, <3>3
  <2>6. f[k + 1] = Put(f[k], i, SubSeq(values, 1, k + 1))
    BY <2>4, <2>5
  <2>7. f[k] = Put(target, i, SubSeq(values, 1, k))
    BY <1>5
  <2>8. f[k + 1] = Put(target, i, SubSeq(values, 1, k + 1))
    BY <2>6, <2>7 DEF Put
  <2> QED
    BY <2>1, <2>8
<1> HIDE DEF T
<1>6. N \in T
  <2>1. \A k \in 0..N : k \in T
    BY <1>0, <1>4, <1>5, CountingUp
  <2> QED
    BY <1>0, <2>1
<1>7. SubSeq(values, 1, N) = values
  BY SubSeqFull DEF N
<1> QED
  BY <1>3, <1>6, <1>7 DEF T, bytes

-----------------------------------------------------------------------------
(* One field: its entries, and what a reader makes of them.                 *)

\* The value of a field whose messages are bytes, or anything else.
IsField(field, value) ==
  IF field.kind \in Nested THEN HasMessages(field, value) ELSE IsValue(field, value)

\* The values of a field that has several are a sequence.
LEMMA FieldIsList ==
  ASSUME NEW field, NEW value, IsField(field, value),
         field.kind \in {"strings", "floats", "message", "messages"}
  PROVE  \E V : value \in Seq(V)
<1>1. CASE field.kind \in {"strings", "floats"}
  BY <1>1 DEF IsField, IsValue, Nested
<1>2. CASE field.kind \in Nested
  BY <1>2 DEF IsField, HasMessages
<1> QED
  BY <1>1, <1>2 DEF Nested

\* The kinds of fields.
LEMMA FieldKinds ==
  ASSUME NEW field, NEW value, IsField(field, value)
  PROVE  field.kind \in {"string", "int32", "double", "bool", "strings", "floats",
                         "message", "messages"}
BY DEF IsField, IsValue, Nested

\* A default arrives without an entry.
LEMMA OmittedIsCarried ==
  ASSUME NEW field, NEW value, IsField(field, value), Omitted(field, value)
  PROVE  CarriedField(field, value) = Default(field)
<1>1. CASE field.kind = "double"
  BY <1>1 DEF Omitted, CarriedField, Default
<1>2. CASE field.kind = "floats"
  <2>1. value = << >>
    BY <1>2 DEF Omitted, Default
  <2>2. [k \in DOMAIN value |-> ToFloat(value[k])] = << >>
    BY <2>1
  <2> QED
    BY <1>2, <2>2 DEF CarriedField, Default
<1>3. CASE field.kind \notin {"double", "floats"}
  BY <1>3 DEF Omitted, CarriedField
<1> QED
  BY <1>1, <1>2, <1>3

\* A function on the first numbers is a sequence.
LEMMA IsSequence ==
  ASSUME NEW s, NEW n \in Nat, DOMAIN s = 1..n, s = [k \in 1..n |-> s[k]]
  PROVE  s \in Seq(ToSet(s)) /\ Len(s) = n
<1>1. s \in [1..n -> ToSet(s)]
  BY DEF ToSet
<1> DEFINE T == ToSet(s)
<1> HIDE DEF T
<1>2. s \in [1..n -> T]
  BY <1>1 DEF T
<1>3. s \in Seq(T)
  BY <1>2
<1> QED
  BY <1>3, LenProperties DEF T

\* One entry for each text or message.
LEMMA EntriesOfMany ==
  ASSUME NEW i, NEW field, NEW value, ~Omitted(field, value),
         field.kind \in {"strings", "message", "messages"}
  PROVE  FieldEntries(i, field, value) = [k \in DOMAIN value |-> [no |-> i, data |-> value[k]]]
BY DEF FieldEntries, Nested

\* One entry for all the floats.
LEMMA EntriesOfFloats ==
  ASSUME NEW i, NEW field, NEW value, ~Omitted(field, value), field.kind = "floats"
  PROVE  FieldEntries(i, field, value) = <<[no |-> i, data |-> CarriedField(field, value)]>>
BY DEF FieldEntries, Nested, CarriedField

\* One entry for a single value.
LEMMA EntriesOfOne ==
  ASSUME NEW i, NEW field, NEW value, ~Omitted(field, value),
         field.kind \in {"string", "int32", "double", "bool"}
  PROVE  FieldEntries(i, field, value) = <<[no |-> i, data |-> CarriedField(field, value)]>>
<1>1. FieldEntries(i, field, value) = <<[no |-> i, data |-> value]>>
  BY DEF FieldEntries, Nested
<1>2. CarriedField(field, value) = value
  BY DEF CarriedField, Omitted
<1> QED
  BY <1>1, <1>2

\* The entries of a field have its number.
LEMMA EntriesHaveNumber ==
  ASSUME NEW i, NEW field, NEW value, IsField(field, value)
  PROVE  /\ FieldEntries(i, field, value) \in Seq(ToSet(FieldEntries(i, field, value)))
         /\ \A k \in 1..Len(FieldEntries(i, field, value)) : FieldEntries(i, field, value)[k].no = i
<1> DEFINE bytes == FieldEntries(i, field, value)
<1>1. CASE Omitted(field, value)
  <2>1. bytes = << >>
    BY <1>1 DEF FieldEntries
  <2> HIDE DEF bytes
  <2>2. bytes \in Seq(ToSet(bytes)) /\ Len(bytes) = 0
    BY <2>1
  <2> QED
    BY <2>2 DEF bytes
<1>2. CASE ~Omitted(field, value) /\ field.kind \in {"strings", "message", "messages"}
  <2>1. PICK V : value \in Seq(V)
    BY <1>2, FieldIsList
  <2>2. bytes = [k \in DOMAIN value |-> [no |-> i, data |-> value[k]]]
    BY <1>2, EntriesOfMany
  <2>3. DOMAIN value = 1..Len(value) /\ Len(value) \in Nat
    BY <2>1, LenProperties
  <2> HIDE DEF bytes
  <2>4. DOMAIN bytes = 1..Len(value) /\ bytes = [k \in 1..Len(value) |-> bytes[k]]
    BY <2>2, <2>3
  <2>5. \A k \in 1..Len(value) : bytes[k].no = i
    BY <2>2, <2>3
  <2>6. bytes \in Seq(ToSet(bytes)) /\ Len(bytes) = Len(value)
    BY <2>3, <2>4, IsSequence
  <2> QED
    BY <2>5, <2>6 DEF bytes
<1>3. CASE ~Omitted(field, value) /\ field.kind \notin {"strings", "message", "messages"}
  <2>1. bytes = <<[no |-> i, data |-> CarriedField(field, value)]>>
    BY <1>3, FieldKinds, EntriesOfFloats, EntriesOfOne
  <2> HIDE DEF bytes
  <2> DEFINE x == CarriedField(field, value)
  <2> HIDE DEF x
  <2>2. bytes = <<[no |-> i, data |-> x]>>
    BY <2>1 DEF x
  <2>3. DOMAIN bytes = 1..1 /\ bytes = [k \in 1..1 |-> bytes[k]] /\ bytes[1].no = i
    BY <2>2
  <2>4. bytes \in Seq(ToSet(bytes)) /\ Len(bytes) = 1
    BY <2>3, IsSequence
  <2> QED
    BY <2>3, <2>4 DEF bytes
<1> QED
  BY <1>1, <1>2, <1>3

\* A reader that has the field gets its value.
LEMMA FieldArrives ==
  ASSUME NEW type, NEW i \in DOMAIN type, NEW target, DOMAIN target = DOMAIN type,
         Put(target, i, target[i]) = target, target[i] = Default(type[i]),
         NEW value, IsField(type[i], value)
  PROVE  ReadInto(type, target, FieldEntries(i, type[i], value))
           = Put(target, i, CarriedField(type[i], value))
<1> DEFINE field == type[i]
           bytes == FieldEntries(i, field, value)
           x == CarriedField(field, value)
<1>1. CASE Omitted(field, value)
  <2>1. bytes = << >>
    BY <1>1 DEF FieldEntries
  <2>2. x = target[i]
    BY <1>1, OmittedIsCarried
  <2>3. ReadInto(type, target, << >>) = target
    BY ReadIntoNothing
  <2> QED
    BY <2>1, <2>2, <2>3
<1>2. CASE ~Omitted(field, value) /\ field.kind \in {"strings", "messages"}
  <2>1. PICK V : value \in Seq(V)
    BY <1>2, FieldIsList
  <2>2. bytes = [k \in DOMAIN value |-> [no |-> i, data |-> value[k]]]
    BY <1>2, EntriesOfMany
  <2>3. target[i] = << >>
    BY <1>2 DEF Default
  <2>4. x = value
    BY <1>2 DEF CarriedField
  <2> QED
    BY <1>2, <2>1, <2>2, <2>3, <2>4, OneByOne
<1>3. CASE ~Omitted(field, value) /\ field.kind = "message"
  <2>1. PICK V : value \in Seq(V)
    BY <1>3, FieldIsList
  <2>2. target[i] = << >> /\ value # << >>
    BY <1>3 DEF Default, Omitted
  <2>3. Len(value) = 1
    <3>1. Len(value) <= 1
      BY <1>3 DEF IsField, HasMessages, Nested
    <3>2. Len(value) \in Nat \ {0}
      BY <2>1, <2>2, EmptySeq
    <3>3. \A n \in Nat \ {0} : n <= 1 => n = 1
      OBVIOUS
    <3> QED
      BY <3>1, <3>2, <3>3
  <2>4. value = <<value[1]>>
    BY <2>1, <2>3
  <2> DEFINE v == value[1]
  <2> HIDE DEF v
  <2>5. value = <<v>>
    BY <2>4 DEF v
  <2>6. bytes = <<[no |-> i, data |-> v]>>
    <3>1. bytes = [k \in DOMAIN value |-> [no |-> i, data |-> value[k]]]
      BY <1>3, EntriesOfMany
    <3> HIDE DEF bytes
    <3> QED
      BY <2>5, <3>1
  <2>7. ReadInto(type, target, bytes) = TakeEntry(type, target, [no |-> i, data |-> v])
    BY <2>6, ReadIntoOne
  <2>8. Taken(field, target[i], v) = <<v>>
    BY <1>3, <2>2 DEF Taken
  <2>9. x = value
    BY <1>3 DEF CarriedField
  <2> QED
    BY <2>5, <2>7, <2>8, <2>9 DEF TakeEntry, Put
<1>4. CASE ~Omitted(field, value) /\ field.kind = "floats"
  <2>1. bytes = <<[no |-> i, data |-> x]>>
    BY <1>4, EntriesOfFloats
  <2>2. x \in Seq(ToSet(x))
    <3>1. PICK V : value \in Seq(V)
      BY <1>4, FieldIsList
    <3>2. DOMAIN value = 1..Len(value) /\ Len(value) \in Nat
      BY <3>1, LenProperties
    <3>3. x = [k \in 1..Len(value) |-> ToFloat(value[k])]
      BY <1>4, <3>2 DEF CarriedField
    <3> HIDE DEF x
    <3>4. DOMAIN x = 1..Len(value) /\ x = [k \in 1..Len(value) |-> x[k]]
      BY <3>3
    <3> QED
      BY <3>2, <3>4, IsSequence
  <2>3. target[i] = << >>
    BY <1>4 DEF Default
  <2> HIDE DEF bytes, x
  <2>4. ReadInto(type, target, bytes) = TakeEntry(type, target, [no |-> i, data |-> x])
    BY <2>1, ReadIntoOne
  <2>5. Taken(field, target[i], x) = << >> \o x
    BY <1>4, <2>3 DEF Taken
  <2>6. << >> \o x = x
    BY <2>2, ConcatEmptySeq
  <2>7. ReadInto(type, target, bytes) = Put(target, i, x)
    BY <2>4, <2>5, <2>6 DEF TakeEntry, Put
  <2> QED
    BY <2>7 DEF bytes, x
<1>5. CASE ~Omitted(field, value) /\ field.kind \in {"string", "int32", "double", "bool"}
  <2>1. bytes = <<[no |-> i, data |-> x]>>
    BY <1>5, EntriesOfOne
  <2> HIDE DEF bytes, x
  <2>2. ReadInto(type, target, bytes) = TakeEntry(type, target, [no |-> i, data |-> x])
    BY <2>1, ReadIntoOne
  <2>3. Taken(field, target[i], x) = x
    BY <1>5 DEF Taken
  <2>4. ReadInto(type, target, bytes) = Put(target, i, x)
    BY <2>2, <2>3 DEF TakeEntry, Put
  <2> QED
    BY <2>4 DEF bytes, x
<1>6. field.kind \in {"string", "int32", "double", "bool", "strings", "floats", "message", "messages"}
  BY FieldKinds
<1> QED
  BY <1>1, <1>2, <1>3, <1>4, <1>5, <1>6

\* A message in which the messages are bytes, or anything else.
IsPacked(type, message) == \A i \in DOMAIN type : IsField(type[i], message[i])

\* Two types of the same fields, as far as both go.
SameFields(type, theirs) == \A i \in DOMAIN type \cap DOMAIN theirs : type[i] = theirs[i]

\* A type is a sequence of fields.
AreFields(type) == type \in Seq(ToSet(type))

\* What a reader with type theirs has after n fields of the message.
SeenUpTo(theirs, message, n) ==
  [i \in DOMAIN theirs |-> IF i <= n THEN CarriedField(theirs[i], message[i]) ELSE Default(theirs[i])]

\* A message whose messages are bytes arrives: each reads the fields both have.
LEMMA PackedArrives ==
  ASSUME NEW type, NEW theirs, AreFields(type), AreFields(theirs), SameFields(type, theirs),
         NEW message, IsPacked(type, message)
  PROVE  Unpack(theirs, Pack(type, message)) = SeenAs(theirs, CarriedFlat(type, message))
<1> DEFINE N == Len(type)
           E(i) == FieldEntries(i, type[i], message[i])
           S == UNION {ToSet(E(i)) : i \in 1..N}
           Seen(n) == SeenUpTo(theirs, message, n)
<1>0. N \in Nat /\ DOMAIN type = 1..N /\ DOMAIN theirs = 1..Len(theirs) /\ Len(theirs) \in Nat
  BY LenProperties DEF AreFields
<1>1. \A i \in 1..N : E(i) \in Seq(S) /\ \A k \in 1..Len(E(i)) : E(i)[k].no = i
  <2> SUFFICES ASSUME NEW i \in 1..N
               PROVE  E(i) \in Seq(S) /\ \A k \in 1..Len(E(i)) : E(i)[k].no = i
    OBVIOUS
  <2>1. E(i) \in Seq(ToSet(E(i))) /\ \A k \in 1..Len(E(i)) : E(i)[k].no = i
    BY <1>0, EntriesHaveNumber DEF IsPacked
  <2>2. ToSet(E(i)) \subseteq S
    OBVIOUS
  <2> HIDE DEF E, S
  <2>3. \A A : A \subseteq S => \A s \in Seq(A) : s \in Seq(S)
    OBVIOUS
  <2> QED
    BY <2>1, <2>2, <2>3
<1>2. PICK p : Packs(p, type, message) /\ Pack(type, message) = p[N]
  BY PackIsLast DEF AreFields
<1> HIDE DEF S
<1> DEFINE T == {n \in 0..N : p[n] \in Seq(S) /\ Unpack(theirs, p[n]) = Seen(n)}
<1>3. 0 \in T
  <2>1. p[0] = << >> /\ << >> \in Seq(S)
    BY <1>2 DEF Packs
  <2>2. Unpack(theirs, << >>) = Created(theirs)
    BY ReadIntoNothing DEF Unpack
  <2>3. Created(theirs) = Seen(0)
    BY <1>0 DEF Created, SeenUpTo
  <2>4. 0 \in 0..N
    BY <1>0
  <2> HIDE DEF Seen
  <2> QED
    BY <2>1, <2>2, <2>3, <2>4
<1>4. ASSUME NEW n \in 0..(N - 1), n \in T PROVE n + 1 \in T
  <2> DEFINE i == n + 1
             x == CarriedField(theirs[i], message[i])
  <2>1. i \in 1..N /\ i - 1 = n /\ i \in 0..N /\ n \in Nat
    BY <1>0
  <2>2. p[i] = p[n] \o E(i)
    <3>1. p[i] = p[i - 1] \o E(i)
      BY <1>2, <2>1 DEF Packs
    <3> QED
      BY <2>1, <3>1
  <2>3. p[n] \in Seq(S) /\ E(i) \in Seq(S)
    BY <1>1, <1>4, <2>1
  <2>4. p[i] \in Seq(S)
    BY <2>2, <2>3, ConcatProperties
  <2>5. Unpack(theirs, p[i]) = ReadInto(theirs, Seen(n), E(i))
    <3>1. ReadInto(theirs, Created(theirs), p[n]) = Seen(n)
      BY <1>4 DEF Unpack
    <3>2. ReadInto(theirs, Created(theirs), p[n] \o E(i))
            = ReadInto(theirs, ReadInto(theirs, Created(theirs), p[n]), E(i))
      <4> HIDE DEF E
      <4> QED
        BY <2>3, ReadIntoRow
    <3> HIDE DEF E, Seen
    <3> QED
      BY <2>2, <3>1, <3>2 DEF Unpack
  <2>6. ReadInto(theirs, Seen(n), E(i)) = Seen(i)
    <3>1. CASE i \in DOMAIN theirs
      <4>1. type[i] = theirs[i] /\ IsField(theirs[i], message[i])
        BY <1>0, <2>1, <3>1 DEF SameFields, IsPacked
      <4>2. DOMAIN Seen(n) = DOMAIN theirs /\ Put(Seen(n), i, Seen(n)[i]) = Seen(n)
        BY <3>1 DEF SeenUpTo, Put
      <4>3. Seen(n)[i] = Default(theirs[i])
        BY <2>1, <3>1 DEF SeenUpTo
      <4>4. ReadInto(theirs, Seen(n), FieldEntries(i, theirs[i], message[i])) = Put(Seen(n), i, x)
        <5> HIDE DEF Seen
        <5> QED
          BY <3>1, <4>1, <4>2, <4>3, FieldArrives
      <4>5. Put(Seen(n), i, x) = Seen(i)
        <5>1. \A k \in DOMAIN theirs : k # i => (k <= n <=> k <= i)
          BY <1>0, <2>1
        <5> HIDE DEF i
        <5>2. i <= i
          BY <2>1
        <5>3. \A k \in DOMAIN theirs : Put(Seen(n), i, x)[k] = Seen(i)[k]
          BY <5>1, <5>2 DEF SeenUpTo, Put
        <5>4. Put(Seen(n), i, x) = [k \in DOMAIN theirs |-> Put(Seen(n), i, x)[k]]
          BY DEF SeenUpTo, Put
        <5>5. Seen(i) = [k \in DOMAIN theirs |-> Seen(i)[k]]
          BY DEF SeenUpTo
        <5> HIDE DEF Seen, x
        <5> QED
          BY <5>3, <5>4, <5>5
      <4> QED
        BY <4>1, <4>4, <4>5
    <3>2. CASE i \notin DOMAIN theirs
      <4>1. ReadInto(theirs, Seen(n), E(i)) = Seen(n)
        <5>1. \A k \in 1..Len(E(i)) : E(i)[k].no \notin DOMAIN theirs
          <6> HIDE DEF E
          <6> QED
            BY <1>1, <2>1, <3>2
        <5> HIDE DEF E, Seen
        <5> QED
          BY <2>3, <5>1, Skipped
      <4>2. \A k \in DOMAIN theirs : k <= n <=> k <= i
        BY <1>0, <2>1, <3>2
      <4>3. Seen(i) = Seen(n)
        <5> HIDE DEF i
        <5> QED
          BY <4>2 DEF SeenUpTo
      <4> QED
        BY <4>1, <4>3
    <3> QED
      BY <3>1, <3>2
  <2> HIDE DEF Seen, i
  <2> QED
    BY <2>1, <2>4, <2>5, <2>6 DEF i
<1> HIDE DEF T
<1>5. N \in T
  <2>1. \A n \in 0..N : n \in T
    BY <1>0, <1>3, <1>4, CountingUp
  <2> QED
    BY <1>0, <2>1
<1>6. Seen(N) = SeenAs(theirs, CarriedFlat(type, message))
  <2>1. \A i \in DOMAIN theirs : i <= N <=> i \in DOMAIN type
    BY <1>0
  <2>2. \A i \in DOMAIN theirs : i \in DOMAIN type =>
          CarriedFlat(type, message)[i] = CarriedField(theirs[i], message[i])
    BY DEF CarriedFlat, SameFields
  <2>3. DOMAIN CarriedFlat(type, message) = DOMAIN type
    BY DEF CarriedFlat
  <2> HIDE DEF N
  <2> QED
    BY <2>1, <2>2, <2>3 DEF SeenUpTo, SeenAs
<1> QED
  BY <1>2, <1>5, <1>6 DEF T

-----------------------------------------------------------------------------
(* Messages in messages, one level after the other.                         *)

\* w is the message with something else in the place of each message in it.
Replaces(type, message, w) ==
  \A i \in DOMAIN type :
    IF type[i].kind \in Nested
    THEN DOMAIN w[i] = DOMAIN message[i] /\ w[i] = [k \in DOMAIN message[i] |-> w[i][k]]
    ELSE w[i] = message[i]

\* It has as many.
LEMMA StaysPacked ==
  ASSUME NEW type, NEW message, NEW w, IsPacked(type, message), Replaces(type, message, w)
  PROVE  IsPacked(type, w)
<1> SUFFICES ASSUME NEW i \in DOMAIN type PROVE IsField(type[i], w[i])
  BY DEF IsPacked
<1>1. IsField(type[i], message[i])
  BY DEF IsPacked
<1>2. CASE type[i].kind \notin Nested
  BY <1>1, <1>2 DEF Replaces
<1>3. CASE type[i].kind \in Nested
  <2>1. HasMessages(type[i], message[i])
    BY <1>1, <1>3 DEF IsField
  <2>2. DOMAIN message[i] = 1..Len(message[i]) /\ Len(message[i]) \in Nat
    BY <2>1, LenProperties DEF HasMessages
  <2> DEFINE v == w[i]
  <2>3. DOMAIN v = 1..Len(message[i]) /\ v = [k \in 1..Len(message[i]) |-> v[k]]
    BY <1>3, <2>2 DEF Replaces
  <2> HIDE DEF v
  <2>4. v \in Seq(ToSet(v)) /\ Len(v) = Len(message[i])
    BY <2>2, <2>3, IsSequence
  <2>5. HasMessages(type[i], v)
    BY <2>1, <2>4 DEF HasMessages
  <2> QED
    BY <1>3, <2>5 DEF IsField, v
<1> QED
  BY <1>2, <1>3

\* What an unpacked field is, for a reader with the same or other fields.
LEMMA SeenField ==
  ASSUME NEW type, NEW theirs, SameFields(type, theirs), NEW message, NEW i \in DOMAIN theirs
  PROVE  /\ i \in DOMAIN type =>
              /\ type[i] = theirs[i]
              /\ SeenAs(theirs, CarriedFlat(type, message))[i] = CarriedField(theirs[i], message[i])
         /\ i \notin DOMAIN type => SeenAs(theirs, CarriedFlat(type, message))[i] = Default(theirs[i])
BY DEF SeenAs, CarriedFlat, SameFields

\* A reader with the writer's own type sees the whole message.
LEMMA SeesAll ==
  ASSUME NEW type, NEW message, DOMAIN message = DOMAIN type, message = [i \in DOMAIN type |-> message[i]]
  PROVE  SeenAs(type, message) = message
BY DEF SeenAs

\* A message without messages in it, among others.
FlatArrives(type) ==
  \A m : IsFlat(type, m) => Unpack(type, Pack(type, m)) = CarriedFlat(type, m)

LEMMA FlatTypesArrive ==
  ASSUME NEW type, AreFields(type)
  PROVE  FlatArrives(type)
<1> SUFFICES ASSUME NEW m, IsFlat(type, m) PROVE Unpack(type, Pack(type, m)) = CarriedFlat(type, m)
  BY DEF FlatArrives
<1>1. IsPacked(type, m)
  BY DEF IsFlat, IsPacked, IsField, IsValue, Nested
<1>2. SameFields(type, type)
  BY DEF SameFields
<1>3. Unpack(type, Pack(type, m)) = SeenAs(type, CarriedFlat(type, m))
  BY <1>1, <1>2, PackedArrives
<1>4. SeenAs(type, CarriedFlat(type, m)) = CarriedFlat(type, m)
  BY SeesAll DEF CarriedFlat
<1> QED
  BY <1>3, <1>4

\* A type of fields whose messages have no messages in them.
IsNestedType(type) ==
  AreFields(type) /\ \A i \in DOMAIN type : type[i].kind \in Nested => AreFields(type[i].of)

\* A message with messages in it is read back with each of them read back.
LEMMA NestedArrives ==
  ASSUME NEW type, IsNestedType(type), NEW theirs, AreFields(theirs), SameFields(type, theirs),
         NEW message, IsNested(type, message)
  PROVE  ReadNested(theirs, WriteNested(type, message)) = SeenAs(theirs, CarriedNested(type, message))
<1> DEFINE w == Within(type, message, Pack)
           c == Within(type, message, CarriedFlat)
           u == SeenAs(theirs, CarriedFlat(type, w))
           r == SeenAs(theirs, CarriedFlat(type, c))
<1>1. IsPacked(type, w)
  <2>1. Replaces(type, message, w)
    BY DEF Replaces, Within
  <2>2. IsPacked(type, message)
    BY DEF IsNested, IsPacked, IsField
  <2> HIDE DEF w
  <2> QED
    BY <2>1, <2>2, StaysPacked
<1>2. Unpack(theirs, Pack(type, w)) = u
  <2> HIDE DEF w
  <2> QED
    BY <1>1, PackedArrives DEF IsNestedType
<1>3. \A i \in DOMAIN theirs :
        r[i] = IF theirs[i].kind \in Nested
               THEN [k \in DOMAIN u[i] |-> Unpack(theirs[i].of, u[i][k])] ELSE u[i]
  <2> SUFFICES ASSUME NEW i \in DOMAIN theirs
               PROVE  r[i] = IF theirs[i].kind \in Nested
                             THEN [k \in DOMAIN u[i] |-> Unpack(theirs[i].of, u[i][k])] ELSE u[i]
    OBVIOUS
  <2>0. /\ i \in DOMAIN type => /\ type[i] = theirs[i]
                                /\ u[i] = CarriedField(theirs[i], w[i])
                                /\ r[i] = CarriedField(theirs[i], c[i])
        /\ i \notin DOMAIN type => u[i] = Default(theirs[i]) /\ r[i] = Default(theirs[i])
    <3> HIDE DEF w, c
    <3> QED
      BY SeenField
  <2> HIDE DEF u, r
  <2>1. CASE i \in DOMAIN type /\ theirs[i].kind \in Nested
    <3> DEFINE of == theirs[i].of
    <3>1. w[i] = [k \in DOMAIN message[i] |-> Pack(of, message[i][k])]
      BY <2>0, <2>1 DEF Within
    <3>2. c[i] = [k \in DOMAIN message[i] |-> CarriedFlat(of, message[i][k])]
      BY <2>0, <2>1 DEF Within
    <3> HIDE DEF w, c
    <3>3. u[i] = w[i] /\ r[i] = c[i]
      BY <2>0, <2>1 DEF CarriedField, Nested
    <3>4. \A k \in DOMAIN message[i] : Unpack(of, Pack(of, message[i][k])) = CarriedFlat(of, message[i][k])
      <4>1. FlatArrives(of)
        BY <2>0, <2>1, FlatTypesArrive DEF IsNestedType
      <4>2. \A k \in DOMAIN message[i] : IsFlat(of, message[i][k])
        BY <2>0, <2>1 DEF IsNested
      <4> QED
        BY <4>1, <4>2 DEF FlatArrives
    <3> HIDE DEF of
    <3>5. r[i] = [k \in DOMAIN u[i] |-> Unpack(of, u[i][k])]
      BY <3>1, <3>2, <3>3, <3>4
    <3> QED
      BY <2>1, <3>5 DEF of
  <2>2. CASE i \in DOMAIN type /\ theirs[i].kind \notin Nested
    <3>1. w[i] = message[i] /\ c[i] = message[i]
      BY <2>0, <2>2 DEF Within
    <3> HIDE DEF w, c
    <3> QED
      BY <2>0, <2>2, <3>1
  <2>3. CASE i \notin DOMAIN type
    <3>1. u[i] = r[i]
      BY <2>0, <2>3
    <3>2. theirs[i].kind \in Nested => u[i] = << >>
      BY <2>0, <2>3 DEF Default, Nested
    <3> HIDE DEF w, c
    <3>3. theirs[i].kind \in Nested => [k \in DOMAIN u[i] |-> Unpack(theirs[i].of, u[i][k])] = << >>
      <4> SUFFICES ASSUME u[i] = << >> PROVE [k \in DOMAIN u[i] |-> Unpack(theirs[i].of, u[i][k])] = << >>
        BY <3>2
      <4>1. DOMAIN u[i] = 1..0
        OBVIOUS
      <4> QED
        BY <4>1
    <3> QED
      BY <3>1, <3>2, <3>3
  <2> QED
    BY <2>1, <2>2, <2>3
<1>4. r = [i \in DOMAIN theirs |-> r[i]]
  BY DEF SeenAs
<1>5. Within(theirs, u, Unpack) = r
  <2> HIDE DEF u, r
  <2> QED
    BY <1>3, <1>4 DEF Within
<1>6. ReadNested(theirs, WriteNested(type, message)) = Within(theirs, u, Unpack)
  BY <1>2 DEF ReadNested, WriteNested
<1> QED
  BY <1>5, <1>6 DEF CarriedNested

\* A message whose messages have none in them, among others.
NestedArrivesWhole(type) ==
  \A m : IsNested(type, m) => ReadNested(type, WriteNested(type, m)) = CarriedNested(type, m)

LEMMA NestedTypesArrive ==
  ASSUME NEW type, IsNestedType(type)
  PROVE  NestedArrivesWhole(type)
<1> SUFFICES ASSUME NEW m, IsNested(type, m)
             PROVE  ReadNested(type, WriteNested(type, m)) = CarriedNested(type, m)
  BY DEF NestedArrivesWhole
<1>1. SameFields(type, type)
  BY DEF SameFields
<1>2. ReadNested(type, WriteNested(type, m)) = SeenAs(type, CarriedNested(type, m))
  BY <1>1, NestedArrives DEF IsNestedType
<1>3. SeenAs(type, CarriedNested(type, m)) = CarriedNested(type, m)
  BY SeesAll DEF CarriedNested, CarriedFlat
<1> QED
  BY <1>2, <1>3

\* A type of fields whose messages have messages of fields in them.
IsMessageType(type) ==
  AreFields(type) /\ \A i \in DOMAIN type : type[i].kind \in Nested => IsNestedType(type[i].of)

\* Whatever the message, and whichever fields the reader's build has or lacks.
THEOREM MessageArrives ==
  ASSUME NEW type, IsMessageType(type), NEW theirs, AreFields(theirs), SameFields(type, theirs),
         NEW message, IsMessage(type, message)
  PROVE  ReadMessage(theirs, WriteMessage(type, message)) = SeenAs(theirs, Carried(type, message))
<1> DEFINE w == Within(type, message, WriteNested)
           c == Within(type, message, CarriedNested)
           u == SeenAs(theirs, CarriedFlat(type, w))
           r == SeenAs(theirs, CarriedFlat(type, c))
<1>1. IsPacked(type, w)
  <2>1. Replaces(type, message, w)
    BY DEF Replaces, Within
  <2>2. IsPacked(type, message)
    BY DEF IsMessage, IsPacked, IsField
  <2> HIDE DEF w
  <2> QED
    BY <2>1, <2>2, StaysPacked
<1>2. Unpack(theirs, Pack(type, w)) = u
  <2> HIDE DEF w
  <2> QED
    BY <1>1, PackedArrives DEF IsMessageType
<1>3. \A i \in DOMAIN theirs :
        r[i] = IF theirs[i].kind \in Nested
               THEN [k \in DOMAIN u[i] |-> ReadNested(theirs[i].of, u[i][k])] ELSE u[i]
  <2> SUFFICES ASSUME NEW i \in DOMAIN theirs
               PROVE  r[i] = IF theirs[i].kind \in Nested
                             THEN [k \in DOMAIN u[i] |-> ReadNested(theirs[i].of, u[i][k])] ELSE u[i]
    OBVIOUS
  <2>0. /\ i \in DOMAIN type => /\ type[i] = theirs[i]
                                /\ u[i] = CarriedField(theirs[i], w[i])
                                /\ r[i] = CarriedField(theirs[i], c[i])
        /\ i \notin DOMAIN type => u[i] = Default(theirs[i]) /\ r[i] = Default(theirs[i])
    <3> HIDE DEF w, c
    <3> QED
      BY SeenField
  <2> HIDE DEF u, r
  <2>1. CASE i \in DOMAIN type /\ theirs[i].kind \in Nested
    <3> DEFINE of == theirs[i].of
    <3>1. w[i] = [k \in DOMAIN message[i] |-> WriteNested(of, message[i][k])]
      BY <2>0, <2>1 DEF Within
    <3>2. c[i] = [k \in DOMAIN message[i] |-> CarriedNested(of, message[i][k])]
      BY <2>0, <2>1 DEF Within
    <3> HIDE DEF w, c
    <3>3. u[i] = w[i] /\ r[i] = c[i]
      BY <2>0, <2>1 DEF CarriedField, Nested
    <3>4. \A k \in DOMAIN message[i] :
            ReadNested(of, WriteNested(of, message[i][k])) = CarriedNested(of, message[i][k])
      <4>1. NestedArrivesWhole(of)
        BY <2>0, <2>1, NestedTypesArrive DEF IsMessageType
      <4>2. \A k \in DOMAIN message[i] : IsNested(of, message[i][k])
        BY <2>0, <2>1 DEF IsMessage
      <4> QED
        BY <4>1, <4>2 DEF NestedArrivesWhole
    <3> HIDE DEF of
    <3>5. r[i] = [k \in DOMAIN u[i] |-> ReadNested(of, u[i][k])]
      BY <3>1, <3>2, <3>3, <3>4
    <3> QED
      BY <2>1, <3>5 DEF of
  <2>2. CASE i \in DOMAIN type /\ theirs[i].kind \notin Nested
    <3>1. w[i] = message[i] /\ c[i] = message[i]
      BY <2>0, <2>2 DEF Within
    <3> HIDE DEF w, c
    <3> QED
      BY <2>0, <2>2, <3>1
  <2>3. CASE i \notin DOMAIN type
    <3>1. u[i] = r[i]
      BY <2>0, <2>3
    <3>2. theirs[i].kind \in Nested => u[i] = << >>
      BY <2>0, <2>3 DEF Default, Nested
    <3> HIDE DEF w, c
    <3>3. theirs[i].kind \in Nested => [k \in DOMAIN u[i] |-> ReadNested(theirs[i].of, u[i][k])] = << >>
      <4> SUFFICES ASSUME u[i] = << >> PROVE [k \in DOMAIN u[i] |-> ReadNested(theirs[i].of, u[i][k])] = << >>
        BY <3>2
      <4>1. DOMAIN u[i] = 1..0
        OBVIOUS
      <4> QED
        BY <4>1
    <3> QED
      BY <3>1, <3>2, <3>3
  <2> QED
    BY <2>1, <2>2, <2>3
<1>4. r = [i \in DOMAIN theirs |-> r[i]]
  BY DEF SeenAs
<1>5. Within(theirs, u, ReadNested) = r
  <2> HIDE DEF u, r
  <2> QED
    BY <1>3, <1>4 DEF Within
<1>6. ReadMessage(theirs, WriteMessage(type, message)) = Within(theirs, u, ReadNested)
  BY <1>2 DEF ReadMessage, WriteMessage
<1> QED
  BY <1>5, <1>6 DEF Carried

-----------------------------------------------------------------------------
(* The tables of hub.ts and hub.client.ts.                                  *)

\* The fields that are not messages.
Plain == {Str, Bool, Int32, Double, Strs, Floats}

\* A sequence is one of its elements.
LEMMA SequenceOfFields ==
  ASSUME NEW F, NEW type \in Seq(F)
  PROVE  AreFields(type) /\ \A i \in DOMAIN type : type[i] \in F
<1>1. DOMAIN type = 1..Len(type) /\ Len(type) \in Nat /\ type = [k \in 1..Len(type) |-> type[k]]
  BY LenProperties
<1>2. type \in Seq(ToSet(type))
  BY <1>1, IsSequence
<1> QED
  BY <1>1, <1>2, ElementOfSeq DEF AreFields

\* Types without messages in them.
LEMMA PlainTypes ==
  ASSUME NEW type \in Seq(Plain)
  PROVE  IsNestedType(type) /\ IsMessageType(type)
<1>1. AreFields(type) /\ \A i \in DOMAIN type : type[i] \in Plain
  BY SequenceOfFields
<1>2. \A field \in Plain : field.kind \notin Nested
  BY DEF Plain, Nested, Str, Bool, Int32, Double, Strs, Floats
<1> QED
  BY <1>1, <1>2 DEF IsNestedType, IsMessageType

\* Types with messages of one type in them.
LEMMA TypesOfMessages ==
  ASSUME NEW of, NEW type \in Seq(Plain \cup {One(of), Many(of)})
  PROVE  /\ of \in Seq(Plain) => IsNestedType(type)
         /\ IsNestedType(of) => IsMessageType(type)
<1>1. AreFields(type) /\ \A i \in DOMAIN type : type[i] \in Plain \cup {One(of), Many(of)}
  BY SequenceOfFields
<1>2. \A field \in Plain : field.kind \notin Nested
  BY DEF Plain, Nested, Str, Bool, Int32, Double, Strs, Floats
<1>3. One(of).of = of /\ Many(of).of = of
  BY DEF One, Many
<1>4. \A i \in DOMAIN type : type[i].kind \in Nested => type[i].of = of
  BY <1>1, <1>2, <1>3
<1>5. of \in Seq(Plain) => AreFields(of)
  BY SequenceOfFields
<1> QED
  BY <1>1, <1>4, <1>5 DEF IsNestedType, IsMessageType

\* The types of the hub's methods.
MessageTypes ==
  {Empty, StatusResponse, HealthUpdate, Event, ScanRequest, ScanResponse,
   AnalyzeRequest, AnalyzeResponse, DeduplicateRequest, ConnectivityRequest,
   AuditRequest, BatchRequest, ReasonRequest, PatternRequest, PenaltyRequest,
   ScoreRequest, CoverageRequest, GraphRequest, QueryRequest, HealingPlan,
   PeerReviewRequest, PeerReviewResponse, SignalRequest, MemoryEntry, MemoryQuery,
   EmbedRequest, EmbedResponse, TaskRequest, TaskResponse, PendingRequest,
   PendingResponse, UpdateTaskRequest, RuleRequest, RuleResponse,
   AnalyzeCodeRequest}

LEMMA AllAreMessageTypes == \A type \in MessageTypes : IsMessageType(type)
<1>1. Empty \in Seq(Plain)
  BY DEF Empty, Plain
<1>2. Event \in Seq(Plain)
  BY DEF Event, Plain
<1>3. ScanRequest \in Seq(Plain)
  BY DEF ScanRequest, Plain
<1>4. AnalyzeRequest \in Seq(Plain)
  BY DEF AnalyzeRequest, Plain
<1>5. AnalyzeResponse \in Seq(Plain)
  BY DEF AnalyzeResponse, Plain
<1>6. DeduplicateRequest \in Seq(Plain)
  BY DEF DeduplicateRequest, Plain
<1>7. ConnectivityRequest \in Seq(Plain)
  BY DEF ConnectivityRequest, Plain
<1>8. AuditRequest \in Seq(Plain)
  BY DEF AuditRequest, Plain
<1>9. BatchRequest \in Seq(Plain)
  BY DEF BatchRequest, Plain
<1>10. ReasonRequest \in Seq(Plain)
  BY DEF ReasonRequest, Plain
<1>11. PatternRequest \in Seq(Plain)
  BY DEF PatternRequest, Plain
<1>12. PenaltyRequest \in Seq(Plain)
  BY DEF PenaltyRequest, Plain
<1>13. ScoreRequest \in Seq(Plain)
  BY DEF ScoreRequest, Plain
<1>14. CoverageRequest \in Seq(Plain)
  BY DEF CoverageRequest, Plain
<1>15. GraphRequest \in Seq(Plain)
  BY DEF GraphRequest, Plain
<1>16. QueryRequest \in Seq(Plain)
  BY DEF QueryRequest, Plain
<1>17. HealingPlan \in Seq(Plain)
  BY DEF HealingPlan, Plain
<1>18. PeerReviewRequest \in Seq(Plain)
  BY DEF PeerReviewRequest, Plain
<1>19. PeerReviewResponse \in Seq(Plain)
  BY DEF PeerReviewResponse, Plain
<1>20. SignalRequest \in Seq(Plain)
  BY DEF SignalRequest, Plain
<1>21. MemoryEntry \in Seq(Plain)
  BY DEF MemoryEntry, Plain
<1>22. MemoryQuery \in Seq(Plain)
  BY DEF MemoryQuery, Plain
<1>23. EmbedRequest \in Seq(Plain)
  BY DEF EmbedRequest, Plain
<1>24. EmbedResponse \in Seq(Plain)
  BY DEF EmbedResponse, Plain
<1>25. TaskRequest \in Seq(Plain)
  BY DEF TaskRequest, Plain
<1>26. TaskResponse \in Seq(Plain)
  BY DEF TaskResponse, Plain
<1>27. PendingRequest \in Seq(Plain)
  BY DEF PendingRequest, Plain
<1>28. UpdateTaskRequest \in Seq(Plain)
  BY DEF UpdateTaskRequest, Plain
<1>29. RuleRequest \in Seq(Plain)
  BY DEF RuleRequest, Plain
<1>30. AnalyzeCodeRequest \in Seq(Plain)
  BY DEF AnalyzeCodeRequest, Plain
<1>31. IsMessageType(RuleResponse)
  <2>1. Rule \in Seq(Plain)
    BY DEF Rule, Plain
  <2>2. RuleResponse \in Seq(Plain \cup {One(Rule), Many(Rule)})
    BY DEF RuleResponse, Plain
  <2> QED
    BY <2>1, <2>2, PlainTypes, TypesOfMessages
<1>32. IsMessageType(ScanResponse)
  <2>1. FileMetadata \in Seq(Plain)
    BY DEF FileMetadata, Plain
  <2>2. ScanResponse \in Seq(Plain \cup {One(FileMetadata), Many(FileMetadata)})
    BY DEF ScanResponse, Plain
  <2> QED
    BY <2>1, <2>2, PlainTypes, TypesOfMessages
<1>33. IsMessageType(PendingResponse)
  <2>1. Task \in Seq(Plain)
    BY DEF Task, Plain
  <2>2. PendingResponse \in Seq(Plain \cup {One(Task), Many(Task)})
    BY DEF PendingResponse, Plain
  <2> QED
    BY <2>1, <2>2, PlainTypes, TypesOfMessages
<1>34. IsNestedType(HealthUpdate) /\ IsMessageType(HealthUpdate)
  <2>1. ProcessInfo \in Seq(Plain)
    BY DEF ProcessInfo, Plain
  <2>2. HealthUpdate \in Seq(Plain \cup {One(ProcessInfo), Many(ProcessInfo)})
    BY DEF HealthUpdate, Plain
  <2> QED
    BY <2>1, <2>2, PlainTypes, TypesOfMessages
<1>35. IsMessageType(StatusResponse)
  <2>1. StatusResponse \in Seq(Plain \cup {One(HealthUpdate), Many(HealthUpdate)})
    BY DEF StatusResponse, Plain
  <2> QED
    BY <1>34, <2>1, TypesOfMessages
<1> QED
  BY <1>1, <1>2, <1>3, <1>4, <1>5, <1>6, <1>7, <1>8, <1>9, <1>10, <1>11, <1>12, <1>13, <1>14,
     <1>15, <1>16, <1>17, <1>18, <1>19, <1>20, <1>21, <1>22, <1>23, <1>24, <1>25, <1>26, <1>27,
     <1>28, <1>29, <1>30, <1>31, <1>32, <1>33, <1>34, <1>35, PlainTypes
     DEF MessageTypes

\* The place of a method in the tables, one after the other.
Place(name) ==
  CASE name = "GetStatus" -> 1
    [] name = "WatchHealth" -> 2
    [] name = "WatchEvents" -> 3
    [] name = "ScanProject" -> 4
    [] name = "AnalyzeFile" -> 5
    [] name = "AnalyzeStream" -> 6
    [] name = "GetDependencies" -> 7
    [] name = "Deduplicate" -> 8
    [] name = "Fingerprint" -> 9
    [] name = "DiscoverIdentity" -> 10
    [] name = "IndexProject" -> 11
    [] name = "ScanTopology" -> 12
    [] name = "GetContext" -> 13
    [] name = "GetConnectivity" -> 14
    [] name = "Audit" -> 15
    [] name = "Batch" -> 16
    [] name = "Reason" -> 17
    [] name = "Patterns" -> 18
    [] name = "Penalty" -> 19
    [] name = "CalculateScore" -> 20
    [] name = "AuditCoverage" -> 21
    [] name = "GetKnowledgeGraph" -> 22
    [] name = "QueryKnowledgeGraph" -> 23
    [] name = "ExecuteHealing" -> 24
    [] name = "RequestPeerReview" -> 25
    [] name = "BroadcastSignal" -> 26
    [] name = "Remember" -> 27
    [] name = "Retrieve" -> 28
    [] name = "Embed" -> 29
    [] name = "EnqueueTask" -> 30
    [] name = "GetPendingTasks" -> 31
    [] name = "UpdateTask" -> 32
    [] name = "GetRules" -> 33
    [] name = "AnalyzeCode" -> 34

\* A row of the tables.
Row(m, n) == Place(m.name) = n /\ m.I \in MessageTypes /\ m.O \in MessageTypes

\* No two methods have the same name, and their messages are of these types.
LEMMA HubServiceRows == DOMAIN HubService = 1..32 /\ \A i \in 1..32 : Row(HubService[i], i)
<1>1. Row(HubService[1], 1)
  BY DEF Row, HubService, Place, MessageTypes
<1>2. Row(HubService[2], 2)
  BY DEF Row, HubService, Place, MessageTypes
<1>3. Row(HubService[3], 3)
  BY DEF Row, HubService, Place, MessageTypes
<1>4. Row(HubService[4], 4)
  BY DEF Row, HubService, Place, MessageTypes
<1>5. Row(HubService[5], 5)
  BY DEF Row, HubService, Place, MessageTypes
<1>6. Row(HubService[6], 6)
  BY DEF Row, HubService, Place, MessageTypes
<1>7. Row(HubService[7], 7)
  BY DEF Row, HubService, Place, MessageTypes
<1>8. Row(HubService[8], 8)
  BY DEF Row, HubService, Place, MessageTypes
<1>9. Row(HubService[9], 9)
  BY DEF Row, HubService, Place, MessageTypes
<1>10. Row(HubService[10], 10)
  BY DEF Row, HubService, Place, MessageTypes
<1>11. Row(HubService[11], 11)
  BY DEF Row, HubService, Place, MessageTypes
<1>12. Row(HubService[12], 12)
  BY DEF Row, HubService, Place, MessageTypes
<1>13. Row(HubService[13], 13)
  BY DEF Row, HubService, Place, MessageTypes
<1>14. Row(HubService[14], 14)
  BY DEF Row, HubService, Place, MessageTypes
<1>15. Row(HubService[15], 15)
  BY DEF Row, HubService, Place, MessageTypes
<1>16. Row(HubService[16], 16)
  BY DEF Row, HubService, Place, MessageTypes
<1>17. Row(HubService[17], 17)
  BY DEF Row, HubService, Place, MessageTypes
<1>18. Row(HubService[18], 18)
  BY DEF Row, HubService, Place, MessageTypes
<1>19. Row(HubService[19], 19)
  BY DEF Row, HubService, Place, MessageTypes
<1>20. Row(HubService[20], 20)
  BY DEF Row, HubService, Place, MessageTypes
<1>21. Row(HubService[21], 21)
  BY DEF Row, HubService, Place, MessageTypes
<1>22. Row(HubService[22], 22)
  BY DEF Row, HubService, Place, MessageTypes
<1>23. Row(HubService[23], 23)
  BY DEF Row, HubService, Place, MessageTypes
<1>24. Row(HubService[24], 24)
  BY DEF Row, HubService, Place, MessageTypes
<1>25. Row(HubService[25], 25)
  BY DEF Row, HubService, Place, MessageTypes
<1>26. Row(HubService[26], 26)
  BY DEF Row, HubService, Place, MessageTypes
<1>27. Row(HubService[27], 27)
  BY DEF Row, HubService, Place, MessageTypes
<1>28. Row(HubService[28], 28)
  BY DEF Row, HubService, Place, MessageTypes
<1>29. Row(HubService[29], 29)
  BY DEF Row, HubService, Place, MessageTypes
<1>30. Row(HubService[30], 30)
  BY DEF Row, HubService, Place, MessageTypes
<1>31. Row(HubService[31], 31)
  BY DEF Row, HubService, Place, MessageTypes
<1>32. Row(HubService[32], 32)
  BY DEF Row, HubService, Place, MessageTypes
<1>33. DOMAIN HubService = 1..32
  BY DEF HubService
<1> QED
  BY <1>1, <1>2, <1>3, <1>4, <1>5, <1>6, <1>7, <1>8, <1>9, <1>10, <1>11, <1>12, <1>13, <1>14,
     <1>15, <1>16, <1>17, <1>18, <1>19, <1>20, <1>21, <1>22, <1>23, <1>24, <1>25, <1>26, <1>27,
     <1>28, <1>29, <1>30, <1>31, <1>32, <1>33

LEMMA RuleProviderRows == DOMAIN RuleProvider = 1..2 /\ \A i \in 1..2 : Row(RuleProvider[i], 32 + i)
<1>1. Row(RuleProvider[1], 33)
  BY DEF Row, RuleProvider, Place, MessageTypes
<1>2. Row(RuleProvider[2], 34)
  BY DEF Row, RuleProvider, Place, MessageTypes
<1>3. DOMAIN RuleProvider = 1..2
  BY DEF RuleProvider
<1> QED
  BY <1>1, <1>2, <1>3

\* A method of the client is the hub's of that name.
Calls(c, m) == c.fn = m.name /\ c.method = m

LEMMA HubServiceClientCalls ==
  DOMAIN HubServiceClient = 1..14 /\ \A i \in 1..14 : Calls(HubServiceClient[i], HubService[i])
<1>1. Calls(HubServiceClient[1], HubService[1])
  BY DEF Calls, HubServiceClient, HubService
<1>2. Calls(HubServiceClient[2], HubService[2])
  BY DEF Calls, HubServiceClient, HubService
<1>3. Calls(HubServiceClient[3], HubService[3])
  BY DEF Calls, HubServiceClient, HubService
<1>4. Calls(HubServiceClient[4], HubService[4])
  BY DEF Calls, HubServiceClient, HubService
<1>5. Calls(HubServiceClient[5], HubService[5])
  BY DEF Calls, HubServiceClient, HubService
<1>6. Calls(HubServiceClient[6], HubService[6])
  BY DEF Calls, HubServiceClient, HubService
<1>7. Calls(HubServiceClient[7], HubService[7])
  BY DEF Calls, HubServiceClient, HubService
<1>8. Calls(HubServiceClient[8], HubService[8])
  BY DEF Calls, HubServiceClient, HubService
<1>9. Calls(HubServiceClient[9], HubService[9])
  BY DEF Calls, HubServiceClient, HubService
<1>10. Calls(HubServiceClient[10], HubService[10])
  BY DEF Calls, HubServiceClient, HubService
<1>11. Calls(HubServiceClient[11], HubService[11])
  BY DEF Calls, HubServiceClient, HubService
<1>12. Calls(HubServiceClient[12], HubService[12])
  BY DEF Calls, HubServiceClient, HubService
<1>13. Calls(HubServiceClient[13], HubService[13])
  BY DEF Calls, HubServiceClient, HubService
<1>14. Calls(HubServiceClient[14], HubService[14])
  BY DEF Calls, HubServiceClient, HubService
<1>15. DOMAIN HubServiceClient = 1..14
  BY DEF HubServiceClient
<1> QED
  BY <1>1, <1>2, <1>3, <1>4, <1>5, <1>6, <1>7, <1>8, <1>9, <1>10, <1>11, <1>12, <1>13, <1>14, <1>15

LEMMA HubServiceClientAgentsCalls ==
  /\ DOMAIN HubServiceClientAgents = 1..18
  /\ \A i \in 1..18 : Calls(HubServiceClientAgents[i], HubService[i + 14])
<1>1. Calls(HubServiceClientAgents[1], HubService[15])
  BY DEF Calls, HubServiceClientAgents, HubService
<1>2. Calls(HubServiceClientAgents[2], HubService[16])
  BY DEF Calls, HubServiceClientAgents, HubService
<1>3. Calls(HubServiceClientAgents[3], HubService[17])
  BY DEF Calls, HubServiceClientAgents, HubService
<1>4. Calls(HubServiceClientAgents[4], HubService[18])
  BY DEF Calls, HubServiceClientAgents, HubService
<1>5. Calls(HubServiceClientAgents[5], HubService[19])
  BY DEF Calls, HubServiceClientAgents, HubService
<1>6. Calls(HubServiceClientAgents[6], HubService[20])
  BY DEF Calls, HubServiceClientAgents, HubService
<1>7. Calls(HubServiceClientAgents[7], HubService[21])
  BY DEF Calls, HubServiceClientAgents, HubService
<1>8. Calls(HubServiceClientAgents[8], HubService[22])
  BY DEF Calls, HubServiceClientAgents, HubService
<1>9. Calls(HubServiceClientAgents[9], HubService[23])
  BY DEF Calls, HubServiceClientAgents, HubService
<1>10. Calls(HubServiceClientAgents[10], HubService[24])
  BY DEF Calls, HubServiceClientAgents, HubService
<1>11. Calls(HubServiceClientAgents[11], HubService[25])
  BY DEF Calls, HubServiceClientAgents, HubService
<1>12. Calls(HubServiceClientAgents[12], HubService[26])
  BY DEF Calls, HubServiceClientAgents, HubService
<1>13. Calls(HubServiceClientAgents[13], HubService[27])
  BY DEF Calls, HubServiceClientAgents, HubService
<1>14. Calls(HubServiceClientAgents[14], HubService[28])
  BY DEF Calls, HubServiceClientAgents, HubService
<1>15. Calls(HubServiceClientAgents[15], HubService[29])
  BY DEF Calls, HubServiceClientAgents, HubService
<1>16. Calls(HubServiceClientAgents[16], HubService[30])
  BY DEF Calls, HubServiceClientAgents, HubService
<1>17. Calls(HubServiceClientAgents[17], HubService[31])
  BY DEF Calls, HubServiceClientAgents, HubService
<1>18. Calls(HubServiceClientAgents[18], HubService[32])
  BY DEF Calls, HubServiceClientAgents, HubService
<1>19. DOMAIN HubServiceClientAgents = 1..18
  BY DEF HubServiceClientAgents
<1> QED
  BY <1>1, <1>2, <1>3, <1>4, <1>5, <1>6, <1>7, <1>8, <1>9, <1>10, <1>11, <1>12, <1>13, <1>14,
     <1>15, <1>16, <1>17, <1>18, <1>19

LEMMA RuleProviderClientCalls ==
  DOMAIN RuleProviderClient = 1..2 /\ \A i \in 1..2 : Calls(RuleProviderClient[i], RuleProvider[i])
<1>1. Calls(RuleProviderClient[1], RuleProvider[1])
  BY DEF Calls, RuleProviderClient, RuleProvider
<1>2. Calls(RuleProviderClient[2], RuleProvider[2])
  BY DEF Calls, RuleProviderClient, RuleProvider
<1>3. DOMAIN RuleProviderClient = 1..2
  BY DEF RuleProviderClient
<1> QED
  BY <1>1, <1>2, <1>3

\* No two methods of the hub have the same name.
LEMMA OneMethodOfAName ==
  ASSUME NEW m \in HubMethods
  PROVE  /\ HandlerOf(m.name) = m
         /\ \A theirs \in HubMethods : theirs.name = m.name => theirs = m
         /\ IsMessageType(m.I) /\ IsMessageType(m.O)
<1>1. ASSUME NEW n \in HubMethods
      PROVE  /\ n.I \in MessageTypes /\ n.O \in MessageTypes
             /\ \/ \E i \in 1..32 : n = HubService[i] /\ Place(n.name) = i
                \/ \E i \in 1..2 : n = RuleProvider[i] /\ Place(n.name) = 32 + i
  <2>1. CASE n \in ToSet(HubService)
    BY <2>1, HubServiceRows DEF ToSet, Row
  <2>2. CASE n \in ToSet(RuleProvider)
    BY <2>2, RuleProviderRows DEF ToSet, Row
  <2> QED
    BY <2>1, <2>2 DEF HubMethods
<1>2. ASSUME NEW theirs \in HubMethods, theirs.name = m.name PROVE theirs = m
  <2>1. Place(theirs.name) = Place(m.name)
    BY <1>2
  <2>2. CASE \E i \in 1..32 : m = HubService[i] /\ Place(m.name) = i
    BY <1>1, <2>1, <2>2
  <2>3. CASE \E i \in 1..2 : m = RuleProvider[i] /\ Place(m.name) = 32 + i
    BY <1>1, <2>1, <2>3
  <2> QED
    BY <1>1, <2>2, <2>3
<1>3. HandlerOf(m.name) = m
  BY <1>2 DEF HandlerOf
<1>4. IsMessageType(m.I) /\ IsMessageType(m.O)
  BY <1>1, AllAreMessageTypes
<1> QED
  BY <1>2, <1>3, <1>4

\* The client asks for the method it is called by.
LEMMA ClientsCall ==
  ASSUME NEW c \in ClientMethods
  PROVE  c.method \in HubMethods /\ c.fn = c.method.name /\ MethodOf(c.fn) = c.method
<1>1. ASSUME NEW d \in ClientMethods PROVE d.method \in HubMethods /\ d.fn = d.method.name
  <2>1. CASE d \in ToSet(HubServiceClient)
    <3>1. PICK i \in 1..14 : d = HubServiceClient[i]
      BY <2>1, HubServiceClientCalls DEF ToSet
    <3>2. Calls(d, HubService[i]) /\ i \in DOMAIN HubService
      BY <3>1, HubServiceClientCalls, HubServiceRows
    <3> QED
      BY <3>2 DEF Calls, HubMethods, ToSet
  <2>2. CASE d \in ToSet(HubServiceClientAgents)
    <3>1. PICK i \in 1..18 : d = HubServiceClientAgents[i]
      BY <2>2, HubServiceClientAgentsCalls DEF ToSet
    <3>2. Calls(d, HubService[i + 14]) /\ i + 14 \in DOMAIN HubService
      BY <3>1, HubServiceClientAgentsCalls, HubServiceRows
    <3> QED
      BY <3>2 DEF Calls, HubMethods, ToSet
  <2>3. CASE d \in ToSet(RuleProviderClient)
    <3>1. PICK i \in 1..2 : d = RuleProviderClient[i]
      BY <2>3, RuleProviderClientCalls DEF ToSet
    <3>2. Calls(d, RuleProvider[i]) /\ i \in DOMAIN RuleProvider
      BY <3>1, RuleProviderClientCalls, RuleProviderRows
    <3> QED
      BY <3>2 DEF Calls, HubMethods, ToSet
  <2> QED
    BY <2>1, <2>2, <2>3 DEF ClientMethods
<1> DEFINE d == CHOOSE e \in ClientMethods : e.fn = c.fn
<1>2. d \in ClientMethods /\ d.fn = c.fn
  OBVIOUS
<1>3. MethodOf(c.fn) = d.method
  BY DEF MethodOf
<1> HIDE DEF d
<1>4. d.method.name = c.method.name /\ d.method \in HubMethods /\ c.method \in HubMethods
  BY <1>1, <1>2
<1>5. d.method = c.method
  BY <1>4, OneMethodOfAName
<1> QED
  BY <1>1, <1>3, <1>5

-----------------------------------------------------------------------------
(* The trip of a call.                                                      *)

\* A type whose fields are those of another, or texts, is of no deeper messages.
LEMMA NoDeeper ==
  ASSUME NEW type, IsMessageType(type), NEW theirs, AreFields(theirs),
         \A i \in DOMAIN theirs : theirs[i] = Str \/ (i \in DOMAIN type /\ theirs[i] = type[i])
  PROVE  IsMessageType(theirs)
<1>1. Str.kind \notin Nested
  BY DEF Str, Nested
<1> QED
  BY <1>1 DEF IsMessageType

\* Another build has the same fields, without the last one or with one more.
LEMMA Builds ==
  ASSUME NEW type, IsMessageType(type), build \in {"same", "older", "newer"}
  PROVE  /\ IsMessageType(BuiltAs(type))
         /\ SameFields(type, BuiltAs(type)) /\ SameFields(BuiltAs(type), type)
<1> DEFINE N == Len(type)
           F == ToSet(type) \cup {Str}
<1>0. /\ type \in Seq(ToSet(type)) /\ N \in Nat /\ DOMAIN type = 1..N
      /\ \A i \in 1..N : type[i] \in F
  BY LenProperties, ElementOfSeq DEF IsMessageType, AreFields
<1>1. CASE build = "same" \/ (build = "older" /\ type = Empty)
  <2>1. BuiltAs(type) = type
    BY <1>1 DEF BuiltAs, Older
  <2> QED
    BY <2>1 DEF SameFields
<1>2. CASE build = "older" /\ type # Empty
  <2> DEFINE t == SubSeq(type, 1, N - 1)
  <2>1. BuiltAs(type) = t
    BY <1>2 DEF BuiltAs, Older, Front
  <2>2. N # 0
    BY <1>0, <1>2, EmptySeq DEF Empty
  <2>3. /\ t \in Seq(F) /\ Len(t) = N - 1
        /\ \A i \in 1..(N - 1) : t[i] = type[i]
    <3>1. N - 1 \in Int /\ 1 \in Int /\ \A i \in 1..(N - 1) : type[i] \in F
      BY <1>0
    <3> HIDE DEF N, F
    <3>2. /\ t \in Seq(F) /\ Len(t) = IF 1 <= N - 1 THEN N - 1 - 1 + 1 ELSE 0
          /\ \A i \in 1..(N - 1 - 1 + 1) : t[i] = type[1 + i - 1]
      BY <3>1, SubSeqProperties
    <3>3. \A i \in 1..(N - 1) : 1 + i - 1 = i
      OBVIOUS
    <3>4. N - 1 - 1 + 1 = N - 1 /\ (~(1 <= N - 1) => N - 1 = 0)
      BY <1>0, <2>2 DEF N
    <3> QED
      BY <3>2, <3>3, <3>4
  <2> HIDE DEF t, F
  <2>4. AreFields(t) /\ DOMAIN t = 1..(N - 1)
    BY <2>3, SequenceOfFields, LenProperties
  <2>5. \A i \in DOMAIN t : i \in DOMAIN type /\ t[i] = type[i]
    BY <1>0, <2>3, <2>4
  <2>6. IsMessageType(t)
    BY <2>4, <2>5, NoDeeper
  <2> QED
    BY <2>1, <2>5, <2>6 DEF SameFields
<1>3. CASE build = "newer"
  <2> DEFINE t == Append(type, Str)
  <2>1. BuiltAs(type) = t
    BY <1>3 DEF BuiltAs, Newer
  <2>2. /\ t \in Seq(F) /\ Len(t) = N + 1 /\ t[N + 1] = Str
        /\ \A i \in 1..N : t[i] = type[i]
    <3>1. type \in Seq(F) /\ Str \in F
      <4>1. type = [i \in 1..N |-> type[i]] /\ type \in [1..N -> F]
        BY <1>0
      <4> QED
        BY <1>0, <4>1
    <3> HIDE DEF F
    <3> QED
      BY <3>1, AppendProperties
  <2> HIDE DEF t, F
  <2>3. AreFields(t) /\ DOMAIN t = 1..(N + 1)
    BY <2>2, SequenceOfFields, LenProperties
  <2>4. \A i \in DOMAIN t : t[i] = Str \/ (i \in DOMAIN type /\ t[i] = type[i])
    BY <1>0, <2>2, <2>3
  <2>5. IsMessageType(t)
    BY <2>3, <2>4, NoDeeper
  <2>6. \A i \in DOMAIN type : t[i] = type[i]
    BY <1>0, <2>2
  <2> QED
    BY <2>1, <2>5, <2>6 DEF SameFields
<1> QED
  BY <1>1, <1>2, <1>3

-----------------------------------------------------------------------------
\* The wire holds what its writer was given, of the method the caller asked for.
Underway ==
  LET handler == HandlerOf(called)
  IN  /\ path = called /\ handler \in HubMethods /\ MethodOf(called) = handler
      /\ trip = "request" => /\ IsMessage(handler.I, sent)
                             /\ wire = WriteMessage(handler.I, sent)
      /\ trip = "answer" => /\ IsMessage(BuiltAs(handler.O), sent)
                            /\ wire = WriteMessage(BuiltAs(handler.O), sent)

WireInv ==
  /\ build \in {"same", "older", "newer"}
  /\ trip \in {"idle", "request", "refused", "handled", "answer", "read"}
  /\ trip \notin {"idle", "refused"} => Underway
  /\ ReadsWhatWasSent

\* The caller's request is the bytes of its message.
LEMMA WireInvCall ==
  ASSUME WireInv, NEW c \in ClientMethods, NEW message \in Samples(c.method.I), Call(c, message)
  PROVE  WireInv'
<1>1. trip' \in {"request", "refused"} /\ build' = build
  BY DEF Call
<1>2. ReadsWhatWasSent'
  BY <1>1 DEF ReadsWhatWasSent
<1>3. ASSUME trip' = "request" PROVE Underway'
  <2>1. c.method \in HubMethods /\ c.fn = c.method.name /\ MethodOf(c.fn) = c.method
    BY ClientsCall
  <2>2. HandlerOf(c.method.name) = c.method
    BY <2>1, OneMethodOfAName
  <2>3. /\ called' = c.fn /\ path' = c.method.name /\ sent' = message
        /\ wire' = WriteMessage(c.method.I, message)
    BY <1>3 DEF Call
  <2>4. IsMessage(c.method.I, message)
    BY <2>1, SamplesAssumption
  <2>5. HandlerOf(called') = c.method
    BY <2>1, <2>2, <2>3
  <2> QED
    BY <1>3, <2>1, <2>3, <2>4, <2>5 DEF Underway
<1> QED
  BY <1>1, <1>2, <1>3 DEF WireInv

\* The hub reads it with its own build's type.
LEMMA WireInvHubReads ==
  ASSUME WireInv, HubReads
  PROVE  WireInv'
<1> DEFINE handler == HandlerOf(called)
<1>1. /\ trip = "request" /\ trip' = "handled" /\ UNCHANGED <<called, path, build, sent, wire>>
      /\ got' = ReadMessage(BuiltAs(HandlerOf(path).I), wire)
  BY DEF HubReads
<1>2. Underway
  BY <1>1 DEF WireInv
<1>3. /\ path = called /\ handler \in HubMethods /\ IsMessage(handler.I, sent)
      /\ wire = WriteMessage(handler.I, sent)
  BY <1>1, <1>2 DEF Underway
<1>4. IsMessageType(handler.I)
  BY <1>3, OneMethodOfAName
<1> HIDE DEF handler
<1>5. got' = SeenAs(BuiltAs(handler.I), Carried(handler.I, sent))
  <2>1. got' = ReadMessage(BuiltAs(handler.I), WriteMessage(handler.I, sent))
    BY <1>1, <1>3 DEF handler
  <2>2. IsMessageType(BuiltAs(handler.I)) /\ SameFields(handler.I, BuiltAs(handler.I))
    BY <1>4, Builds DEF WireInv
  <2>3. AreFields(BuiltAs(handler.I))
    BY <2>2 DEF IsMessageType
  <2> QED
    BY <1>3, <1>4, <2>1, <2>2, <2>3, MessageArrives
<1>6. ReadsWhatWasSent'
  <2>1. handler' = handler /\ BuiltAs(handler.I)' = BuiltAs(handler.I)
    BY <1>1 DEF handler, BuiltAs
  <2> QED
    BY <1>1, <1>5, <2>1 DEF ReadsWhatWasSent, handler
<1>7. Underway'
  BY <1>1, <1>2 DEF Underway
<1> QED
  BY <1>1, <1>6, <1>7 DEF WireInv

\* Its answer is the bytes of a message of its build.
LEMMA WireInvHubAnswers ==
  ASSUME WireInv, trip = "handled",
         NEW message \in Samples(BuiltAs(HandlerOf(path).O)), HubAnswers(message)
  PROVE  WireInv'
<1> DEFINE handler == HandlerOf(called)
           type == BuiltAs(handler.O)
<1>1. /\ trip' = "answer" /\ UNCHANGED <<called, path, build>>
      /\ sent' = message /\ wire' = WriteMessage(BuiltAs(HandlerOf(path).O), message)
  BY DEF HubAnswers
<1>2. path = called /\ handler \in HubMethods /\ MethodOf(called) = handler
  BY DEF WireInv, Underway
<1>3. IsMessage(type, message)
  <2>1. type \in {handler.O, Older(handler.O), Newer(handler.O)}
    BY DEF WireInv, BuiltAs
  <2> HIDE DEF handler
  <2>2. message \in Samples(type)
    BY <1>2 DEF handler
  <2> QED
    BY <1>2, <2>1, <2>2, SamplesAssumption
<1>4. Underway'
  <2>1. BuiltAs(handler.O)' = type /\ wire' = WriteMessage(type, message)
    BY <1>1, <1>2 DEF BuiltAs
  <2> QED
    BY <1>1, <1>2, <1>3, <2>1 DEF Underway
<1>5. ReadsWhatWasSent'
  BY <1>1 DEF ReadsWhatWasSent
<1> QED
  BY <1>1, <1>4, <1>5 DEF WireInv

\* The caller reads it with the type of the method it asked for.
LEMMA WireInvCallerReads ==
  ASSUME WireInv, CallerReads
  PROVE  WireInv'
<1> DEFINE handler == HandlerOf(called)
           theirs == BuiltAs(handler.O)
<1>1. /\ trip = "answer" /\ trip' = "read" /\ UNCHANGED <<called, path, build, sent, wire>>
      /\ got' = ReadMessage(MethodOf(called).O, wire)
  BY DEF CallerReads
<1>2. Underway
  BY <1>1 DEF WireInv
<1>3. /\ MethodOf(called) = handler /\ handler \in HubMethods /\ IsMessage(theirs, sent)
      /\ wire = WriteMessage(theirs, sent)
  BY <1>1, <1>2 DEF Underway
<1>4. IsMessageType(handler.O)
  BY <1>3, OneMethodOfAName
<1>5. got' = SeenAs(handler.O, Carried(theirs, sent))
  <2>1. got' = ReadMessage(handler.O, WriteMessage(theirs, sent))
    BY <1>1, <1>3
  <2>2. IsMessageType(theirs) /\ SameFields(theirs, handler.O)
    BY <1>4, Builds DEF WireInv
  <2>3. AreFields(handler.O)
    BY <1>4 DEF IsMessageType
  <2> HIDE DEF theirs, handler
  <2> QED
    BY <1>3, <2>1, <2>2, <2>3, MessageArrives
<1>6. ReadsWhatWasSent'
  <2>1. handler' = handler /\ theirs' = theirs
    BY <1>1 DEF BuiltAs
  <2> QED
    BY <1>1, <1>5, <2>1 DEF ReadsWhatWasSent
<1>7. Underway'
  BY <1>1, <1>2 DEF Underway
<1> QED
  BY <1>1, <1>6, <1>7 DEF WireInv

\* Every step keeps the invariant.
LEMMA WireInvNext ==
  ASSUME WireInv, [WireNext]_wireVars
  PROVE  WireInv'
<1>1. CASE UNCHANGED wireVars
  BY <1>1 DEF WireInv, Underway, ReadsWhatWasSent, BuiltAs, wireVars
<1>2. CASE WireNext
  BY <1>2, WireInvCall, WireInvHubReads, WireInvHubAnswers, WireInvCallerReads DEF WireNext
<1> QED
  BY <1>1, <1>2

\* Whatever the messages, every request and every answer of the hub is read as it
\* was sent, each field both builds have: those the two sides' hub.proto differ in
\* are the defaults (internalBinaryWrite and internalBinaryRead of hub.ts).
THEOREM WireReadsWhatWasSent == WireSpec => []ReadsWhatWasSent
<1>1. WireInit => WireInv
  BY DEF WireInit, WireInv, ReadsWhatWasSent
<1>2. WireInv /\ [WireNext]_wireVars => WireInv'
  BY WireInvNext
<1>3. WireInv => ReadsWhatWasSent
  BY DEF WireInv
<1> QED
  BY <1>1, <1>2, <1>3, PTL DEF WireSpec
=============================================================================
