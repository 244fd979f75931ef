-------------------------- MODULE EmbedBatchProofs --------------------------
(***************************************************************************)
(* Proofs about EmbedBatch for any number of texts, limits and slots, and  *)
(* about HttpRetry, which it extends: a call of httpretry waits no longer  *)
(* than it may; the goroutines use it as HttpRetry says, and no more of    *)
(* their requests are under way than there are slots; the batches are the  *)
(* texts in order within the limits, and the answer is an error or every   *)
(* vector the API gave, in its place.                                      *)
(***************************************************************************)
EXTENDS EmbedBatch, FiniteSetTheorems, WellFoundedInduction, TLAPS

-----------------------------------------------------------------------------
(* The calls of httpretry: types, and how long one waits                   *)

(***************************************************************************)
(* Every wait is within MaxBackoff, and a call that waits has an attempt   *)
(* left; so after the nth attempt a call has waited n times at most.       *)
(***************************************************************************)
Waits(c) ==
  /\ stage[c] \in {"idle", "sending"} => slept[c] <= 5 * ((attempt[c] - 1) * MaxBackoff)
  /\ stage[c] = "waiting" =>
       attempt[c] < MaxAttempts /\ slept[c] <= 5 * (attempt[c] * MaxBackoff)
  /\ stage[c] = "returned" => slept[c] <= 5 * ((MaxAttempts - 1) * MaxBackoff)

RetryInv == RetryTypeOK /\ \A c \in Calls : Waits(c)

\* BackoffFor is within the limit, whatever the attempt and the hint.
LEMMA BackoffClamped ==
  ASSUME NEW n, NEW hint
  PROVE  BackoffFor(n, hint) \in 0..MaxBackoff
BY RetryAssumption DEF BackoffFor

\* One more attempt allows for one more wait.
LEMMA OneMoreWait ==
  ASSUME NEW a \in Nat, NEW b \in Nat, a < b
  PROVE  /\ (a + 1) * MaxBackoff = a * MaxBackoff + MaxBackoff
         /\ a * MaxBackoff \in Nat
         /\ a * MaxBackoff <= (b - 1) * MaxBackoff
<1>1. MaxBackoff \in Nat BY RetryAssumption
<1>2. /\ (a + 1) * MaxBackoff = a * MaxBackoff + MaxBackoff
      /\ a * MaxBackoff \in Nat
  BY <1>1
<1>3. PICK d \in Nat : b - 1 = a + d
  <2>1. b - 1 - a \in Nat /\ b - 1 = a + (b - 1 - a) OBVIOUS
  <2>2. QED BY <2>1
<1>4. /\ (b - 1) * MaxBackoff = a * MaxBackoff + d * MaxBackoff
      /\ d * MaxBackoff \in Nat
  BY <1>1, <1>3
<1>5. QED BY <1>2, <1>4

\* A call goes to sleep with an attempt left.
LEMMA SleepKeeps ==
  ASSUME RetryInv, NEW c \in Calls, NEW d \in 0..MaxBackoff,
         stage[c] = "sending", attempt[c] < MaxAttempts, Sleep(c, d)
  PROVE  RetryInv'
<1>1. /\ MaxBackoff \in Nat /\ d \in Nat /\ d <= MaxBackoff
      /\ attempt[c] - 1 \in Nat /\ attempt[c] = (attempt[c] - 1) + 1
      /\ attempt[c] - 1 < MaxAttempts /\ MaxAttempts \in Nat /\ slept[c] \in Nat
  BY RetryAssumption DEF RetryInv, RetryTypeOK
<1>2. RetryTypeOK'
  BY <1>1 DEF Sleep, RetryInv, RetryTypeOK
<1>3. slept'[c] <= 5 * (attempt[c] * MaxBackoff)
  <2>1. slept[c] <= 5 * ((attempt[c] - 1) * MaxBackoff)
    BY DEF RetryInv, Waits
  <2>2. slept'[c] = slept[c] + 5 * d
    BY DEF Sleep, RetryInv, RetryTypeOK
  <2>3. /\ (attempt[c] - 1) * MaxBackoff \in Nat
        /\ attempt[c] * MaxBackoff = (attempt[c] - 1) * MaxBackoff + MaxBackoff
    BY <1>1, OneMoreWait
  <2> QED BY <1>1, <2>1, <2>2, <2>3
<1>4. ASSUME NEW x \in Calls PROVE Waits(x)'
  <2>1. CASE x = c
    BY <1>3, <2>1 DEF Sleep, Waits, RetryInv, RetryTypeOK
  <2>2. CASE x # c
    BY <2>2 DEF Sleep, Waits, RetryInv, RetryTypeOK
  <2> QED BY <2>1, <2>2
<1> QED BY <1>2, <1>4 DEF RetryInv

\* A call returns, after an answer or out of its wait.
LEMMA ReturnKeeps ==
  ASSUME RetryInv, NEW c \in Calls, NEW code \in Codes \cup {0},
         stage[c] \in {"sending", "waiting"}, Return(c, code)
  PROVE  RetryInv'
<1>1. RetryTypeOK'
  BY DEF Return, RetryInv, RetryTypeOK
<1>2. slept[c] <= 5 * ((MaxAttempts - 1) * MaxBackoff)
  <2>1. /\ attempt[c] \in 1..MaxAttempts /\ slept[c] \in Nat
        /\ MaxBackoff \in Nat /\ MaxAttempts \in Nat
    BY RetryAssumption DEF RetryInv, RetryTypeOK
  <2>2. CASE stage[c] = "sending"
    <3>1. slept[c] <= 5 * ((attempt[c] - 1) * MaxBackoff)
      BY <2>2 DEF RetryInv, Waits
    <3>2. attempt[c] - 1 \in Nat /\ attempt[c] - 1 < MaxAttempts
      BY <2>1
    <3>3. /\ (attempt[c] - 1) * MaxBackoff <= (MaxAttempts - 1) * MaxBackoff
          /\ (attempt[c] - 1) * MaxBackoff \in Nat
      BY <3>2, <2>1, OneMoreWait
    <3>4. (MaxAttempts - 1) * MaxBackoff \in Int
      BY <2>1
    <3> QED BY <3>1, <3>3, <3>4, <2>1
  <2>3. CASE stage[c] = "waiting"
    <3>1. attempt[c] < MaxAttempts /\ slept[c] <= 5 * (attempt[c] * MaxBackoff)
      BY <2>3 DEF RetryInv, Waits
    <3>2. /\ attempt[c] * MaxBackoff <= (MaxAttempts - 1) * MaxBackoff
          /\ attempt[c] * MaxBackoff \in Nat
      BY <3>1, <2>1, OneMoreWait
    <3>3. (MaxAttempts - 1) * MaxBackoff \in Int
      BY <2>1
    <3> QED BY <3>1, <3>2, <3>3, <2>1
  <2> QED BY <2>2, <2>3
<1>3. ASSUME NEW x \in Calls PROVE Waits(x)'
  <2>1. CASE x = c
    BY <1>2, <2>1 DEF Return, Waits, RetryInv, RetryTypeOK
  <2>2. CASE x # c
    BY <2>2 DEF Return, Waits, RetryInv, RetryTypeOK
  <2> QED BY <2>1, <2>2
<1> QED BY <1>1, <1>3 DEF RetryInv

\* Every step of a call, and the end of the context, keep the invariant.
LEMMA RetryStep == RetryInv /\ [RetryNext]_retryVars => RetryInv'
<1> SUFFICES ASSUME RetryInv, [RetryNext]_retryVars PROVE RetryInv'
  OBVIOUS
<1>1. CASE Cancel
  BY <1>1 DEF Cancel, RetryInv, RetryTypeOK, Waits
<1>2. ASSUME NEW c \in Calls, Start(c) PROVE RetryInv'
  <2>1. RetryTypeOK'
    BY <1>2 DEF Start, RetryInv, RetryTypeOK
  <2>2. ASSUME NEW x \in Calls PROVE Waits(x)'
    BY <1>2 DEF Start, Waits, RetryInv, RetryTypeOK
  <2> QED BY <2>1, <2>2 DEF RetryInv
<1>3. ASSUME NEW c \in Calls, Attempt(c) PROVE RetryInv'
  <2>1. ASSUME NEW code \in Codes, NEW hint \in Hints, Answered(c, code, hint)
        PROVE  RetryInv'
    <3>1. BackoffFor(attempt[c], hint) \in 0..MaxBackoff
      BY BackoffClamped
    <3>2. CASE attempt[c] < MaxAttempts /\ Sleep(c, BackoffFor(attempt[c], hint))
      BY <2>1, <3>1, <3>2, SleepKeeps DEF Answered
    <3>3. CASE Return(c, code)
      BY <2>1, <3>3, ReturnKeeps DEF Answered
    <3> QED BY <2>1, <3>2, <3>3 DEF Answered
  <2>2. ASSUME NEW error \in Errors, Failed(c, error) PROVE RetryInv'
    <3>1. BackoffFor(attempt[c], 0) \in 0..MaxBackoff
      BY BackoffClamped
    <3>2. CASE attempt[c] < MaxAttempts /\ Sleep(c, BackoffFor(attempt[c], 0))
      BY <2>2, <3>1, <3>2, SleepKeeps DEF Failed
    <3>3. CASE Return(c, 0)
      BY <2>2, <3>3, ReturnKeeps DEF Failed
    <3> QED BY <2>2, <3>2, <3>3 DEF Failed
  <2>3. CASE Wake(c)
    <3>1. attempt[c] \in Nat /\ attempt[c] + 1 \in 1..MaxAttempts
      BY <2>3, RetryAssumption DEF Wake, RetryInv, RetryTypeOK, Waits
    <3>2. RetryTypeOK'
      BY <2>3, <3>1 DEF Wake, RetryInv, RetryTypeOK
    <3>3. (attempt[c] + 1) - 1 = attempt[c]
      BY <3>1
    <3>4. ASSUME NEW x \in Calls PROVE Waits(x)'
      <4>1. CASE x = c
        <5>1. stage'[c] = "sending" /\ slept'[c] = slept[c] /\ attempt'[c] = attempt[c] + 1
          BY <2>3 DEF Wake, RetryInv, RetryTypeOK
        <5>2. slept[c] <= 5 * (attempt[c] * MaxBackoff)
          BY <2>3 DEF Wake, RetryInv, Waits
        <5> QED BY <5>1, <5>2, <3>3, <4>1 DEF Waits
      <4>2. CASE x # c
        BY <2>3, <4>2 DEF Wake, Waits, RetryInv, RetryTypeOK
      <4> QED BY <4>1, <4>2
    <3> QED BY <3>2, <3>4 DEF RetryInv
  <2>4. CASE GiveUp(c)
    BY <2>4, ReturnKeeps DEF GiveUp
  <2> QED BY <1>3, <2>1, <2>2, <2>3, <2>4 DEF Attempt
<1>4. CASE UNCHANGED retryVars
  BY <1>4 DEF retryVars, RetryInv, RetryTypeOK, Waits
<1> QED BY <1>1, <1>2, <1>3, <1>4 DEF RetryNext

\* Nothing has waited at the start.
LEMMA RetryStart == RetryInit => RetryInv
<1> SUFFICES ASSUME RetryInit PROVE RetryInv
  OBVIOUS
<1>1. RetryTypeOK
  <2>1. 1 \in 1..MaxAttempts /\ 0 \in Nat
    BY RetryAssumption
  <2> QED BY <2>1, Zenon DEF RetryInit, RetryTypeOK
<1>2. ASSUME NEW c \in Calls PROVE Waits(c)
  <2>1. (1 - 1) * MaxBackoff = 0
    BY RetryAssumption
  <2> QED BY <2>1 DEF RetryInit, Waits
<1> QED BY <1>1, <1>2 DEF RetryInv

\* httpretry.Do waits no longer than MaxAttempts - 1 of the longest waits, for any
\* schedule, hints, statuses and errors.
THEOREM RetryWaits == RetrySpec => [](RetryTypeOK /\ WaitBounded)
<1>1. RetryInv => RetryTypeOK /\ WaitBounded
  <2> SUFFICES ASSUME RetryInv PROVE WaitBounded
    BY DEF RetryInv
  <2> SUFFICES ASSUME NEW c \in Calls
               PROVE  slept[c] <= 5 * ((MaxAttempts - 1) * MaxBackoff)
    BY DEF WaitBounded
  <2>1. /\ attempt[c] \in 1..MaxAttempts /\ slept[c] \in Nat
        /\ MaxBackoff \in Nat /\ MaxAttempts \in Nat /\ attempt[c] \in Nat
        /\ attempt[c] - 1 \in Nat /\ attempt[c] - 1 < MaxAttempts
    BY RetryAssumption DEF RetryInv, RetryTypeOK
  <2>2. (MaxAttempts - 1) * MaxBackoff \in Int
    BY <2>1
  <2>3. /\ (attempt[c] - 1) * MaxBackoff <= (MaxAttempts - 1) * MaxBackoff
        /\ (attempt[c] - 1) * MaxBackoff \in Nat
    BY <2>1, OneMoreWait
  <2>4. attempt[c] < MaxAttempts => /\ attempt[c] * MaxBackoff <= (MaxAttempts - 1) * MaxBackoff
                                    /\ attempt[c] * MaxBackoff \in Nat
    BY <2>1, OneMoreWait
  <2>5. Waits(c) /\ stage[c] \in {"idle", "sending", "waiting", "returned"}
    BY DEF RetryInv, RetryTypeOK
  <2> QED BY <2>1, <2>2, <2>3, <2>4, <2>5 DEF Waits
<1> QED BY <1>1, RetryStart, RetryStep, PTL DEF RetrySpec

-----------------------------------------------------------------------------
(* Retries                                                                 *)

\* Every step is a step of one call of httpretry or none of any.
LEMMA StepOfRetry == [Next]_vars => [RetryNext]_retryVars
<1> SUFFICES ASSUME [Next]_vars PROVE [RetryNext]_retryVars
  OBVIOUS
<1>1. CASE CancelContext
  BY <1>1 DEF CancelContext, RetryNext
<1>2. CASE CloseResults
  BY <1>2 DEF CloseResults
<1>3. CASE CallerStep
  BY <1>3 DEF CallerStep, Receive, ReturnOrdered
<1>4. ASSUME NEW i \in Texts, WorkerStep(i) PROVE [RetryNext]_retryVars
  <2>0. i \in Calls
    BY EmbedAssumption
  <2>1. CASE Acquire(i)
    BY <2>0, <2>1 DEF Acquire, RetryNext
  <2>2. CASE Call(i)
    BY <2>0, <2>2 DEF Call, RetryNext
  <2>3. CASE SendNoVectors(i)
    BY <2>3 DEF SendNoVectors, Send
  <2>4. CASE Release(i)
    BY <2>4 DEF Release
  <2>5. ASSUME NEW omitted, SendVectors(i, omitted) PROVE [RetryNext]_retryVars
    BY <2>5 DEF SendVectors, Send
  <2> QED BY <1>4, <2>1, <2>2, <2>3, <2>4, <2>5 DEF WorkerStep
<1>5. CASE UNCHANGED vars
  BY <1>5 DEF vars
<1> QED BY <1>1, <1>2, <1>3, <1>4, <1>5 DEF Next

\* EmbedBatch implements the calls of HttpRetry.
THEOREM ImplementsRetry == Spec => RetrySpec
<1>1. Init => RetryInit
  BY DEF Init
<1> QED BY <1>1, StepOfRetry, PTL DEF Spec, RetrySpec

\* A batch's request waits no longer than MaxAttempts - 1 of the longest waits.
THEOREM EmbedWaits == Spec => []WaitBounded
BY ImplementsRetry, RetryWaits, PTL

-----------------------------------------------------------------------------
(* Slots                                                                   *)

\* The goroutines whose request is under way.
InFlight == {i \in Texts : stage[i] \in {"sending", "waiting"}}

(***************************************************************************)
(* Who has a request under way holds a slot, since a goroutine takes it    *)
(* before the request and gives it back after its result was sent.         *)
(***************************************************************************)
SlotInv ==
  /\ worker \in [Texts -> {"blocked", "working", "sent", "done"}]
  /\ stage \in [Texts -> {"idle", "sending", "waiting", "returned"}]
  /\ \A i \in Texts : i \in InFlight => worker[i] = "working"
  /\ Cardinality(Holding) <= Concurrent

\* There are finitely many goroutines.
LEMMA FewHold == IsFiniteSet(Texts) /\ IsFiniteSet(Holding) /\ Cardinality(Holding) \in Nat
<1>1. IsFiniteSet(Texts)
  BY FS_Interval, EmbedAssumption DEF Texts
<1>2. Holding \in SUBSET Texts
  BY DEF Holding
<1> QED BY <1>1, <1>2, FS_Subset, FS_CardinalityType

\* While none is added to the holders, there are not more of them.
LEMMA NoneAcquires ==
  ASSUME SlotInv, Holding' \subseteq Holding
  PROVE  Cardinality(Holding') <= Concurrent
<1>1. Cardinality(Holding') <= Cardinality(Holding)
  BY FewHold, FS_Subset
<1>2. Cardinality(Holding') \in Nat
  BY FewHold, FS_Subset, FS_CardinalityType
<1> QED BY <1>1, <1>2, FewHold, EmbedAssumption DEF SlotInv

\* A step that neither starts a request nor takes a goroutine its slot.
LEMMA SlotFrame ==
  ASSUME SlotInv, UNCHANGED <<worker, stage>>
  PROVE  SlotInv'
<1>1. Holding' = Holding
  BY DEF Holding
<1> QED BY <1>1 DEF SlotInv, InFlight

\* A goroutine gets a slot that is free.
LEMMA AcquireKeeps ==
  ASSUME SlotInv, NEW i \in Texts, Acquire(i)
  PROVE  SlotInv'
<1>1. /\ worker' = [worker EXCEPT ![i] = "working"]
      /\ stage' = [stage EXCEPT ![i] = "sending"]
      /\ Cardinality(Holding) < Concurrent
  BY DEF Acquire, Start
<1>2. Holding' = Holding \cup {i}
  BY <1>1 DEF Holding, SlotInv
<1>3. Cardinality(Holding') <= Cardinality(Holding) + 1
  <2>1. Cardinality(Holding \cup {i}) =
          IF i \in Holding THEN Cardinality(Holding) ELSE Cardinality(Holding) + 1
    BY FewHold, FS_AddElement, Zenon
  <2> QED BY <1>2, <2>1, FewHold
<1>4. Cardinality(Holding') \in Nat
  BY <1>2, FewHold, FS_AddElement, FS_CardinalityType
<1>5. Cardinality(Holding') <= Concurrent
  BY <1>1, <1>3, <1>4, FewHold, EmbedAssumption
<1> QED BY <1>1, <1>5 DEF SlotInv, InFlight

\* A request in progress moves no goroutine.
LEMMA CallKeeps ==
  ASSUME SlotInv, NEW i \in Texts, Call(i)
  PROVE  SlotInv'
<1>1. worker' = worker /\ worker[i] = "working"
  BY DEF Call, embedVars
<1>2. PICK s \in {"sending", "waiting", "returned"} : stage' = [stage EXCEPT ![i] = s]
  BY Zenon DEF Call, Attempt, Answered, Failed, Wake, GiveUp, Sleep, Return
<1>3. Holding' = Holding
  BY <1>1 DEF Holding
<1> QED BY <1>1, <1>2, <1>3 DEF SlotInv, InFlight

\* A result is sent by a goroutine whose request has returned; it keeps the slot.
LEMMA SendKeeps ==
  ASSUME SlotInv, NEW i \in Texts, NEW r, Send(i, r)
  PROVE  SlotInv'
<1>1. /\ worker' = [worker EXCEPT ![i] = "sent"] /\ worker[i] = "working"
      /\ stage' = stage /\ stage[i] = "returned"
  BY DEF Send, retryVars
<1>2. Holding' \subseteq Holding
  BY <1>1 DEF Holding, SlotInv
<1> QED BY <1>1, <1>2, NoneAcquires DEF SlotInv, InFlight

\* A slot is given back after the request.
LEMMA ReleaseKeeps ==
  ASSUME SlotInv, NEW i \in Texts, Release(i)
  PROVE  SlotInv'
<1>1. /\ worker' = [worker EXCEPT ![i] = "done"] /\ worker[i] = "sent" /\ stage' = stage
  BY DEF Release, retryVars
<1>2. Holding' \subseteq Holding
  BY <1>1 DEF Holding, SlotInv
<1> QED BY <1>1, <1>2, NoneAcquires DEF SlotInv, InFlight

\* Every step keeps the slots.
LEMMA SlotStep == SlotInv /\ [Next]_vars => SlotInv'
<1> SUFFICES ASSUME SlotInv, [Next]_vars PROVE SlotInv'
  OBVIOUS
<1>1. CASE CancelContext
  BY <1>1, SlotFrame DEF CancelContext, Cancel, embedVars
<1>2. CASE CloseResults
  BY <1>2, SlotFrame DEF CloseResults, retryVars
<1>3. CASE CallerStep
  BY <1>3, SlotFrame DEF CallerStep, Receive, ReturnOrdered, retryVars
<1>4. ASSUME NEW i \in Texts, WorkerStep(i) PROVE SlotInv'
  <2>1. CASE Acquire(i)
    BY <2>1, AcquireKeeps
  <2>2. CASE Call(i)
    BY <2>2, CallKeeps
  <2>3. CASE SendNoVectors(i)
    BY <2>3, SendKeeps DEF SendNoVectors
  <2>4. CASE Release(i)
    BY <2>4, ReleaseKeeps
  <2>5. ASSUME NEW omitted, SendVectors(i, omitted) PROVE SlotInv'
    BY <2>5, SendKeeps DEF SendVectors
  <2> QED BY <1>4, <2>1, <2>2, <2>3, <2>4, <2>5 DEF WorkerStep
<1>5. CASE UNCHANGED vars
  BY <1>5, SlotFrame DEF vars, embedVars, retryVars
<1> QED BY <1>1, <1>2, <1>3, <1>4, <1>5 DEF Next

\* At the start nobody holds a slot.
LEMMA SlotStart == Init => SlotInv
<1> SUFFICES ASSUME Init PROVE SlotInv
  OBVIOUS
<1>1. /\ worker = [i \in Texts |-> IF i <= Len(batches) THEN "blocked" ELSE "done"]
      /\ stage = [i \in Texts |-> "idle"]
  BY EmbedAssumption DEF Init, RetryInit
<1>2. Holding = {}
  BY <1>1 DEF Holding
<1>3. Cardinality(Holding) <= Concurrent
  BY <1>2, FS_EmptySet, EmbedAssumption
<1> QED BY <1>1, <1>3 DEF SlotInv, InFlight

\* The semaphore bounds the requests under way, those included that wait for their
\* next attempt and those whose caller has returned.
THEOREM RequestsBounded == Spec => []InFlightBounded
<1>1. SlotInv => InFlightBounded
  <2> SUFFICES ASSUME SlotInv PROVE Cardinality(InFlight) <= Concurrent
    BY DEF InFlightBounded, InFlight
  <2>1. InFlight \in SUBSET Holding
    BY DEF InFlight, Holding, SlotInv
  <2>2. Cardinality(InFlight) <= Cardinality(Holding) /\ Cardinality(InFlight) \in Nat
    BY <2>1, FewHold, FS_Subset, FS_CardinalityType
  <2> QED BY <2>2, FewHold, EmbedAssumption DEF SlotInv
<1> QED BY <1>1, SlotStart, SlotStep, PTL DEF Spec

-----------------------------------------------------------------------------
(* Recursive definitions                                                   *)

\* A set of numbers that is not empty has a least one.
LEMMA LeastNumber ==
  ASSUME NEW S, S \subseteq Nat, S # {}
  PROVE  \E m \in S : \A k \in S : m <= k
<1>1. PICK m \in S : \A k \in S : <<k, m>> \notin OpToRel(<, Nat)
  BY WFMin, NatLessThanWellFounded, Zenon
<1>2. \A k \in S : ~(k < m)
  <2> TAKE k \in S
  <2>1. k \in Nat /\ m \in Nat
    OBVIOUS
  <2> QED BY <1>1, <2>1, Zenon DEF OpToRel
<1>3. m \in Nat /\ \A k \in S : k \in Nat
  OBVIOUS
<1> QED BY <1>2, <1>3

\* What holds of 0 and of a number if it holds of the one before holds up to any bound:
\* Bad is where it does not.
LEMMA NoLeastBad ==
  ASSUME NEW Bad, Bad \subseteq Nat,
         \A n \in Bad : n # 0 /\ n - 1 \in Bad
  PROVE  Bad = {}
<1> SUFFICES ASSUME Bad # {} PROVE FALSE
  OBVIOUS
<1>1. PICK m \in Bad : \A k \in Bad : m <= k
  BY LeastNumber
<1> QED BY <1>1

\* The values of f come from a step each, beginning with z.
Steps(f, N, z, step) == f = [n \in 0..N |-> IF n = 0 THEN z ELSE step[n][f[n - 1]]]

\* There is a function whose value at a number comes from its value before.
LEMMA Recursion ==
  ASSUME NEW N \in Nat, NEW z, NEW step
  PROVE  \E f : Steps(f, N, z, step)
<1> USE DEF Steps
<1> DEFINE Fits(f, m) == Steps(f, m, z, step)
           Bad == {m \in Nat : ~ \E f : Fits(f, m)}
<1>1. ASSUME NEW m \in Nat, m \in Bad PROVE m # 0 /\ m - 1 \in Bad
  <2>1. ~ \E f : Fits(f, m)
    BY <1>1
  <2>2. CASE m = 0
    <3> DEFINE f == [n \in 0..0 |-> z]
    <3>1. Fits(f, 0)
      OBVIOUS
    <3> QED BY <2>1, <2>2, <3>1
  <2>3. ASSUME m # 0, m - 1 \notin Bad PROVE FALSE
    <3>1. m - 1 \in Nat
      BY <2>3
    <3>2. PICK f : Fits(f, m - 1)
      BY <2>3, <3>1
    <3> DEFINE g == [n \in 0..m |-> IF n = m THEN step[m][f[m - 1]] ELSE f[n]]
    <3>3. \A n \in 0..m : g[n] = IF n = 0 THEN z ELSE step[n][g[n - 1]]
      <4> TAKE n \in 0..m
      <4>1. CASE n = m
        <5>1. m - 1 \in 0..m /\ m - 1 # m
          BY <3>1
        <5>2. g[m - 1] = f[m - 1] /\ g[m] = step[m][f[m - 1]]
          BY <5>1, <3>1
        <5> QED BY <2>3, <4>1, <5>2
      <4>2. CASE n # m
        <5>1. n \in 0..(m - 1) /\ n \in Int /\ g[n] = f[n]
          BY <4>2
        <5>2. f[n] = IF n = 0 THEN z ELSE step[n][f[n - 1]]
          BY <3>2, <5>1
        <5>3. n # 0 => n - 1 \in 0..m /\ n - 1 # m
          BY <5>1
        <5>4. n # 0 => g[n - 1] = f[n - 1]
          BY <5>3
        <5> QED BY <5>1, <5>2, <5>4
      <4> QED BY <4>1, <4>2
    <3>4. g = [n \in 0..m |-> g[n]]
      OBVIOUS
    <3> HIDE DEF g
    <3>5. Fits(g, m)
      BY <3>3, <3>4
    <3> QED BY <2>1, <3>5
  <2> QED BY <2>2, <2>3
<1>2. Bad = {}
  <2> HIDE DEF Bad
  <2>1. Bad \subseteq Nat
    BY DEF Bad
  <2>2. \A n \in Bad : n # 0 /\ n - 1 \in Bad
    BY <1>1, <2>1
  <2> QED BY <2>1, <2>2, NoLeastBad
<1>3. \E f : Fits(f, N)
  BY <1>2
<1> QED BY <1>3

-----------------------------------------------------------------------------
(* Sums                                                                    *)

\* The sums of a sequence add its elements one after the other.
LEMMA SumsAdd ==
  ASSUME NEW w \in Seq(Nat)
  PROVE  /\ Sums(w)[0] = 0
         /\ \A j \in 1..Len(w) : Sums(w)[j] = Sums(w)[j - 1] + w[j]
         /\ \A j \in 0..Len(w) : Sums(w)[j] \in Nat
<1> DEFINE D == 0..Len(w)
           step == [j \in 1..Len(w) |-> [x \in Nat |-> x + w[j]]]
<1>0. Len(w) \in Nat /\ \A j \in 1..Len(w) : w[j] \in Nat
  OBVIOUS
<1>1. \A j \in 1..Len(w) : \A x \in Nat : step[j][x] = x + w[j]
  OBVIOUS
<1> HIDE DEF step
<1>2. PICK f : Steps(f, Len(w), 0, step)
  BY <1>0, Recursion
<1>3. \A n \in D : f[n] = IF n = 0 THEN 0 ELSE step[n][f[n - 1]]
  BY <1>2 DEF Steps
<1>4. \A n \in D : f[n] \in Nat
  <2> DEFINE Bad == {n \in D : f[n] \notin Nat}
  <2>1. \A n \in Bad : n # 0 /\ n - 1 \in Bad
    <3> SUFFICES ASSUME NEW n \in D, f[n] \notin Nat
                 PROVE  n # 0 /\ n - 1 \in D /\ f[n - 1] \notin Nat
      OBVIOUS
    <3>1. n # 0
      BY <1>3
    <3>2. n \in 1..Len(w) /\ n - 1 \in D
      BY <3>1, <1>0
    <3>3. f[n] = step[n][f[n - 1]]
      BY <1>3, <3>1
    <3>4. f[n - 1] \in Nat => f[n] = f[n - 1] + w[n]
      BY <1>1, <3>2, <3>3
    <3> QED BY <1>0, <3>1, <3>2, <3>4
  <2>2. Bad \subseteq Nat
    OBVIOUS
  <2> HIDE DEF Bad
  <2>3. Bad = {}
    BY <2>1, <2>2, NoLeastBad
  <2> QED BY <2>3 DEF Bad
<1>5. \A n \in D : f[n] = IF n = 0 THEN 0 ELSE f[n - 1] + w[n]
  <2> TAKE n \in D
  <2>1. n # 0 => n \in 1..Len(w) /\ n - 1 \in D
    BY <1>0
  <2> QED BY <1>1, <1>3, <1>4, <2>1
<1>6. f = [n \in D |-> f[n]]
  BY <1>2, Zenon DEF Steps
<1>7. f = [n \in D |-> IF n = 0 THEN 0 ELSE f[n - 1] + w[n]]
  BY <1>5, <1>6
<1>8. Sums(w) = CHOOSE g : g = [n \in D |-> IF n = 0 THEN 0 ELSE g[n - 1] + w[n]]
  BY DEF Sums
<1>9. Sums(w) = [n \in D |-> IF n = 0 THEN 0 ELSE Sums(w)[n - 1] + w[n]]
  BY <1>7, <1>8, Zenon
<1> DEFINE s == Sums(w)
<1> HIDE DEF s
<1>10. \A n \in D : s[n] = IF n = 0 THEN 0 ELSE s[n - 1] + w[n]
  BY <1>9 DEF s
<1>11. \A n \in D : s[n] \in Nat
  <2> DEFINE Bad == {n \in D : s[n] \notin Nat}
  <2>1. \A n \in Bad : n # 0 /\ n - 1 \in Bad
    BY <1>0, <1>10
  <2>2. Bad \subseteq Nat
    OBVIOUS
  <2> HIDE DEF Bad
  <2>3. Bad = {}
    BY <2>1, <2>2, NoLeastBad
  <2> QED BY <2>3 DEF Bad
<1> QED BY <1>0, <1>10, <1>11 DEF s

\* The sums of the elements that two sequences share are the same.
LEMMA SumsShared ==
  ASSUME NEW v \in Seq(Nat), NEW w \in Seq(Nat), NEW n \in Nat,
         n <= Len(v), n <= Len(w), \A j \in 1..n : v[j] = w[j]
  PROVE  \A j \in 0..n : Sums(v)[j] = Sums(w)[j]
<1> DEFINE s == Sums(v)
           t == Sums(w)
           Bad == {j \in 0..n : s[j] # t[j]}
<1> HIDE DEF s, t
<1>1. s[0] = 0 /\ t[0] = 0
  BY SumsAdd DEF s, t
<1>2. \A j \in 1..n : s[j] = s[j - 1] + v[j] /\ t[j] = t[j - 1] + w[j]
  BY SumsAdd DEF s, t
<1>3. \A j \in Bad : j # 0 /\ j - 1 \in Bad
  BY <1>1, <1>2
<1>4. Bad \subseteq Nat
  OBVIOUS
<1> HIDE DEF Bad
<1>5. Bad = {}
  BY <1>3, <1>4, NoLeastBad
<1> QED BY <1>5 DEF Bad, s, t

-----------------------------------------------------------------------------
(* Splitting                                                               *)

SplitStates == [done : Seq(Seq(Texts)), current : Seq(Texts), tokens : Nat]

NothingSplit == [done |-> <<>>, current |-> <<>>, tokens |-> 0]

\* A text is counted for at least one token.
LEMMA TokensTyped ==
  ASSUME length \in [Texts -> Lengths], NEW n \in Texts
  PROVE  EstTokens(n) \in Nat /\ EstTokens(n) >= 1
<1>1. length[n] \in Nat
  BY EmbedAssumption
<1> QED BY <1>1 DEF EstTokens

\* A text that joins the others leaves batches.
LEMMA AddTyped ==
  ASSUME length \in [Texts -> Lengths], NEW n \in Texts, NEW s \in SplitStates
  PROVE  Add(s, n) \in SplitStates
<1>1. s.done \in Seq(Seq(Texts)) /\ s.current \in Seq(Texts) /\ s.tokens \in Nat
  BY DEF SplitStates
<1>2. EstTokens(n) \in Nat
  BY TokensTyped
<1>3. Append(s.done, s.current) \in Seq(Seq(Texts)) /\ <<n>> \in Seq(Texts)
      /\ Append(s.current, n) \in Seq(Texts) /\ s.tokens + EstTokens(n) \in Nat
  BY <1>1, <1>2
<1>4. CASE IsFull(s.current, s.tokens, n)
  BY <1>2, <1>3, <1>4 DEF Add, SplitStates
<1>5. CASE ~IsFull(s.current, s.tokens, n)
  <2>1. Add(s, n) = [s EXCEPT !.current = Append(@, n), !.tokens = @ + EstTokens(n)]
    BY <1>5 DEF Add
  <2> HIDE DEF Add
  <2> QED BY <1>1, <1>3, <2>1 DEF SplitStates
<1> QED BY <1>4, <1>5

\* Splitting adds one text after the other.
LEMMA SplitAdds ==
  ASSUME length \in [Texts -> Lengths]
  PROVE  /\ Split[0] = NothingSplit
         /\ \A n \in Texts : Split[n] = Add(Split[n - 1], n)
         /\ \A n \in 0..Count : Split[n] \in SplitStates
<1> DEFINE D == 0..Count
           step == [n \in Texts |-> [s \in SplitStates |-> Add(s, n)]]
<1>0. Count \in Nat /\ Texts = 1..Count
  BY EmbedAssumption DEF Texts
<1>1. \A n \in Texts : \A s \in SplitStates : step[n][s] = Add(s, n)
  OBVIOUS
<1>2. NothingSplit \in SplitStates
  BY DEF NothingSplit, SplitStates
<1> HIDE DEF step
<1>3. PICK f : Steps(f, Count, NothingSplit, step)
  BY <1>0, Recursion
<1>4. \A n \in D : f[n] = IF n = 0 THEN NothingSplit ELSE step[n][f[n - 1]]
  BY <1>3 DEF Steps
<1>5. \A n \in D : n # 0 => n \in Texts /\ n - 1 \in D
  BY <1>0
<1>6. \A n \in D : f[n] \in SplitStates
  <2> DEFINE Bad == {n \in D : f[n] \notin SplitStates}
  <2>1. \A n \in Bad : n # 0 /\ n - 1 \in Bad
    <3> SUFFICES ASSUME NEW n \in D, f[n] \notin SplitStates
                 PROVE  n # 0 /\ n - 1 \in D /\ f[n - 1] \notin SplitStates
      OBVIOUS
    <3>1. n # 0
      BY <1>2, <1>4
    <3>2. f[n] = step[n][f[n - 1]] /\ n \in Texts /\ n - 1 \in D
      BY <1>4, <1>5, <3>1
    <3>3. f[n - 1] \in SplitStates => f[n] \in SplitStates
      BY <1>1, <3>2, AddTyped
    <3> QED BY <3>1, <3>2, <3>3
  <2>2. Bad \subseteq Nat
    BY <1>0
  <2> HIDE DEF Bad
  <2>3. Bad = {}
    BY <2>1, <2>2, NoLeastBad
  <2> QED BY <2>3 DEF Bad
<1>7. \A n \in D : f[n] = IF n = 0 THEN NothingSplit ELSE Add(f[n - 1], n)
  BY <1>1, <1>4, <1>5, <1>6
<1>8. f = [n \in D |-> f[n]]
  BY <1>3, Zenon DEF Steps
<1>9. f = [n \in D |-> IF n = 0 THEN NothingSplit ELSE Add(f[n - 1], n)]
  BY <1>7, <1>8
<1>10. Split = CHOOSE g : g = [n \in D |-> IF n = 0 THEN NothingSplit ELSE Add(g[n - 1], n)]
  BY DEF Split, NothingSplit
<1>11. Split = [n \in D |-> IF n = 0 THEN NothingSplit ELSE Add(Split[n - 1], n)]
  BY <1>9, <1>10, Zenon
<1> DEFINE p == Split
<1> HIDE DEF p
<1>12. \A n \in D : p[n] = IF n = 0 THEN NothingSplit ELSE Add(p[n - 1], n)
  BY <1>11 DEF p
<1>13. \A n \in D : p[n] \in SplitStates
  <2> DEFINE Bad == {n \in D : p[n] \notin SplitStates}
  <2>1. \A n \in Bad : n # 0 /\ n - 1 \in Bad
    BY <1>2, <1>5, <1>12, AddTyped
  <2>2. Bad \subseteq Nat
    BY <1>0
  <2> HIDE DEF Bad
  <2>3. Bad = {}
    BY <2>1, <2>2, NoLeastBad
  <2> QED BY <2>3 DEF Bad
<1>14. 0 \in D /\ \A n \in Texts : n \in D /\ n # 0
  BY <1>0
<1> QED BY <1>12, <1>13, <1>14 DEF p

\* What a batch is counted for grows with its texts.
LEMMA TokensAdd ==
  ASSUME length \in [Texts -> Lengths], NEW batch \in Seq(Texts), NEW n \in Texts
  PROVE  /\ TokensOf(batch) \in Nat
         /\ TokensOf(Append(batch, n)) = TokensOf(batch) + EstTokens(n)
         /\ TokensOf(<<n>>) = EstTokens(n)
<1> DEFINE weights(b) == [j \in 1..Len(b) |-> EstTokens(b[j])]
<1>1. ASSUME NEW b \in Seq(Texts) PROVE weights(b) \in Seq(Nat) /\ Len(weights(b)) = Len(b)
  <2>1. \A j \in 1..Len(b) : EstTokens(b[j]) \in Nat
    BY TokensTyped
  <2> QED BY <2>1
<1> DEFINE more == Append(batch, n)
<1>2. /\ more \in Seq(Texts) /\ Len(more) = Len(batch) + 1 /\ Len(batch) \in Nat
      /\ more[Len(batch) + 1] = n /\ \A j \in 1..Len(batch) : more[j] = batch[j]
  OBVIOUS
<1>3. <<n>> \in Seq(Texts) /\ Len(<<n>>) = 1 /\ <<n>>[1] = n
  OBVIOUS
<1> HIDE DEF more
<1> DEFINE v == weights(batch)
           w == weights(more)
           u == weights(<<n>>)
<1>4. /\ v \in Seq(Nat) /\ Len(v) = Len(batch)
      /\ w \in Seq(Nat) /\ Len(w) = Len(batch) + 1
      /\ u \in Seq(Nat) /\ Len(u) = 1
  BY <1>1, <1>2, <1>3
<1>5. /\ \A j \in 1..Len(batch) : v[j] = w[j]
      /\ w[Len(batch) + 1] = EstTokens(n) /\ u[1] = EstTokens(n)
  BY <1>2, <1>3
<1>6. /\ TokensOf(batch) = Sums(v)[Len(batch)]
      /\ TokensOf(more) = Sums(w)[Len(batch) + 1]
      /\ TokensOf(<<n>>) = Sums(u)[1]
  BY <1>2, <1>3 DEF TokensOf
<1> HIDE DEF v, w, u
<1>7. TokensOf(batch) \in Nat
  BY <1>2, <1>4, <1>6, SumsAdd
<1>8. Sums(v)[Len(batch)] = Sums(w)[Len(batch)]
  <2>1. Len(batch) \in Nat /\ Len(batch) <= Len(v) /\ Len(batch) <= Len(w)
    BY <1>2, <1>4
  <2>2. \A j \in 0..Len(batch) : Sums(v)[j] = Sums(w)[j]
    BY <1>4, <1>5, <2>1, SumsShared, Zenon
  <2> QED BY <2>1, <2>2
<1>9. Sums(w)[Len(batch) + 1] = Sums(w)[Len(batch)] + EstTokens(n)
  <2>1. \A j \in 1..Len(w) : Sums(w)[j] = Sums(w)[j - 1] + w[j]
    BY <1>4, SumsAdd
  <2>2. Len(batch) + 1 \in 1..Len(w) /\ Len(batch) + 1 - 1 = Len(batch)
    BY <1>2, <1>4
  <2> QED BY <1>5, <2>1, <2>2
<1>10. Sums(u)[1] = EstTokens(n)
  <2>1. EstTokens(n) \in Nat
    BY TokensTyped
  <2>2. Sums(u)[0] = 0 /\ \A j \in 1..Len(u) : Sums(u)[j] = Sums(u)[j - 1] + u[j]
    BY <1>4, SumsAdd
  <2> QED BY <1>4, <1>5, <2>1, <2>2
<1> QED BY <1>6, <1>7, <1>8, <1>9, <1>10 DEF more

\* A batch has texts that follow one another.
Consecutive(b) == Len(b) >= 1 /\ \A j \in 1..Len(b) : b[j] = b[1] + j - 1

\* A batch has a text.
Holds(b, t) == \E j \in 1..Len(b) : b[j] = t

\* The first n texts lie in the batches in order.
Laid(bs, n) ==
  /\ bs[1][1] = 1
  /\ \A i \in 1..Len(bs) : Consecutive(bs[i])
  /\ \A i \in 1..(Len(bs) - 1) : bs[i + 1][1] = bs[i][1] + Len(bs[i])
  /\ bs[Len(bs)][1] + Len(bs[Len(bs)]) = n + 1
  /\ \A t \in 1..n : \E i \in 1..Len(bs) : Holds(bs[i], t)

\* No batch is over a limit, and each was ended by one.
FitsLimits(b) == Len(b) \in 1..MaxItems /\ (TokensOf(b) <= MaxTokens \/ Len(b) = 1)
IsEnded(b, t) == Len(b) = MaxItems \/ TokensOf(b) + EstTokens(t) > MaxTokens
WithinLimits(bs) ==
  /\ \A i \in 1..Len(bs) : FitsLimits(bs[i])
  /\ \A i \in 1..(Len(bs) - 1) : IsEnded(bs[i], bs[i + 1][1])

\* A text that begins a batch follows those before it.
LEMMA LaidBegins ==
  ASSUME NEW bs \in Seq(Seq(Texts)), Len(bs) >= 1, NEW n \in Texts, Laid(bs, n - 1),
         NEW cs \in Seq(Seq(Texts)), Len(cs) = Len(bs) + 1,
         \A i \in 1..Len(bs) : cs[i] = bs[i], cs[Len(bs) + 1] = <<n>>
  PROVE  Laid(cs, n)
<1> PICK k : k = Len(bs)
  OBVIOUS
<1>0. n \in Int /\ k \in Nat /\ k >= 1 /\ Len(cs) = k + 1
  BY DEF Texts
<1>1. /\ \A i \in 1..k : cs[i] = bs[i]
      /\ cs[k + 1][1] = n /\ Len(cs[k + 1]) = 1
  <2>1. <<n>>[1] = n /\ Len(<<n>>) = 1
    OBVIOUS
  <2> QED BY <2>1
<1>2. bs[k][1] + Len(bs[k]) = n
  BY <1>0 DEF Laid
<1>3. cs[1][1] = 1
  BY <1>0, <1>1 DEF Laid
<1>4. \A i \in 1..Len(cs) : Consecutive(cs[i])
  <2>1. \A i \in 1..k : Consecutive(cs[i])
    BY <1>1 DEF Laid
  <2>2. Consecutive(cs[k + 1])
    BY <1>0, <1>1 DEF Consecutive
  <2>3. \A i \in 1..Len(cs) : i \in 1..k \/ i = k + 1
    BY <1>0
  <2> QED BY <2>1, <2>2, <2>3
<1>5. \A i \in 1..(Len(cs) - 1) : cs[i + 1][1] = cs[i][1] + Len(cs[i])
  <2> TAKE i \in 1..(Len(cs) - 1)
  <2>1. CASE i < k
    <3>1. i \in 1..(k - 1) /\ i \in 1..k /\ i + 1 \in 1..k
      BY <1>0, <2>1
    <3> QED BY <1>1, <3>1 DEF Laid
  <2>2. CASE i = k
    BY <1>0, <1>1, <1>2, <2>2
  <2> QED BY <1>0, <2>1, <2>2
<1>6. \A t \in 1..n : \E i \in 1..Len(cs) : Holds(cs[i], t)
  <2> TAKE t \in 1..n
  <2>1. CASE t = n
    <3>1. Holds(cs[k + 1], t)
      BY <1>1, <2>1 DEF Holds
    <3>2. k + 1 \in 1..Len(cs)
      BY <1>0
    <3> QED BY <3>1, <3>2, Zenon
  <2>2. CASE t # n
    <3>1. t \in 1..(n - 1)
      BY <1>0, <2>2
    <3>2. PICK i \in 1..k : Holds(bs[i], t)
      BY <3>1 DEF Laid
    <3>3. i \in 1..Len(cs) /\ cs[i] = bs[i]
      BY <1>0, <1>1, <3>2
    <3> QED BY <3>2, <3>3
  <2> QED BY <2>1, <2>2
<1>7. cs[Len(cs)][1] + Len(cs[Len(cs)]) = n + 1
  BY <1>0, <1>1
<1> QED BY <1>3, <1>4, <1>5, <1>6, <1>7 DEF Laid

\* A text follows those of a batch.
Follows(c, b, n) ==
  /\ c \in Seq(Texts) /\ Len(c) = Len(b) + 1 /\ c[Len(b) + 1] = n
  /\ \A j \in 1..Len(b) : c[j] = b[j]

\* A batch is another with a text at its end.
Joined(c, b, n) ==
  /\ Consecutive(c) /\ c[1] = b[1] /\ Len(c) = Len(b) + 1 /\ Holds(c, n)
  /\ \A t : Holds(b, t) => Holds(c, t)

\* A batch with the next text is one of texts that follow one another.
LEMMA ConsecutiveJoins ==
  ASSUME NEW b \in Seq(Texts), NEW n \in Texts, Consecutive(b), b[1] + Len(b) = n,
         NEW c, Follows(c, b, n)
  PROVE  Joined(c, b, n)
<1>1. /\ Len(c) = Len(b) + 1 /\ c[Len(b) + 1] = n /\ Len(b) \in Nat
      /\ \A j \in 1..Len(b) : c[j] = b[j]
  BY DEF Follows
<1>2. Len(b) >= 1 /\ c[1] = b[1]
  BY <1>1 DEF Consecutive
<1>3. b[1] \in Int /\ n \in Int
  <2>1. b[1] \in Texts
    BY <1>2
  <2> QED BY <2>1 DEF Texts
<1>4. \A j \in 1..Len(c) : c[j] = c[1] + j - 1
  <2> TAKE j \in 1..Len(c)
  <2>1. CASE j \in 1..Len(b)
    BY <1>1, <1>2, <2>1 DEF Consecutive
  <2>2. CASE j = Len(b) + 1
    BY <1>1, <1>2, <1>3, <2>2
  <2> QED BY <1>1, <2>1, <2>2
<1>5. Holds(c, n) /\ \A t : Holds(b, t) => Holds(c, t)
  BY <1>1 DEF Holds
<1>6. Consecutive(c)
  BY <1>1, <1>2, <1>4 DEF Consecutive
<1> QED BY <1>1, <1>2, <1>5, <1>6 DEF Joined

\* A text that joins the last batch follows those before it.
LEMMA LaidJoins ==
  ASSUME NEW bs \in Seq(Seq(Texts)), Len(bs) >= 1, NEW n \in Texts, Laid(bs, n - 1),
         NEW cs \in Seq(Seq(Texts)), Len(cs) = Len(bs),
         \A i \in 1..(Len(bs) - 1) : cs[i] = bs[i],
         Follows(cs[Len(bs)], bs[Len(bs)], n)
  PROVE  Laid(cs, n)
<1>k. PICK k : k = Len(bs)
  OBVIOUS
<1>0. n \in Int /\ k \in Nat /\ k >= 1 /\ Len(cs) = k
  BY <1>k DEF Texts
<1>b. PICK b : b = bs[k]
  OBVIOUS
<1>c. PICK c : c = cs[k]
  OBVIOUS
<1>1. b \in Seq(Texts) /\ Follows(c, b, n)
  BY <1>0, <1>k, <1>b, <1>c
<1>2. b[1] + Len(b) = n /\ Consecutive(b)
  BY <1>0, <1>k, <1>b DEF Laid
<1>3. /\ Consecutive(c) /\ c[1] = b[1] /\ Len(c) = Len(b) + 1 /\ Holds(c, n)
      /\ \A t : Holds(b, t) => Holds(c, t)
  <2>1. Joined(c, b, n)
    BY <1>1, <1>2, ConsecutiveJoins, Zenon
  <2> QED BY <2>1 DEF Joined
<1>4. /\ \A i \in 1..(k - 1) : cs[i] = bs[i]
      /\ \A i \in 1..k : i = k \/ i \in 1..(k - 1)
  BY <1>0, <1>k
<1>5. b[1] \in Int /\ Len(b) \in Nat
  <2>1. b[1] \in Texts
    BY <1>1, <1>2 DEF Consecutive
  <2> QED BY <1>1, <2>1 DEF Texts
<1>6. \A i \in 1..k : cs[i][1] = bs[i][1]
  BY <1>3, <1>4, <1>b, <1>c
<1>7. cs[1][1] = 1
  BY <1>0, <1>6, <1>k DEF Laid
<1>8. \A i \in 1..Len(cs) : Consecutive(cs[i])
  <2>1. \A i \in 1..(k - 1) : Consecutive(cs[i])
    BY <1>0, <1>4, <1>k DEF Laid
  <2> QED BY <1>0, <1>3, <1>4, <1>c, <2>1
<1>9. \A i \in 1..(Len(cs) - 1) : cs[i + 1][1] = cs[i][1] + Len(cs[i])
  <2> TAKE i \in 1..(Len(cs) - 1)
  <2>a. \A m \in Nat : \A j \in 1..(m - 1) : j \in 1..m /\ j + 1 \in 1..m
    OBVIOUS
  <2>b. k \in Nat /\ i \in 1..(k - 1)
    BY <1>0, Zenon
  <2>1. i \in 1..(k - 1) /\ i \in 1..k /\ i + 1 \in 1..k
    BY <2>a, <2>b, Zenon
  <2> QED BY <1>4, <1>6, <1>k, <2>1 DEF Laid
<1>10. cs[Len(cs)][1] + Len(cs[Len(cs)]) = n + 1
  <2>a. PICK x \in Int, y \in Nat : x = b[1] /\ y = Len(b)
    BY <1>5
  <2>b. c[1] = x /\ Len(c) = y + 1 /\ x + y = n
    BY <1>2, <1>3, <2>a, Zenon
  <2>1. c[1] + Len(c) = n + 1
    BY <2>b
  <2> QED BY <1>0, <1>c, <2>1
<1>11. \A t \in 1..n : \E i \in 1..Len(cs) : Holds(cs[i], t)
  <2> TAKE t \in 1..n
  <2>1. CASE t = n
    <3>1. k \in 1..Len(cs)
      BY <1>0
    <3>2. Holds(cs[k], t)
      BY <1>3, <1>c, <2>1, Zenon
    <3> QED BY <3>1, <3>2
  <2>2. CASE t # n
    <3>1. t \in 1..(n - 1)
      BY <1>0, <2>2
    <3>2. PICK i \in 1..k : Holds(bs[i], t)
      BY <1>k, <3>1 DEF Laid
    <3>3. CASE i \in 1..(k - 1)
      BY <1>0, <1>4, <3>2, <3>3
    <3>4. CASE i = k
      BY <1>0, <1>3, <1>b, <1>c, <3>2, <3>4
    <3> QED BY <1>4, <3>3, <3>4
  <2> QED BY <2>1, <2>2
<1> QED BY <1>7, <1>8, <1>9, <1>10, <1>11 DEF Laid

\* Splitting has laid the first n texts into batches within the limits, and counted
\* the last one.
SplitUpTo(s, n) ==
  /\ Laid(Append(s.done, s.current), n)
  /\ WithinLimits(Append(s.done, s.current))
  /\ s.tokens = TokensOf(s.current)

\* A sequence with one more element.
LEMMA Appended ==
  ASSUME NEW S, NEW w \in Seq(S), NEW x \in S, NEW v, v = Append(w, x)
  PROVE  /\ v \in Seq(S) /\ Len(w) \in Nat /\ Len(v) = Len(w) + 1 /\ v[Len(w) + 1] = x
         /\ \A i \in 1..Len(w) : v[i] = w[i]
OBVIOUS

\* A batch that is full is ended.
LEMMA EndsBatch ==
  ASSUME length \in [Texts -> Lengths], NEW n \in Texts, NEW s \in SplitStates,
         SplitUpTo(s, n - 1), IsFull(s.current, s.tokens, n)
  PROVE  SplitUpTo(Add(s, n), n)
<1> USE EmbedAssumption
<1>t. PICK t : t = Add(s, n)
  OBVIOUS
<1>bs. PICK bs : bs = Append(s.done, s.current)
  OBVIOUS
<1>cs. PICK cs : cs = Append(bs, <<n>>)
  OBVIOUS
<1>k. PICK k : k = Len(bs)
  OBVIOUS
<1>1. t.done = bs /\ t.current = <<n>> /\ t.tokens = EstTokens(n)
  BY <1>t, <1>bs DEF Add
<1>2. s.done \in Seq(Seq(Texts)) /\ s.current \in Seq(Texts) /\ <<n>> \in Seq(Texts)
  BY DEF SplitStates
<1>3. bs \in Seq(Seq(Texts)) /\ k \in Nat /\ k >= 1 /\ bs[k] = s.current
  <2>1. /\ bs \in Seq(Seq(Texts)) /\ Len(s.done) \in Nat /\ Len(bs) = Len(s.done) + 1
        /\ bs[Len(s.done) + 1] = s.current
    BY <1>2, <1>bs, Appended
  <2> QED BY <1>k, <2>1
<1>4. /\ cs \in Seq(Seq(Texts)) /\ Len(cs) = k + 1 /\ cs[k + 1] = <<n>>
      /\ \A i \in 1..k : cs[i] = bs[i]
  BY <1>2, <1>3, <1>k, <1>cs, Appended
<1>5. Laid(cs, n)
  <2>1. Laid(bs, n - 1)
    BY <1>bs DEF SplitUpTo
  <2> QED BY <1>3, <1>4, <1>k, <2>1, LaidBegins
<1>6. WithinLimits(bs) /\ Len(<<n>>) = 1 /\ <<n>>[1] = n
  BY <1>bs DEF SplitUpTo
<1>7. \A i \in 1..Len(cs) : FitsLimits(cs[i])
  <2>1. \A i \in 1..k : FitsLimits(cs[i])
    BY <1>4, <1>6, <1>k DEF WithinLimits
  <2>2. FitsLimits(cs[k + 1])
    BY <1>4, <1>6 DEF FitsLimits
  <2>3. \A i \in 1..Len(cs) : i \in 1..k \/ i = k + 1
    BY <1>3, <1>4
  <2> QED BY <2>1, <2>2, <2>3
<1>8. \A i \in 1..(Len(cs) - 1) : IsEnded(cs[i], cs[i + 1][1])
  <2>1. IsEnded(bs[k], n)
    <3>1. FitsLimits(s.current) /\ s.tokens = TokensOf(s.current)
      BY <1>3, <1>6, <1>k DEF WithinLimits, SplitUpTo
    <3>2. Len(s.current) >= MaxItems \/ s.tokens + EstTokens(n) > MaxTokens
      BY DEF IsFull
    <3>3. Len(s.current) >= MaxItems => Len(s.current) = MaxItems
      BY <3>1 DEF FitsLimits
    <3> QED BY <1>3, <3>1, <3>2, <3>3 DEF IsEnded
  <2>2. ASSUME NEW i \in 1..(k - 1) PROVE IsEnded(cs[i], cs[i + 1][1])
    <3>1. i \in 1..k /\ i + 1 \in 1..k
      BY <1>3
    <3>2. cs[i] = bs[i] /\ cs[i + 1] = bs[i + 1] /\ IsEnded(bs[i], bs[i + 1][1])
      BY <1>4, <1>6, <1>k, <3>1 DEF WithinLimits
    <3> QED BY <3>2
  <2>3. \A i \in 1..(Len(cs) - 1) : i \in 1..(k - 1) \/ i = k
    BY <1>3, <1>4
  <2>4. IsEnded(cs[k], cs[k + 1][1])
    BY <1>3, <1>4, <1>6, <2>1
  <2> QED BY <2>2, <2>3, <2>4
<1>9. TokensOf(<<n>>) = EstTokens(n)
  BY TokensAdd, <1>2
<1> QED BY <1>1, <1>5, <1>7, <1>8, <1>9, <1>t, <1>cs DEF SplitUpTo, WithinLimits

\* A batch that is not full takes the text.
LEMMA FillsBatch ==
  ASSUME length \in [Texts -> Lengths], NEW n \in Texts, NEW s \in SplitStates,
         SplitUpTo(s, n - 1), ~IsFull(s.current, s.tokens, n)
  PROVE  SplitUpTo(Add(s, n), n)
<1> USE EmbedAssumption
<1>t. PICK t : t = Add(s, n)
  OBVIOUS
<1>bs. PICK bs : bs = Append(s.done, s.current)
  OBVIOUS
<1>b. PICK b : b = s.current
  OBVIOUS
<1>c. PICK c : c = Append(b, n)
  OBVIOUS
<1>cs. PICK cs : cs = Append(s.done, c)
  OBVIOUS
<1>k. PICK k : k = Len(bs)
  OBVIOUS
<1>1. s.done \in Seq(Seq(Texts)) /\ b \in Seq(Texts) /\ s.tokens \in Nat
  BY <1>b DEF SplitStates
<1>2. t.done = s.done /\ t.current = c /\ t.tokens = s.tokens + EstTokens(n)
  <2>1. t = [s EXCEPT !.current = Append(@, n), !.tokens = @ + EstTokens(n)]
    BY <1>t DEF Add
  <2> QED BY <1>b, <1>c, <2>1 DEF SplitStates
<1>3. /\ c \in Seq(Texts) /\ Len(b) \in Nat /\ Len(c) = Len(b) + 1 /\ c[Len(b) + 1] = n
      /\ \A j \in 1..Len(b) : c[j] = b[j]
  BY <1>1, <1>c, Appended
<1>4. /\ bs \in Seq(Seq(Texts)) /\ k \in Nat /\ k >= 1 /\ bs[k] = b
      /\ \A i \in 1..(k - 1) : bs[i] = s.done[i]
  <2>1. /\ bs \in Seq(Seq(Texts)) /\ Len(s.done) \in Nat /\ Len(bs) = Len(s.done) + 1
        /\ bs[Len(s.done) + 1] = b /\ \A i \in 1..Len(s.done) : bs[i] = s.done[i]
    BY <1>1, <1>b, <1>bs, Appended
  <2> QED BY <1>k, <2>1
<1>5. /\ cs \in Seq(Seq(Texts)) /\ Len(cs) = k /\ cs[k] = c
      /\ \A i \in 1..(k - 1) : cs[i] = bs[i]
  <2>1. /\ cs \in Seq(Seq(Texts)) /\ Len(s.done) \in Nat /\ Len(cs) = Len(s.done) + 1
        /\ cs[Len(s.done) + 1] = c /\ \A i \in 1..Len(s.done) : cs[i] = s.done[i]
    BY <1>1, <1>3, <1>cs, Appended
  <2>2. Len(bs) = Len(s.done) + 1
    BY <1>1, <1>b, <1>bs, Appended
  <2> QED BY <1>4, <1>k, <2>1, <2>2
<1>6. Laid(bs, n - 1) /\ WithinLimits(bs) /\ s.tokens = TokensOf(b)
  BY <1>b, <1>bs DEF SplitUpTo
<1>7. Laid(cs, n)
  BY <1>3, <1>4, <1>5, <1>6, <1>k, LaidJoins DEF Follows
<1>8. Consecutive(b) /\ FitsLimits(b)
  BY <1>4, <1>6, <1>k DEF Laid, WithinLimits
<1>9. Len(b) < MaxItems /\ s.tokens + EstTokens(n) <= MaxTokens
  <2>1. b # <<>>
    BY <1>8 DEF Consecutive
  <2>2. EstTokens(n) \in Nat
    BY TokensTyped
  <2> QED BY <1>1, <1>3, <1>b, <2>1, <2>2 DEF IsFull
<1>10. TokensOf(c) = s.tokens + EstTokens(n)
  BY <1>1, <1>6, <1>c, TokensAdd
<1>11. FitsLimits(c)
  BY <1>3, <1>9, <1>10 DEF FitsLimits
<1>12. c[1] = b[1]
  BY <1>3, <1>8 DEF Consecutive
<1>13. \A i \in 1..Len(cs) : FitsLimits(cs[i])
  <2>1. \A i \in 1..(k - 1) : FitsLimits(cs[i])
    <3>1. \A i \in 1..(k - 1) : i \in 1..k
      BY <1>4
    <3> QED BY <1>5, <1>6, <1>k, <3>1 DEF WithinLimits
  <2>a. \A m \in Nat : \A i \in 1..m : i \in 1..(m - 1) \/ i = m
    OBVIOUS
  <2>2. \A i \in 1..Len(cs) : i \in 1..(k - 1) \/ i = k
    BY <1>4, <1>5, <2>a
  <2> QED BY <1>5, <1>11, <2>1, <2>2
<1>14. \A i \in 1..(Len(cs) - 1) : IsEnded(cs[i], cs[i + 1][1])
  <2> TAKE i \in 1..(Len(cs) - 1)
  <2>0. Len(cs) = k /\ k \in Nat
    BY <1>4, <1>5
  <2>a. i \in 1..(k - 1)
    BY <2>0
  <2>b. \A m \in Nat : \A j \in 1..(m - 1) : j + 1 \in 1..(m - 1) \/ j + 1 = m
    OBVIOUS
  <2>1. i \in 1..(k - 1) /\ (i + 1 \in 1..(k - 1) \/ i + 1 = k)
    BY <2>0, <2>a, <2>b
  <2>2. cs[i] = bs[i] /\ cs[i + 1][1] = bs[i + 1][1]
    BY <1>4, <1>5, <1>12, <2>1
  <2> QED BY <1>6, <1>k, <2>1, <2>2 DEF WithinLimits
<1> QED BY <1>2, <1>7, <1>10, <1>13, <1>14, <1>t, <1>cs DEF SplitUpTo, WithinLimits

\* The first text begins the first batch.
LEMMA FirstText ==
  ASSUME length \in [Texts -> Lengths], 1 \in Texts
  PROVE  SplitUpTo(Add(NothingSplit, 1), 1)
<1> USE EmbedAssumption
<1>t. PICK t : t = Add(NothingSplit, 1)
  OBVIOUS
<1>cs. PICK cs : cs = Append(<<>>, <<1>>)
  OBVIOUS
<1>1. ~IsFull(<<>>, 0, 1)
  BY DEF IsFull
<1>2. t.done = <<>> /\ t.current = Append(<<>>, 1) /\ t.tokens = 0 + EstTokens(1)
  BY <1>t, <1>1 DEF Add, NothingSplit
<1>3. Append(<<>>, 1) = <<1>> /\ Len(<<1>>) = 1 /\ <<1>>[1] = 1 /\ <<1>> \in Seq(Texts)
  OBVIOUS
<1>4. t.tokens = TokensOf(<<1>>)
  <2>1. EstTokens(1) \in Nat
    BY TokensTyped
  <2>2. TokensOf(<<1>>) = EstTokens(1)
    BY <1>3, TokensAdd
  <2> QED BY <1>2, <2>1, <2>2
<1>5. Len(cs) = 1 /\ cs[1] = <<1>>
  BY <1>cs
<1>6. Consecutive(<<1>>) /\ Holds(<<1>>, 1) /\ FitsLimits(<<1>>)
  BY <1>3 DEF Consecutive, Holds, FitsLimits
<1>7. Laid(cs, 1)
  <2>1. cs[1][1] = 1 /\ Len(cs[1]) = 1 /\ \A i \in 1..Len(cs) : i = 1
    BY <1>3, <1>5
  <2>2. \A i \in 1..Len(cs) : Consecutive(cs[i])
    BY <1>5, <1>6, <2>1
  <2>3. \A t1 \in 1..1 : \E i \in 1..Len(cs) : Holds(cs[i], t1)
    BY <1>5, <1>6
  <2>4. \A i \in 1..(Len(cs) - 1) : FALSE
    BY <1>5
  <2> QED BY <1>5, <2>1, <2>2, <2>3, <2>4 DEF Laid
<1>8. WithinLimits(cs)
  <2>1. (\A i \in 1..Len(cs) : i = 1) /\ \A i \in 1..(Len(cs) - 1) : FALSE
    BY <1>5
  <2> QED BY <1>5, <1>6, <2>1 DEF WithinLimits
<1>9. Append(t.done, t.current) = cs
  BY <1>2, <1>3, <1>cs
<1> QED BY <1>2, <1>3, <1>4, <1>7, <1>8, <1>9, <1>t DEF SplitUpTo

\* After each text the batches are as they should be.
LEMMA SplitLaid ==
  ASSUME length \in [Texts -> Lengths]
  PROVE  \A n \in Texts : SplitUpTo(Split[n], n)
<1> DEFINE Bad == {n \in Texts : ~SplitUpTo(Split[n], n)}
<1>1. Count \in Nat /\ Texts = 1..Count
  BY EmbedAssumption DEF Texts
<1>2. \A n \in Texts : n \in Nat /\ n # 0 /\ n \in 0..Count /\ n - 1 \in 0..Count
  BY <1>1
<1>3. ASSUME NEW n \in Texts, ~SplitUpTo(Split[n], n)
      PROVE  n # 0 /\ n - 1 \in Texts /\ ~SplitUpTo(Split[n - 1], n - 1)
  <2>1. Split[n] = Add(Split[n - 1], n) /\ Split[n - 1] \in SplitStates
    BY <1>2, SplitAdds
  <2>2. n # 1
    <3> SUFFICES ASSUME n = 1 PROVE FALSE
      OBVIOUS
    <3>1. Split[1] = Add(NothingSplit, 1)
      BY <2>1, SplitAdds
    <3> QED BY <1>3, <3>1, FirstText
  <2>3. n - 1 \in Texts
    BY <1>1, <2>2
  <2>4. SplitUpTo(Split[n - 1], n - 1) => SplitUpTo(Split[n], n)
    BY <2>1, EndsBatch, FillsBatch
  <2> QED BY <1>2, <1>3, <2>3, <2>4
<1>4. \A n \in Bad : n # 0 /\ n - 1 \in Bad
  BY <1>3
<1>5. Bad \subseteq Nat
  BY <1>2
<1> HIDE DEF Bad
<1>6. Bad = {}
  BY <1>4, <1>5, NoLeastBad
<1> QED BY <1>6 DEF Bad

\* How many texts come before a batch is told by the text it begins with.
LEMMA OffsetTold ==
  ASSUME batches \in Seq(Seq(Texts)), Laid(batches, Count)
  PROVE  \A i \in 1..Len(batches) : Offset(i) = batches[i][1] - 1
<1> DEFINE w == [j \in 1..Len(batches) |-> Len(batches[j])]
<1>1. w \in Seq(Nat) /\ Len(w) = Len(batches) /\ Len(batches) \in Nat
      /\ \A j \in 1..Len(batches) : w[j] = Len(batches[j]) /\ w[j] \in Nat
  OBVIOUS
<1>2. \A i \in 1..Len(batches) : Offset(i) = Sums(w)[i - 1]
  BY DEF Offset
<1> HIDE DEF w
<1>3. /\ Sums(w)[0] = 0
      /\ \A j \in 1..Len(batches) : Sums(w)[j] = Sums(w)[j - 1] + Len(batches[j])
  BY <1>1, SumsAdd
<1> DEFINE Bad == {i \in 1..Len(batches) : Offset(i) # batches[i][1] - 1}
<1>4. ASSUME NEW i \in 1..Len(batches), Offset(i) # batches[i][1] - 1
      PROVE  i # 0 /\ i - 1 \in 1..Len(batches) /\ Offset(i - 1) # batches[i - 1][1] - 1
  <2>1. batches[1][1] = 1
    BY DEF Laid
  <2>2. i # 1
    <3> SUFFICES ASSUME i = 1 PROVE FALSE
      OBVIOUS
    <3>1. Offset(1) = Sums(w)[1 - 1] /\ 1 - 1 = 0
      BY <1>2
    <3> QED BY <1>3, <1>4, <2>1, <3>1
  <2>3. i - 1 \in 1..Len(batches) /\ i - 1 \in 1..(Len(batches) - 1) /\ (i - 1) + 1 = i
    BY <1>1, <2>2
  <2>4. batches[i][1] = batches[i - 1][1] + Len(batches[i - 1])
    BY <2>3 DEF Laid
  <2>5. batches[i - 1][1] \in Int
    <3>a. \A e \in 1..Len(batches) : Consecutive(batches[e])
      BY DEF Laid
    <3>b. \A e \in 1..Len(batches) : batches[e] \in Seq(Texts)
      OBVIOUS
    <3>1. Consecutive(batches[i - 1]) /\ batches[i - 1] \in Seq(Texts)
      BY <2>3, <3>a, <3>b
    <3>2. batches[i - 1][1] \in Texts
      BY <3>1 DEF Consecutive
    <3> QED BY <3>2 DEF Texts
  <2>6. Offset(i) = Sums(w)[i - 1] /\ Offset(i - 1) = Sums(w)[(i - 1) - 1]
    BY <1>2, <2>3
  <2>7. Sums(w)[i - 1] = Sums(w)[(i - 1) - 1] + Len(batches[i - 1])
    BY <1>3, <2>3
  <2>8. Len(batches[i - 1]) \in Nat
    BY <1>1, <2>3
  <2> QED BY <1>4, <2>3, <2>4, <2>5, <2>6, <2>7, <2>8
<1>5. Bad \subseteq Nat /\ \A i \in Bad : i # 0 /\ i - 1 \in Bad
  BY <1>4
<1> HIDE DEF Bad
<1>6. Bad = {}
  BY <1>5, NoLeastBad
<1> QED BY <1>6 DEF Bad

\* What grows by steps is at least one step further on.
LEMMA StepsApart ==
  ASSUME NEW n \in Nat, NEW p \in [1..n -> Nat], NEW l \in [1..n -> Nat],
         \A h \in 1..(n - 1) : p[h + 1] = p[h] + l[h],
         NEW i \in 1..n, NEW k \in 1..n, i < k
  PROVE  p[i] + l[i] <= p[k]
<1>1. PICK q \in Nat : q = p[i] + l[i]
  OBVIOUS
<1> DEFINE Bad == {h \in (i + 1)..n : ~(q <= p[h])}
<1>2. ASSUME NEW h \in (i + 1)..n, ~(q <= p[h])
      PROVE  h # 0 /\ h - 1 \in (i + 1)..n /\ ~(q <= p[h - 1])
  <2>1. h - 1 \in 1..(n - 1) /\ (h - 1) + 1 = h /\ h - 1 \in 1..n
    OBVIOUS
  <2>2. PICK x \in Nat, y \in Nat, z \in Nat :
             /\ x = p[h] /\ y = p[h - 1] /\ z = l[h - 1] /\ x = y + z
    <3>1. p[h] = p[h - 1] + l[h - 1] /\ p[h - 1] \in Nat /\ l[h - 1] \in Nat
      BY <2>1
    <3>2. p[h] \in Nat
      BY <3>1
    <3> QED BY <3>1, <3>2
  <2>3. ~(q <= x)
    BY <1>2, <2>2
  <2>4. h - 1 # i
    <3> SUFFICES ASSUME h - 1 = i PROVE FALSE
      OBVIOUS
    <3>1. q = y + z
      BY <1>1, <2>2
    <3> QED BY <2>2, <2>3, <3>1
  <2>5. ~(q <= y)
    BY <2>2, <2>3
  <2>6. ~(q <= p[h - 1])
    BY <2>2, <2>5
  <2>7. h # 0 /\ h - 1 \in (i + 1)..n
    BY <2>1, <2>4
  <2> QED BY <2>6, <2>7
<1>3. Bad \subseteq Nat /\ \A h \in Bad : h # 0 /\ h - 1 \in Bad
  BY <1>2
<1> HIDE DEF Bad
<1>4. Bad = {}
  BY <1>3, NoLeastBad
<1>5. k \in (i + 1)..n /\ p[k] \in Nat
  OBVIOUS
<1> QED BY <1>1, <1>4, <1>5 DEF Bad

\* No text is in two batches.
LEMMA BatchesApart ==
  ASSUME NEW bs \in Seq(Seq(Texts)), Laid(bs, Count),
         NEW i \in 1..Len(bs), NEW k \in 1..Len(bs), i < k
  PROVE  bs[i][1] + Len(bs[i]) <= bs[k][1]
<1> DEFINE p == [h \in 1..Len(bs) |-> bs[h][1]]
           l == [h \in 1..Len(bs) |-> Len(bs[h])]
<1>1. ASSUME NEW h \in 1..Len(bs) PROVE bs[h][1] \in Nat /\ Len(bs[h]) \in Nat
  <2>1. Consecutive(bs[h]) /\ bs[h] \in Seq(Texts)
    BY DEF Laid
  <2>2. bs[h][1] \in Texts
    BY <2>1 DEF Consecutive
  <2> QED BY <2>1, <2>2 DEF Texts
<1>2. p \in [1..Len(bs) -> Nat] /\ l \in [1..Len(bs) -> Nat] /\ Len(bs) \in Nat
  BY <1>1
<1>3. ASSUME NEW h \in 1..(Len(bs) - 1) PROVE p[h + 1] = p[h] + l[h]
  <2>1. h \in 1..Len(bs) /\ h + 1 \in 1..Len(bs)
    OBVIOUS
  <2> QED BY <2>1 DEF Laid
<1>4. p[i] = bs[i][1] /\ l[i] = Len(bs[i]) /\ p[k] = bs[k][1]
  OBVIOUS
<1> HIDE DEF p, l
<1>5. p[i] + l[i] <= p[k]
  BY <1>2, <1>3, StepsApart
<1> QED BY <1>4, <1>5

(***************************************************************************)
(* The texts lie in the batches in order, within the limits.               *)
(***************************************************************************)
Batched ==
  /\ length \in [Texts -> Lengths]
  /\ batches \in Seq(Seq(Texts))
  /\ Laid(batches, Count) /\ WithinLimits(batches)

\* splitBatches makes batches of that kind.
LEMMA SplitMakes == Init => Batched
<1> SUFFICES ASSUME Init PROVE Batched
  OBVIOUS
<1>1. length \in [Texts -> Lengths] /\ batches = Append(Split[Count].done, Split[Count].current)
  BY DEF Init, SplitBatches
<1>2. Count \in Texts /\ Count \in 0..Count
  BY EmbedAssumption DEF Texts
<1>3. SplitUpTo(Split[Count], Count) /\ Split[Count] \in SplitStates
  BY <1>1, <1>2, SplitLaid, SplitAdds
<1>4. Split[Count].done \in Seq(Seq(Texts)) /\ Split[Count].current \in Seq(Texts)
  BY <1>3 DEF SplitStates
<1>5. batches \in Seq(Seq(Texts))
  BY <1>1, <1>4, Appended
<1> QED BY <1>1, <1>3, <1>5 DEF Batched, SplitUpTo

\* No step touches texts or batches.
LEMMA BatchesStay == [Next]_vars => UNCHANGED <<length, batches>>
<1> SUFFICES ASSUME [Next]_vars PROVE UNCHANGED <<length, batches>>
  OBVIOUS
<1>1. CASE CancelContext
  BY <1>1 DEF CancelContext, embedVars
<1>2. CASE CloseResults
  BY <1>2 DEF CloseResults
<1>3. CASE CallerStep
  BY <1>3 DEF CallerStep, Receive, ReturnOrdered
<1>4. ASSUME NEW i \in Texts, WorkerStep(i) PROVE UNCHANGED <<length, batches>>
  <2>1. CASE Acquire(i) \/ Call(i) \/ Release(i)
    BY <2>1 DEF Acquire, Call, Release, embedVars
  <2>2. CASE SendNoVectors(i)
    BY <2>2 DEF SendNoVectors, Send
  <2>3. ASSUME NEW omitted, SendVectors(i, omitted) PROVE UNCHANGED <<length, batches>>
    BY <2>3 DEF SendVectors, Send
  <2> QED BY <1>4, <2>1, <2>2, <2>3 DEF WorkerStep
<1>5. CASE UNCHANGED vars
  BY <1>5 DEF vars, embedVars
<1> QED BY <1>1, <1>2, <1>3, <1>4, <1>5 DEF Next

\* So they stay as they should be.
LEMMA BatchedStays == Batched /\ UNCHANGED <<length, batches>> => Batched'
BY DEF Batched, WithinLimits, FitsLimits, IsEnded, TokensOf, EstTokens

\* The batches are the texts in order, each as long as the limits allow.
THEOREM SplitIsSound == Spec => []SplitSound
<1>1. Batched => SplitSound
  <2> SUFFICES ASSUME Batched PROVE SplitSound
    OBVIOUS
  <2>1. \A i \in 1..Len(batches) :
          /\ Offset(i) = batches[i][1] - 1 /\ Consecutive(batches[i])
          /\ batches[i] \in Seq(Texts)
    BY OffsetTold DEF Batched, Laid
  <2>2. ASSUME NEW t \in Texts
        PROVE  \E i \in 1..Len(batches) :
                 t - Offset(i) \in DOMAIN batches[i] /\ batches[i][t - Offset(i)] = t
    <3>1. t \in 1..Count
      BY DEF Texts
    <3>2. PICK i \in 1..Len(batches) : Holds(batches[i], t)
      BY <3>1 DEF Batched, Laid
    <3>3. PICK j \in 1..Len(batches[i]) : batches[i][j] = t
      BY <3>2 DEF Holds
    <3>4. batches[i][1] \in Int /\ DOMAIN batches[i] = 1..Len(batches[i])
      <4>1. batches[i][1] \in Texts
        BY <2>1 DEF Consecutive
      <4> QED BY <2>1, <4>1 DEF Texts
    <3>5. t = batches[i][1] + j - 1
      BY <2>1, <3>3 DEF Consecutive
    <3>6. t - Offset(i) = j
      BY <2>1, <3>4, <3>5
    <3> QED BY <3>3, <3>4, <3>6
  <2>3. ASSUME NEW i \in 1..Len(batches)
        PROVE  /\ Len(batches[i]) \in 1..MaxItems
               /\ TokensOf(batches[i]) <= MaxTokens \/ Len(batches[i]) = 1
    BY DEF Batched, WithinLimits, FitsLimits
  <2>4. ASSUME NEW i \in 1..Len(batches), i < Len(batches)
        PROVE  \/ Len(batches[i]) = MaxItems
               \/ TokensOf(batches[i]) + EstTokens(Head(batches[i + 1])) > MaxTokens
    <3>1. i \in 1..(Len(batches) - 1) /\ i + 1 \in 1..Len(batches)
      BY <2>4 DEF Batched
    <3>2. Head(batches[i + 1]) = batches[i + 1][1]
      BY <2>1, <3>1 DEF Consecutive
    <3> QED BY <3>1, <3>2 DEF Batched, WithinLimits, IsEnded
  <2> QED BY <2>2, <2>3, <2>4 DEF SplitSound
<1> QED BY <1>1, SplitMakes, BatchesStay, BatchedStays, PTL DEF Spec

-----------------------------------------------------------------------------
(* The answer                                                              *)

\* What a goroutine sends: a vector for each text of its batch, or none.
Answers == [index : Texts, ok : BOOLEAN, vectors : Seq(Texts \cup {NoVector})]

Sent(r) ==
  /\ r.index <= Len(batches) /\ worker[r.index] \in {"sent", "done"}
  /\ Len(r.vectors) = Len(batches[r.index])
  /\ \A j \in 1..Len(r.vectors) : r.vectors[j] \in {batches[r.index][j], NoVector}

\* A vector that was given is on its way or in its place.
OnItsWay(i, j, t) ==
  \E k \in 1..Len(results) : results[k].index = i /\ results[k].ok /\ results[k].vectors[j] = t
Placed(i, t) ==
  /\ \A k \in 1..Len(results) : results[k].index # i
  /\ ordered[t] = t \/ outcome = "error"
Kept(t) ==
  \E i \in Texts : /\ i <= Len(batches) /\ worker[i] \in {"sent", "done"}
                   /\ \E j \in 1..Len(batches[i]) :
                        batches[i][j] = t /\ (OnItsWay(i, j, t) \/ Placed(i, t))

(***************************************************************************)
(* Each goroutine sends once, for its own batch; the channel is closed     *)
(* after all have, and the caller ends well only on an empty closed one.   *)
(***************************************************************************)
AnswerInv ==
  /\ worker \in [Texts -> {"blocked", "working", "sent", "done"}]
  /\ \A i \in Texts : worker[i] # "done" => i <= Len(batches)
  /\ results \in Seq(Answers)
  /\ \A k \in 1..Len(results) : Sent(results[k])
  /\ \A k, l \in 1..Len(results) : results[k].index = results[l].index => k = l
  /\ ordered \in [Texts -> Texts \cup {NoVector}]
  /\ \A t \in Texts : ordered[t] \in {t, NoVector}
  /\ given \subseteq Texts /\ \A t \in given : Kept(t)
  /\ outcome \in {"collecting", "ok", "error"}
  /\ closed => \A i \in Texts : worker[i] = "done"
  /\ outcome = "ok" => closed /\ results = <<>>

\* A vector is kept while its goroutine has sent, and what is on its way or in its
\* place stays in one or the other.
LEMMA KeptStays ==
  ASSUME NEW t, Kept(t), batches' = batches,
         \A i \in Texts : worker[i] \in {"sent", "done"} => worker'[i] \in {"sent", "done"},
         \A i \in Texts : i <= Len(batches) /\ worker[i] \in {"sent", "done"} =>
           \A j \in 1..Len(batches[i]) : batches[i][j] = t =>
             /\ OnItsWay(i, j, t) => OnItsWay(i, j, t)' \/ Placed(i, t)'
             /\ Placed(i, t) => Placed(i, t)'
  PROVE  Kept(t)'
<1>1. PICK i \in Texts : /\ i <= Len(batches) /\ worker[i] \in {"sent", "done"}
                         /\ \E j \in 1..Len(batches[i]) :
                              batches[i][j] = t /\ (OnItsWay(i, j, t) \/ Placed(i, t))
  BY DEF Kept
<1>2. PICK j \in 1..Len(batches[i]) : batches[i][j] = t /\ (OnItsWay(i, j, t) \/ Placed(i, t))
  BY <1>1
<1>3. OnItsWay(i, j, t)' \/ Placed(i, t)'
  BY <1>1, <1>2
<1>4. worker'[i] \in {"sent", "done"} /\ i <= Len(batches')
  BY <1>1
<1> QED BY <1>2, <1>3, <1>4 DEF Kept

\* What is in the channel is an answer that was sent.
LEMMA InChannel ==
  ASSUME AnswerInv, NEW k \in 1..Len(results)
  PROVE  Sent(results[k]) /\ results[k] \in Answers /\ results[k].index \in Texts
<1>1. Sent(results[k]) /\ results[k] \in Answers
  BY DEF AnswerInv
<1>2. \A r \in Answers : r.index \in Texts
  BY DEF Answers
<1> QED BY <1>1, <1>2

\* A step that touches none of the variables of the invariant.
LEMMA AnswerFrame ==
  ASSUME AnswerInv, UNCHANGED <<batches, worker, results, ordered, given, outcome, closed>>
  PROVE  AnswerInv'
<1>1. \A t : Kept(t) => Kept(t)'
  BY DEF Kept, OnItsWay, Placed
<1>2. \A k \in 1..Len(results) : Sent(results[k])'
  BY DEF AnswerInv, Sent
<1> QED BY <1>1, <1>2 DEF AnswerInv

\* A goroutine gets its slot or gives it back.
LEMMA WorkerMoves ==
  ASSUME AnswerInv, NEW i \in Texts, NEW w \in {"working", "done"},
         worker' = [worker EXCEPT ![i] = w],
         \/ worker[i] = "blocked" /\ w = "working"
         \/ worker[i] = "sent" /\ w = "done",
         UNCHANGED <<batches, results, ordered, given, outcome, closed>>
  PROVE  AnswerInv'
<1>1. worker' \in [Texts -> {"blocked", "working", "sent", "done"}]
  BY DEF AnswerInv
<1>2. \A g \in Texts : /\ worker[g] \in {"sent", "done"} => worker'[g] \in {"sent", "done"}
                       /\ worker'[g] # "done" => worker[g] # "done"
  BY DEF AnswerInv
<1>3. ASSUME NEW k \in 1..Len(results) PROVE Sent(results[k])'
  <2>1. Sent(results[k]) /\ results[k].index \in Texts
    BY InChannel
  <2> QED BY <1>2, <2>1 DEF Sent
<1>4. ASSUME NEW t \in given PROVE Kept(t)'
  <2>1. Kept(t)
    BY DEF AnswerInv
  <2>2. \A g, j : /\ OnItsWay(g, j, t) => OnItsWay(g, j, t)'
                  /\ Placed(g, t) => Placed(g, t)'
    BY DEF OnItsWay, Placed
  <2> QED BY <1>2, <2>1, <2>2, KeptStays
<1>5. ~closed
  BY DEF AnswerInv
<1>6. \A g \in Texts : worker'[g] # "done" => g <= Len(batches)
  BY <1>2 DEF AnswerInv
<1> QED BY <1>1, <1>3, <1>4, <1>5, <1>6 DEF AnswerInv

\* An answer to a batch, which brings the vectors that are given.
AnswerTo(i, r) ==
  /\ r \in Answers /\ r.index = i /\ Len(r.vectors) = Len(batches[i])
  /\ \A j \in 1..Len(r.vectors) : r.vectors[j] \in {batches[i][j], NoVector}
Brings(i, r, t) ==
  r.ok /\ \E j \in 1..Len(batches[i]) : batches[i][j] = t /\ r.vectors[j] = t

\* A goroutine sends the answer to its batch.
LEMMA AnswerSent ==
  ASSUME Batched, AnswerInv, NEW i \in Texts, NEW r, Send(i, r), AnswerTo(i, r),
         \A t \in given' : t \in given \/ Brings(i, r, t)
  PROVE  AnswerInv'
<1>1. /\ worker[i] = "working" /\ worker' = [worker EXCEPT ![i] = "sent"]
      /\ results' = Append(results, r)
      /\ UNCHANGED <<length, batches, closed, ordered, outcome>>
  BY DEF Send
<1>n. PICK n : n = Len(results)
  OBVIOUS
<1>2. /\ results' \in Seq(Answers) /\ n \in Nat /\ Len(results') = n + 1
      /\ results'[n + 1] = r /\ \A k \in 1..n : results'[k] = results[k]
  <2>1. results \in Seq(Answers)
    BY DEF AnswerInv
  <2>2. r \in Answers
    BY DEF AnswerTo
  <2> QED BY <1>1, <1>n, <2>1, <2>2, Appended
<1>3. /\ worker' \in [Texts -> {"blocked", "working", "sent", "done"}]
      /\ worker'[i] = "sent" /\ \A g \in Texts : g # i => worker'[g] = worker[g]
  BY <1>1 DEF AnswerInv
<1>4. i <= Len(batches)
  BY <1>1 DEF AnswerInv
<1>5. \A k \in 1..n : Sent(results[k]) /\ results[k].index \in Texts /\ results[k].index # i
  <2>1. \A k \in 1..n : Sent(results[k]) /\ results[k].index \in Texts
    BY <1>n, InChannel
  <2> QED BY <1>1, <2>1 DEF Sent
<1>6. ASSUME NEW k \in 1..Len(results') PROVE Sent(results[k])'
  <2>1. CASE k \in 1..n
    <3>1. results'[k] = results[k] /\ Sent(results[k])
      BY <1>2, <1>5, <2>1
    <3>2. worker'[results[k].index] = worker[results[k].index]
      BY <1>3, <1>5, <2>1
    <3> QED BY <1>1, <3>1, <3>2 DEF Sent
  <2>2. CASE k = n + 1
    <3>1. results'[k] = r
      BY <1>2, <2>2
    <3> QED BY <1>1, <1>3, <1>4, <3>1 DEF Sent, AnswerTo
  <2> QED BY <1>2, <2>1, <2>2
<1>7. \A k, l \in 1..Len(results') : results'[k].index = results'[l].index => k = l
  <2>1. \A k \in 1..Len(results') : k \in 1..n \/ k = n + 1
    BY <1>2
  <2>2. \A k \in 1..n : results'[k].index # results'[n + 1].index
    BY <1>2, <1>5 DEF AnswerTo
  <2>3. \A k, l \in 1..n : results'[k].index = results'[l].index => k = l
    BY <1>2, <1>n DEF AnswerInv
  <2> QED BY <2>1, <2>2, <2>3
<1>8. given' \subseteq Texts
  <2>1. i \in 1..Len(batches) /\ batches \in Seq(Seq(Texts))
    BY <1>4 DEF Batched, Texts
  <2>2. batches[i] \in Seq(Texts)
    BY <2>1
  <2>3. \A j \in 1..Len(batches[i]) : batches[i][j] \in Texts
    BY <2>2
  <2> QED BY <2>3 DEF AnswerInv, Brings
<1>9. ASSUME NEW t \in given' PROVE Kept(t)'
  <2>1. CASE t \in given
    <3>1. Kept(t)
      BY <2>1 DEF AnswerInv
    <3>2. ASSUME NEW g \in Texts, g # i, NEW j
          PROVE  /\ OnItsWay(g, j, t) => OnItsWay(g, j, t)'
                 /\ Placed(g, t) => Placed(g, t)'
      <4>1. ASSUME OnItsWay(g, j, t) PROVE OnItsWay(g, j, t)'
        <5>1. PICK k \in 1..n : /\ results[k].index = g /\ results[k].ok
                                /\ results[k].vectors[j] = t
          BY <1>n, <4>1 DEF OnItsWay
        <5>2. k \in 1..Len(results') /\ results'[k] = results[k]
          BY <1>2, <5>1
        <5> QED BY <5>1, <5>2 DEF OnItsWay
      <4>2. ASSUME Placed(g, t) PROVE Placed(g, t)'
        <5>1. \A k \in 1..Len(results') : k \in 1..n \/ k = n + 1
          BY <1>2
        <5>2. \A k \in 1..n : results[k].index # g
          BY <1>n, <4>2 DEF Placed
        <5>3. \A k \in 1..Len(results') : results'[k].index # g
          BY <1>2, <3>2, <5>1, <5>2 DEF AnswerTo
        <5> QED BY <1>1, <4>2, <5>3 DEF Placed
      <4> QED BY <4>1, <4>2
    <3>3. \A g \in Texts : worker[g] \in {"sent", "done"} => /\ g # i
                                                             /\ worker'[g] \in {"sent", "done"}
      BY <1>1, <1>3
    <3> QED BY <1>1, <3>1, <3>2, <3>3, KeptStays
  <2>2. CASE Brings(i, r, t)
    <3>1. PICK j \in 1..Len(batches[i]) : batches[i][j] = t /\ r.vectors[j] = t /\ r.ok
      BY <2>2 DEF Brings
    <3>2. n + 1 \in 1..Len(results') /\ r.index = i
      BY <1>2 DEF AnswerTo
    <3>3. OnItsWay(i, j, t)'
      BY <1>2, <3>1, <3>2 DEF OnItsWay
    <3> QED BY <1>1, <1>3, <1>4, <3>1, <3>3 DEF Kept
  <2> QED BY <2>1, <2>2
<1>10. ~closed
  BY <1>1 DEF AnswerInv
<1>11. \A g \in Texts : worker'[g] # "done" => g <= Len(batches)
  BY <1>3, <1>4 DEF AnswerInv
<1> QED BY <1>1, <1>2, <1>3, <1>6, <1>7, <1>8, <1>9, <1>10, <1>11 DEF AnswerInv

\* The place of a text in its batch, and the text in a place.
LEMMA PlaceInBatch ==
  ASSUME Batched, NEW i \in Texts, i <= Len(batches), NEW t \in Texts
  PROVE  /\ Offset(i) \in Int /\ Len(batches[i]) \in Nat
         /\ \A j \in 1..Len(batches[i]) : batches[i][j] = t <=> t - Offset(i) = j
<1>1. i \in 1..Len(batches)
  BY DEF Batched, Texts
<1>2. Offset(i) = batches[i][1] - 1 /\ Consecutive(batches[i]) /\ batches[i] \in Seq(Texts)
  BY <1>1, OffsetTold DEF Batched, Laid
<1>3. batches[i][1] \in Int
  <2>1. batches[i][1] \in Texts
    BY <1>2 DEF Consecutive
  <2> QED BY <2>1 DEF Texts
<1>4. t \in Int
  BY DEF Texts
<1>5. ASSUME NEW j \in 1..Len(batches[i]) PROVE batches[i][j] = batches[i][1] + j - 1
  BY <1>2 DEF Consecutive
<1>6. Len(batches[i]) \in Nat
  BY <1>2
<1>7. ASSUME NEW j \in 1..Len(batches[i]) PROVE batches[i][j] = t <=> t - Offset(i) = j
  <2>1. PICK x \in Int : x = batches[i][1]
    BY <1>3
  <2>2. Offset(i) = x - 1 /\ batches[i][j] = x + j - 1
    BY <1>2, <1>5, <2>1
  <2>3. j \in Int
    BY <1>6
  <2>4. x + j - 1 = t <=> t - (x - 1) = j
    BY <1>4, <2>1, <2>3
  <2> QED BY <2>2, <2>4
<1> QED BY <1>2, <1>3, <1>6, <1>7

\* A text is in one batch.
LEMMA OneBatch ==
  ASSUME Batched, NEW i \in Texts, NEW g \in Texts, i <= Len(batches), g <= Len(batches),
         NEW j \in 1..Len(batches[i]), NEW h \in 1..Len(batches[g]),
         batches[i][j] = batches[g][h]
  PROVE  i = g
<1>1. /\ batches \in Seq(Seq(Texts)) /\ Laid(batches, Count)
      /\ i \in 1..Len(batches) /\ g \in 1..Len(batches)
  BY DEF Batched, Texts
<1>2. ASSUME NEW a \in 1..Len(batches), NEW b \in 1..Len(batches), a < b,
             NEW c \in 1..Len(batches[a]), NEW d \in 1..Len(batches[b])
      PROVE  batches[a][c] # batches[b][d]
  <2>1. batches[a][1] + Len(batches[a]) <= batches[b][1]
    BY <1>1, <1>2, BatchesApart
  <2>a. \A e \in 1..Len(batches) : Consecutive(batches[e])
    BY <1>1 DEF Laid
  <2>b. \A e \in 1..Len(batches) : batches[e] \in Seq(Texts)
    BY <1>1
  <2>2. /\ Consecutive(batches[a]) /\ batches[a] \in Seq(Texts)
        /\ Consecutive(batches[b]) /\ batches[b] \in Seq(Texts)
    BY <2>a, <2>b
  <2>3. batches[a][c] = batches[a][1] + c - 1 /\ batches[b][d] = batches[b][1] + d - 1
    BY <2>2 DEF Consecutive
  <2>c. \A e \in Seq(Texts) : Len(e) >= 1 => e[1] \in Texts
    OBVIOUS
  <2>d. Len(batches[a]) >= 1 /\ Len(batches[b]) >= 1
    BY <2>2 DEF Consecutive
  <2>4. batches[a][1] \in Texts /\ batches[b][1] \in Texts
    BY <2>2, <2>c, <2>d
  <2>5. PICK x \in Nat, y \in Nat, m \in Nat :
          x = batches[a][1] /\ y = batches[b][1] /\ m = Len(batches[a])
    <3>0. \A x \in Texts : x \in Nat
      BY DEF Texts
    <3>1. batches[a][1] \in Nat /\ batches[b][1] \in Nat
      BY <2>4, <3>0, Zenon
    <3>2. Len(batches[a]) \in Nat
      BY <2>2
    <3> QED BY <3>1, <3>2, Zenon
  <2>6. c \in 1..m /\ d \in Nat \ {0}
    BY <2>2, <2>5
  <2>7. x + m <= y /\ batches[a][c] = x + c - 1 /\ batches[b][d] = y + d - 1
    BY <2>1, <2>3, <2>5
  <2>8. x + c - 1 # y + d - 1
    <3>1. x + m <= y
      BY <2>7
    <3>2. c \in Int /\ 1 <= c /\ c <= m /\ d \in Int /\ 1 <= d
      BY <2>6
    <3> QED BY <3>1, <3>2
  <2> QED BY <2>7, <2>8
<1>3. i \in Nat /\ g \in Nat
  BY DEF Texts
<1>4. ~(i < g) /\ ~(g < i)
  BY <1>1, <1>2
<1> QED BY <1>3, <1>4

\* The caller takes an answer from the channel and puts its vectors in their places.
LEMMA AnswerReceived ==
  ASSUME Batched, AnswerInv, Receive
  PROVE  AnswerInv'
<1>n. PICK n : n = Len(results)
  OBVIOUS
<1>r. PICK r : r = results[1]
  OBVIOUS
<1>1. /\ outcome = "collecting" /\ n \in Nat /\ n >= 1 /\ results' \in Seq(Answers)
      /\ Len(results') = n - 1 /\ \A k \in 1..(n - 1) : results'[k] = results[k + 1]
      /\ Head(results) = r
  <2>1. results \in Seq(Answers) /\ results # <<>> /\ results' = Tail(results)
    BY DEF AnswerInv, Receive
  <2> QED BY <2>1, <1>n, <1>r DEF Receive
<1>2. UNCHANGED <<length, batches, worker, closed, given>>
  BY DEF Receive
<1>3. /\ Sent(r) /\ r \in Answers /\ r.index \in Texts
      /\ \A k \in 1..n : results[k].index = r.index => k = 1
  <2>1. 1 \in 1..Len(results)
    BY <1>1, <1>n
  <2> QED BY <2>1, <1>n, <1>r, InChannel DEF AnswerInv
<1>i. PICK i \in Texts : i = r.index
  BY <1>3
<1>4. \/ /\ r.ok /\ outcome' = outcome
         /\ ordered' = [t \in Texts |-> IF t - Offset(i) \in DOMAIN r.vectors
                                        THEN r.vectors[t - Offset(i)] ELSE ordered[t]]
      \/ outcome' = "error" /\ ordered' = ordered
  BY <1>1, <1>i DEF Receive, PlaceAfter
<1>5. /\ i <= Len(batches) /\ DOMAIN r.vectors = 1..Len(batches[i])
      /\ \A j \in 1..Len(batches[i]) : r.vectors[j] \in {batches[i][j], NoVector}
  BY <1>3, <1>i DEF Sent, Answers
<1>6. ASSUME NEW t \in Texts PROVE ordered'[t] \in {t, NoVector}
  <2>1. ordered[t] \in {t, NoVector}
    BY DEF AnswerInv
  <2>2. ASSUME t - Offset(i) \in DOMAIN r.vectors PROVE r.vectors[t - Offset(i)] \in {t, NoVector}
    <3>1. batches[i][t - Offset(i)] = t
      BY <1>5, <2>2, PlaceInBatch
    <3> QED BY <1>5, <2>2, <3>1
  <2> QED BY <1>4, <2>1, <2>2
<1>7. ordered' \in [Texts -> Texts \cup {NoVector}]
  <2>1. ordered \in [Texts -> Texts \cup {NoVector}]
    BY DEF AnswerInv
  <2>2. \E f : ordered' = [t \in Texts |-> f[t]]
    <3>1. CASE ordered' = ordered
      BY <2>1, <3>1
    <3>2. CASE ordered' = [t \in Texts |-> IF t - Offset(i) \in DOMAIN r.vectors
                                           THEN r.vectors[t - Offset(i)] ELSE ordered[t]]
      BY <3>2
    <3> QED BY <1>4, <3>1, <3>2
  <2> QED BY <1>6, <2>2
<1>8. ASSUME NEW k \in 1..(n - 1)
      PROVE  Sent(results[k])' /\ results'[k] = results[k + 1] /\ k + 1 \in 1..n
  <2>1. k + 1 \in 1..n /\ results'[k] = results[k + 1]
    BY <1>1
  <2>2. Sent(results[k + 1])
    BY <1>n, <2>1, InChannel
  <2> QED BY <1>2, <2>1, <2>2 DEF Sent
<1>9. ASSUME NEW k \in 1..(n - 1), NEW l \in 1..(n - 1), results'[k].index = results'[l].index
      PROVE  k = l
  <2>1. k + 1 = l + 1
    BY <1>8, <1>9, <1>n DEF AnswerInv
  <2> QED BY <1>1, <2>1
<1>10. ASSUME NEW t \in given PROVE Kept(t)'
  <2>1. Kept(t) /\ t \in Texts
    BY DEF AnswerInv
  <2>2. ASSUME NEW g \in Texts, g <= Len(batches),
               NEW j \in 1..Len(batches[g]), batches[g][j] = t, OnItsWay(g, j, t)
        PROVE  OnItsWay(g, j, t)' \/ Placed(g, t)'
    <3>1. PICK k \in 1..n : results[k].index = g /\ results[k].ok /\ results[k].vectors[j] = t
      BY <1>n, <2>2 DEF OnItsWay
    <3>2. CASE k = 1
      <4>1. g = i /\ r.vectors[j] = t
        BY <1>r, <1>i, <3>1, <3>2
      <4>2. ASSUME NEW l \in 1..(n - 1) PROVE results'[l].index # g
        <5>1. l + 1 # 1
          BY <1>1
        <5> QED BY <1>3, <1>8, <1>i, <4>1, <5>1
      <4>3. t - Offset(i) = j /\ j \in DOMAIN r.vectors
        BY <1>5, <2>1, <2>2, <4>1, PlaceInBatch
      <4>4. ordered'[t] = t \/ outcome' = "error"
        BY <1>4, <2>1, <4>1, <4>3
      <4> QED BY <1>1, <4>2, <4>4 DEF Placed
    <3>3. CASE k # 1
      <4>1. PICK l \in 1..(n - 1) : k = l + 1
        BY <1>1, <3>3
      <4>2. results'[l] = results[k] /\ l \in 1..Len(results')
        BY <1>1, <4>1
      <4> QED BY <3>1, <4>2 DEF OnItsWay
    <3> QED BY <3>2, <3>3
  <2>3. ASSUME NEW g \in Texts, g <= Len(batches),
               NEW j \in 1..Len(batches[g]), batches[g][j] = t, Placed(g, t)
        PROVE  Placed(g, t)'
    <3>1. \A k \in 1..n : results[k].index # g
      BY <1>n, <2>3 DEF Placed
    <3>2. g # i
      BY <1>1, <1>i, <1>r, <3>1
    <3>3. t - Offset(i) \notin DOMAIN r.vectors
      <4> SUFFICES ASSUME t - Offset(i) \in 1..Len(batches[i]) PROVE FALSE
        BY <1>5
      <4>1. batches[i][t - Offset(i)] = t
        BY <1>5, <2>1, PlaceInBatch
      <4> QED BY <1>5, <2>3, <3>2, <4>1, OneBatch
    <3>4. ordered[t] = t
      BY <1>1, <2>3 DEF Placed
    <3>5. ordered'[t] = t
      BY <1>4, <2>1, <3>3, <3>4
    <3>6. \A k \in 1..(n - 1) : results'[k].index # g
      BY <1>8, <3>1
    <3> QED BY <1>1, <3>5, <3>6 DEF Placed
  <2> QED BY <1>2, <2>1, <2>2, <2>3, KeptStays
<1>11. outcome' \in {"collecting", "error"}
  BY <1>1, <1>4
<1>12. \A k \in 1..Len(results') : Sent(results[k])'
  BY <1>1, <1>8
<1>13. \A k, l \in 1..Len(results') : results'[k].index = results'[l].index => k = l
  BY <1>1, <1>9
<1>14. /\ worker' \in [Texts -> {"blocked", "working", "sent", "done"}]
       /\ \A g \in Texts : worker'[g] # "done" => g <= Len(batches')
       /\ closed' => \A g \in Texts : worker'[g] = "done"
       /\ given' \subseteq Texts
  <2>1. worker' = worker /\ batches' = batches /\ closed' = closed /\ given' = given
    BY <1>2
  <2> QED BY <2>1, Zenon DEF AnswerInv
<1> QED BY <1>1, <1>2, <1>6, <1>7, <1>10, <1>11, <1>12, <1>13, <1>14 DEF AnswerInv

\* At the start nothing has been sent.
LEMMA NothingSent == Batched /\ Init => AnswerInv
<1> SUFFICES ASSUME Batched, Init PROVE AnswerInv
  OBVIOUS
<1>1. /\ worker = [i \in Texts |-> IF i <= Len(batches) THEN "blocked" ELSE "done"]
      /\ results = <<>> /\ closed = FALSE /\ ordered = [t \in Texts |-> NoVector]
      /\ outcome = "collecting" /\ given = {}
  BY DEF Init
<1>2. worker \in [Texts -> {"blocked", "working", "sent", "done"}]
  BY <1>1
<1>3. \A i \in Texts : worker[i] # "done" => i <= Len(batches)
  BY <1>1
<1>4. results \in Seq(Answers) /\ Len(results) = 0
  BY <1>1
<1> QED BY <1>1, <1>2, <1>3, <1>4 DEF AnswerInv

\* Each step of a goroutine.
LEMMA WorkerAnswers ==
  ASSUME Batched, AnswerInv, NEW i \in Texts, WorkerStep(i)
  PROVE  AnswerInv'
<1>1. ASSUME worker[i] = "working"
      PROVE  /\ i \in 1..Len(batches) /\ Len(batches[i]) \in Nat
             /\ \A j \in 1..Len(batches[i]) : batches[i][j] \in Texts
  <2>1. i \in 1..Len(batches) /\ batches \in Seq(Seq(Texts))
    BY <1>1 DEF AnswerInv, Batched, Texts
  <2>2. batches[i] \in Seq(Texts)
    BY <2>1
  <2> QED BY <2>1, <2>2
<1>2. CASE Acquire(i)
  BY <1>2, WorkerMoves DEF Acquire
<1>3. CASE Call(i)
  BY <1>3, AnswerFrame DEF Call, embedVars
<1>4. CASE SendNoVectors(i)
  <2> DEFINE r == [index |-> i, ok |-> result[i] = 400,
                   vectors |-> [j \in 1..Len(batches[i]) |-> NoVector]]
  <2>1. Send(i, r) /\ given' = given
    BY <1>4 DEF SendNoVectors
  <2>2. worker[i] = "working"
    BY <2>1 DEF Send
  <2>3. [j \in 1..Len(batches[i]) |-> NoVector] \in Seq(Texts \cup {NoVector})
    BY <1>1, <2>2
  <2>4. AnswerTo(i, r)
    BY <1>1, <2>2, <2>3 DEF AnswerTo, Answers
  <2> HIDE DEF r
  <2> QED BY <2>1, <2>4, AnswerSent
<1>5. ASSUME NEW omitted \in SUBSET (1..MaxItems), SendVectors(i, omitted)
      PROVE  AnswerInv'
  <2> DEFINE v == [j \in 1..Len(batches[i]) |-> IF j \in omitted THEN NoVector ELSE batches[i][j]]
             r == [index |-> i, ok |-> TRUE, vectors |-> v]
  <2>1. /\ Send(i, r)
        /\ given' = given \cup {batches[i][j] : j \in (1..Len(batches[i])) \ omitted}
    BY <1>5 DEF SendVectors
  <2>2. worker[i] = "working"
    BY <2>1 DEF Send
  <2>3. v \in Seq(Texts \cup {NoVector}) /\ Len(v) = Len(batches[i])
    BY <1>1, <2>2
  <2>4. \A j \in 1..Len(batches[i]) : v[j] = IF j \in omitted THEN NoVector ELSE batches[i][j]
    OBVIOUS
  <2> HIDE DEF v
  <2>5. AnswerTo(i, r)
    BY <2>3, <2>4 DEF AnswerTo, Answers
  <2>6. ASSUME NEW t \in given', t \notin given PROVE Brings(i, r, t)
    <3>1. PICK j \in 1..Len(batches[i]) : j \notin omitted /\ batches[i][j] = t
      BY <2>1, <2>6
    <3> QED BY <2>4, <3>1 DEF Brings
  <2> HIDE DEF r
  <2> QED BY <2>1, <2>5, <2>6, AnswerSent
<1>6. CASE Release(i)
  BY <1>6, WorkerMoves DEF Release
<1> QED BY <1>2, <1>3, <1>4, <1>5, <1>6 DEF WorkerStep

\* The goroutines have ended and nothing is left to receive.
LEMMA AnswerEnds ==
  ASSUME AnswerInv, CloseResults \/ ReturnOrdered
  PROVE  AnswerInv'
<1>1. UNCHANGED <<batches, worker, results, ordered, given>>
  BY DEF CloseResults, ReturnOrdered
<1>2. \/ closed' /\ outcome' = outcome /\ \A i \in Texts : worker[i] = "done"
      \/ outcome = "collecting" /\ closed /\ results = <<>> /\ closed' = closed /\ outcome' = "ok"
  <2>1. CASE CloseResults
    BY <2>1, Zenon DEF CloseResults
  <2>2. CASE ReturnOrdered
    BY <2>2, Zenon DEF ReturnOrdered
  <2> QED BY <2>1, <2>2
<1>3. ASSUME NEW t \in given PROVE Kept(t)'
  <2>1. Kept(t)
    BY DEF AnswerInv
  <2>2. outcome = "error" => outcome' = "error"
    BY <1>2
  <2>3. \A g, j : /\ OnItsWay(g, j, t) => OnItsWay(g, j, t)'
                  /\ Placed(g, t) => Placed(g, t)'
    BY <1>1, <2>2 DEF OnItsWay, Placed
  <2> QED BY <1>1, <2>1, <2>3, KeptStays
<1>4. \A k \in 1..Len(results) : Sent(results[k])'
  BY <1>1 DEF AnswerInv, Sent
<1>5. /\ outcome' \in {"collecting", "ok", "error"}
      /\ closed' => \A i \in Texts : worker'[i] = "done"
      /\ outcome' = "ok" => closed' /\ results' = <<>>
  <2>1. /\ outcome \in {"collecting", "ok", "error"}
        /\ closed => \A i \in Texts : worker[i] = "done"
        /\ outcome = "ok" => closed /\ results = <<>>
    BY DEF AnswerInv
  <2>2. worker' = worker /\ results' = results
    BY <1>1
  <2> QED BY <1>2, <2>1, <2>2, Zenon
<1> QED BY <1>1, <1>3, <1>4, <1>5 DEF AnswerInv

\* Every step keeps what was given on its way or in its place.
LEMMA AnswersStay == Batched /\ AnswerInv /\ [Next]_vars => AnswerInv'
<1> SUFFICES ASSUME Batched, AnswerInv, [Next]_vars PROVE AnswerInv'
  OBVIOUS
<1>1. CASE CancelContext
  BY <1>1, AnswerFrame DEF CancelContext, embedVars
<1>2. CASE CloseResults
  BY <1>2, AnswerEnds
<1>3. CASE CallerStep
  BY <1>3, AnswerEnds, AnswerReceived DEF CallerStep
<1>4. CASE \E i \in Texts : WorkerStep(i)
  BY <1>4, WorkerAnswers
<1>5. CASE UNCHANGED vars
  BY <1>5, AnswerFrame DEF vars, embedVars
<1> QED BY <1>1, <1>2, <1>3, <1>4, <1>5 DEF Next

\* A vector the API has given is in its place in the answer.
THEOREM VectorsAreKept == Spec => []NothingLost
<1>1. AnswerInv => NothingLost
  <2> SUFFICES ASSUME AnswerInv, outcome = "ok", NEW t \in given PROVE ordered[t] = t
    BY DEF NothingLost
  <2>1. Kept(t) /\ results = <<>>
    BY DEF AnswerInv
  <2>2. \A i, j : ~OnItsWay(i, j, t)
    BY <2>1 DEF OnItsWay
  <2>3. \E i : Placed(i, t)
    BY <2>1, <2>2 DEF Kept
  <2> QED BY <2>3 DEF Placed
<1> QED BY <1>1, NothingSent, AnswersStay, SplitMakes, BatchesStay, BatchedStays, PTL DEF Spec

\* What EmbedBatch returns is what EmbeddingPromise allows: one error for all texts, or
\* their vectors in order.
THEOREM KeepsPromise == Spec => Promise!Safe
<1> DEFINE answer == CASE outcome = "collecting" -> <<"pending">>
                       [] outcome = "error" -> <<"error">>
                       [] OTHER -> <<"vectors", ordered>>
<1>1. Init => Promise!Init
  BY DEF Init, Promise!Init
<1>2. ASSUME AnswerInv, [Next]_vars PROVE [Promise!Return]_answer
  <2>1. CASE outcome' = outcome /\ ordered' = ordered
    BY <2>1
  <2>2. CASE Receive
    <3>1. outcome = "collecting" /\ outcome' \in {"collecting", "error"}
      BY <2>2 DEF Receive
    <3>2. CASE outcome' = "error"
      BY <3>1, <3>2 DEF Promise!Return
    <3>3. CASE outcome' = "collecting"
      BY <3>1, <3>3
    <3> QED BY <3>1, <3>2, <3>3
  <2>3. CASE ReturnOrdered
    <3> DEFINE missing == {t \in Texts : ordered[t] = NoVector}
    <3>1. outcome = "collecting" /\ outcome' = "ok" /\ ordered' = ordered
      BY <2>3 DEF ReturnOrdered
    <3>2. ordered = [t \in Texts |-> IF t \in missing THEN NoVector ELSE t]
      BY <1>2 DEF AnswerInv
    <3>3. missing \in SUBSET Texts
      OBVIOUS
    <3> HIDE DEF missing
    <3>4. answer' = <<"vectors", [t \in Texts |-> IF t \in missing THEN NoVector ELSE t]>>
      BY <3>1, <3>2
    <3> QED BY <3>1, <3>3, <3>4 DEF Promise!Return
  <2>4. CASE CancelContext \/ CloseResults \/ UNCHANGED vars
    BY <2>1, <2>4 DEF CancelContext, CloseResults, vars, embedVars
  <2>5. ASSUME NEW i \in Texts, WorkerStep(i) PROVE outcome' = outcome /\ ordered' = ordered
    <3>1. CASE Acquire(i) \/ Call(i) \/ Release(i)
      BY <3>1 DEF Acquire, Call, Release, embedVars
    <3>2. CASE SendNoVectors(i)
      BY <3>2 DEF SendNoVectors, Send
    <3>3. ASSUME NEW omitted, SendVectors(i, omitted)
          PROVE  outcome' = outcome /\ ordered' = ordered
      BY <3>3 DEF SendVectors, Send
    <3> QED BY <2>5, <3>1, <3>2, <3>3 DEF WorkerStep
  <2> QED BY <1>2, <2>1, <2>2, <2>3, <2>4, <2>5 DEF Next, CallerStep
<1> HIDE DEF answer
<1> QED BY <1>1, <1>2, NothingSent, AnswersStay, SplitMakes, BatchesStay, BatchedStays, PTL
     DEF Spec, Promise!Safe, answer
=============================================================================
