----------------------------- MODULE EmbedBatch -----------------------------
(***************************************************************************)
(* EmbedBatch of internal/embedding/voyage.go.  The texts are split into   *)
(* batches; a goroutine per batch takes a slot of the semaphore, calls the *)
(* API through httpretry and sends what it got to a channel, from which    *)
(* the caller puts the vectors in order.  It returns at the first error,   *)
(* and the goroutines go on by themselves.                                 *)
(***************************************************************************)
EXTENDS HttpRetry, Sequences, FiniteSets

CONSTANTS Count,        \* texts
          Lengths,      \* how many characters a text may have
          MaxItems,     \* maxBatchSize (128)
          MaxTokens,    \* maxBatchTokens (100000)
          Concurrent,   \* requests at one time (embedding.concurrent)
          NoVector      \* nil

Texts == 1..Count

\* Calls: a batch has at least one text, so there are as many calls of Do as texts at
\* the most.
ASSUME EmbedAssumption ==
  /\ Calls = Texts
  /\ Count \in Nat \ {0} /\ Lengths \subseteq Nat
  /\ MaxItems \in Nat \ {0} /\ MaxTokens \in Nat \ {0} /\ Concurrent \in Nat \ {0}
  /\ NoVector \notin Texts

VARIABLES
  length,     \* characters of each text
  batches,    \* what splitBatches made of them: sequences of texts
  worker,     \* of each goroutine: "blocked", "working", "sent" or "done"
  results,    \* the channel: what was sent and not received, in order
  closed,     \* the channel is closed
  ordered,    \* the vectors in the order of the texts
  outcome,    \* "collecting", "ok" or "error"
  given       \* history: texts the API has given a vector for

embedVars == <<length, batches, worker, results, closed, ordered, outcome, given>>
vars == <<embedVars, retryVars>>

-----------------------------------------------------------------------------
(* Splitting                                                               *)

EstTokens(n) == IF length[n] \div 4 < 1 THEN 1 ELSE length[n] \div 4

\* Mutant: the limit is looked at before the text is counted.
IsFullLate(current, tokens, n) ==
  current # <<>> /\ (Len(current) >= MaxItems \/ tokens > MaxTokens)

IsFull(current, tokens, n) ==
  current # <<>> /\ (Len(current) >= MaxItems \/ tokens + EstTokens(n) > MaxTokens)

\* A text joins the current batch, or ends it and begins the next.
Add(s, n) ==
  IF IsFull(s.current, s.tokens, n)
  THEN [done |-> Append(s.done, s.current), current |-> <<n>>, tokens |-> EstTokens(n)]
  ELSE [s EXCEPT !.current = Append(@, n), !.tokens = @ + EstTokens(n)]

\* The batches after each text.
Split ==
  LET split[n \in 0..Count] ==
        IF n = 0 THEN [done |-> <<>>, current |-> <<>>, tokens |-> 0]
        ELSE Add(split[n - 1], n)
  IN split

SplitBatches == Append(Split[Count].done, Split[Count].current)

\* The sums of the first elements of a sequence of numbers.
Sums(w) ==
  LET sums[j \in 0..Len(w)] == IF j = 0 THEN 0 ELSE sums[j - 1] + w[j]
  IN sums

\* Mutant: all batches are taken for full ones.
OffsetOfFull(i) == (i - 1) * MaxItems

\* How many texts come before a batch.
Offset(i) == Sums([j \in 1..Len(batches) |-> Len(batches[j])])[i - 1]

-----------------------------------------------------------------------------
(* The goroutines                                                          *)

Init ==
  /\ length \in [Texts -> Lengths]
  /\ batches = SplitBatches
  /\ worker = [i \in Texts |-> IF i <= Len(batches) THEN "blocked" ELSE "done"]
  /\ results = <<>> /\ closed = FALSE
  /\ ordered = [t \in Texts |-> NoVector]
  /\ outcome = "collecting" /\ given = {}
  /\ RetryInit

Holding == {i \in Texts : worker[i] \in {"working", "sent"}}

\* Mutant: the goroutine goes ahead without a slot.
AcquireAnyway(i) ==
  /\ worker[i] = "blocked"
  /\ worker' = [worker EXCEPT ![i] = "working"]
  /\ Start(i)
  /\ UNCHANGED <<length, batches, results, closed, ordered, outcome, given>>

Acquire(i) ==
  /\ worker[i] = "blocked"
  /\ Cardinality(Holding) < Concurrent
  /\ worker' = [worker EXCEPT ![i] = "working"]
  /\ Start(i)
  /\ UNCHANGED <<length, batches, results, closed, ordered, outcome, given>>

Call(i) == worker[i] = "working" /\ Attempt(i) /\ UNCHANGED embedVars

\* Mutant: the channel holds one result.
ChannelOfOne == 1

ResultsCap == Len(batches)

Send(i, r) ==
  /\ worker[i] = "working" /\ stage[i] = "returned"
  /\ Len(results) < ResultsCap
  /\ results' = Append(results, r)
  /\ worker' = [worker EXCEPT ![i] = "sent"]
  /\ UNCHANGED <<length, batches, closed, ordered, outcome, retryVars>>

\* An answer has the vectors of the texts that the API did not leave out.
SendVectors(i, omitted) ==
  /\ result[i] = 200
  /\ Send(i, [index |-> i, ok |-> TRUE,
              vectors |-> [j \in 1..Len(batches[i]) |->
                             IF j \in omitted THEN NoVector ELSE batches[i][j]]])
  /\ given' = given \cup {batches[i][j] : j \in (1..Len(batches[i])) \ omitted}

\* Status 400 counts as an answer without vectors; anything else is an error.
SendNoVectors(i) ==
  /\ result[i] # 200
  /\ Send(i, [index |-> i, ok |-> result[i] = 400,
              vectors |-> [j \in 1..Len(batches[i]) |-> NoVector]])
  /\ UNCHANGED given

\* The slot is given back and the goroutine is done.
Release(i) ==
  /\ worker[i] = "sent"
  /\ worker' = [worker EXCEPT ![i] = "done"]
  /\ UNCHANGED <<length, batches, results, closed, ordered, outcome, given, retryVars>>

CloseResults ==
  /\ ~closed /\ \A i \in Texts : worker[i] = "done"
  /\ closed' = TRUE
  /\ UNCHANGED <<length, batches, worker, results, ordered, outcome, given, retryVars>>

-----------------------------------------------------------------------------
(* The caller                                                              *)

\* Mutant: vectors are appended as they come.
AppendAfter(r) == Cardinality({t \in Texts : ordered[t] # NoVector})

PlaceAfter(r) == Offset(r.index)

Receive ==
  /\ outcome = "collecting" /\ results # <<>>
  /\ results' = Tail(results)
  /\ LET r == Head(results)
         at == PlaceAfter(r)
     IN IF r.ok
        THEN /\ ordered' = [t \in Texts |-> IF t - at \in DOMAIN r.vectors
                                            THEN r.vectors[t - at] ELSE ordered[t]]
             /\ UNCHANGED outcome
        ELSE outcome' = "error" /\ UNCHANGED ordered
  /\ UNCHANGED <<length, batches, worker, closed, given, retryVars>>

ReturnOrdered ==
  /\ outcome = "collecting" /\ results = <<>> /\ closed
  /\ outcome' = "ok"
  /\ UNCHANGED <<length, batches, worker, results, closed, ordered, given, retryVars>>

CancelContext == Cancel /\ UNCHANGED embedVars

WorkerStep(i) ==
  \/ Acquire(i) \/ Call(i) \/ SendNoVectors(i) \/ Release(i)
  \/ \E omitted \in SUBSET (1..MaxItems) : SendVectors(i, omitted)

CallerStep == Receive \/ ReturnOrdered

Next == CancelContext \/ CloseResults \/ CallerStep \/ \E i \in Texts : WorkerStep(i)

\* A runnable goroutine runs, a request is answered or times out, a timer fires.
Fairness ==
  /\ \A i \in Texts : WF_vars(WorkerStep(i))
  /\ WF_vars(CloseResults) /\ WF_vars(CallerStep)

Spec == Init /\ [][Next]_vars /\ Fairness

-----------------------------------------------------------------------------
(* What must hold                                                          *)

\* What a batch is counted for.
TokensOf(batch) == Sums([j \in 1..Len(batch) |-> EstTokens(batch[j])])[Len(batch)]

\* The batches are the texts in order, each within both limits unless it is one
\* text, and none could have taken the first text of the next.
SplitSound ==
  /\ \A t \in Texts : \E i \in 1..Len(batches) :
       /\ t - Offset(i) \in DOMAIN batches[i] /\ batches[i][t - Offset(i)] = t
  /\ \A i \in 1..Len(batches) :
       /\ Len(batches[i]) \in 1..MaxItems
       /\ TokensOf(batches[i]) <= MaxTokens \/ Len(batches[i]) = 1
       /\ i < Len(batches) =>
            \/ Len(batches[i]) = MaxItems
            \/ TokensOf(batches[i]) + EstTokens(Head(batches[i + 1])) > MaxTokens

\* No more requests are under way, waiting for their next attempt included, than
\* the configuration allows, whoever has returned meanwhile.
InFlightBounded ==
  Cardinality({i \in Texts : stage[i] \in {"sending", "waiting"}}) <= Concurrent

\* A vector the API has given is in the answer, in its place, in whatever order
\* the batches end and fail.
NothingLost == outcome = "ok" => \A t \in given : ordered[t] = t

\* Every goroutine ends, those included whose caller has returned with the first
\* error and receives no more.
WorkersEnd == <>[](\A i \in Texts : worker[i] = "done")

\* EmbedBatch implements EmbeddingPromise.
Promise ==
  INSTANCE EmbeddingPromise
    WITH answer <- CASE outcome = "collecting" -> <<"pending">>
                     [] outcome = "error" -> <<"error">>
                     [] OTHER -> <<"vectors", ordered>>
ImplementsPromise == Promise!Spec
=============================================================================
