----------------------- MODULE CodebaseWatcherProofs -----------------------
(***************************************************************************)
(* Safety of a daemon's work on one codebase, for any files, contents and  *)
(* batches, and any length of the event queue.                             *)
(***************************************************************************)
EXTENDS CodebaseWatcher, TLAPS

-----------------------------------------------------------------------------
(* Type correctness                                                        *)

\* The masks of all files.
Masks == [Files -> SUBSET Ops]

\* No file has an event, and no event is queued.
LEMMA NoEventsTyped == NoEvents \in Masks
BY DEF NoEvents, Masks

\* The queue of a daemon that starts.
LEMMA EmptyQueue == <<>> \in Seq(Files \X Ops) /\ Len(<<>>) <= QueueCap
<1>1. Len(<<>>) = 0
  OBVIOUS
<1>2. QED
  BY <1>1, WatcherAssumption

\* A batch that has done with a file.
LEMMA BatchTyped ==
  ASSUME TypeOK, NEW b \in Batches, NEW f \in Files,
         batch' = [batch EXCEPT ![b][f] = {}]
  PROVE  /\ batch' \in [Batches -> Masks]
         /\ batch'[b] = [batch[b] EXCEPT ![f] = {}]
         /\ \A c \in Batches : c # b => batch'[c] = batch[c]
<1>1. batch[b] \in Masks
  BY DEF TypeOK, Masks
<1>2. [batch[b] EXCEPT ![f] = {}] \in Masks
  BY <1>1 DEF Masks
<1>3. batch' = [batch EXCEPT ![b] = [batch[b] EXCEPT ![f] = {}]]
  BY DEF TypeOK
<1>4. QED
  BY <1>2, <1>3 DEF TypeOK, Masks

\* The event that is received, and those that are left.
LEMMA EventTyped ==
  ASSUME TypeOK, events # <<>>
  PROVE  /\ Head(events)[1] \in Files /\ Head(events)[2] \in Ops
         /\ Tail(events) \in Seq(Files \X Ops) /\ Len(Tail(events)) <= QueueCap
         /\ Head(events) = <<Head(events)[1], Head(events)[2]>>
<1>1. Head(events) \in Files \X Ops
  BY DEF TypeOK
<1>2. Tail(events) \in Seq(Files \X Ops) /\ Len(Tail(events)) = Len(events) - 1
  BY DEF TypeOK
<1>3. Len(events) \in Nat /\ Len(events) <= QueueCap
  BY DEF TypeOK
<1>4. QED
  BY <1>1, <1>2, <1>3, WatcherAssumption

\* Every variable keeps its type: the queue stays within its capacity, and the
\* full pass has reindexMu exactly while it collects and uploads.
THEOREM WatcherTypeCorrect == Spec => []TypeOK
<1> USE WatcherAssumption
<1>1. Init => TypeOK
  <2> SUFFICES ASSUME Init PROVE TypeOK
    OBVIOUS
  <2>1. events = <<>> /\ pending = NoEvents /\ batch = [b \in Batches |-> NoEvents]
    BY DEF Init
  <2>2. events \in Seq(Files \X Ops) /\ Len(events) <= QueueCap
    BY <2>1, EmptyQueue
  <2>3. /\ pending \in [Files -> SUBSET Ops]
        /\ batch \in [Batches -> [Files -> SUBSET Ops]]
    BY <2>1, NoEventsTyped DEF Masks
  <2>4. QED
    BY <2>2, <2>3 DEF Init, TypeOK
<1>2. TypeOK /\ [Next]_vars => TypeOK'
  <2> SUFFICES ASSUME TypeOK, [Next]_vars PROVE TypeOK'
    OBVIOUS
  <2> USE DEF watchVars, passVars
  <2>1. ASSUME NEW f \in Files, NEW v \in Contents \cup {Missing}, Change(f, v)
        PROVE  TypeOK'
    <3>1. events' \in Seq(Files \X Ops) /\ Len(events') <= QueueCap
      <4>1. CASE UNCHANGED events
        BY <4>1 DEF TypeOK
      <4>2. CASE /\ Len(events) < QueueCap
                 /\ events' = Append(events, <<f, IF v = Missing THEN "removed" ELSE "written">>)
        <5>1. <<f, IF v = Missing THEN "removed" ELSE "written">> \in Files \X Ops
          BY DEF Ops
        <5>2. events' \in Seq(Files \X Ops) /\ Len(events') = Len(events) + 1
          BY <4>2, <5>1 DEF TypeOK
        <5>3. Len(events) \in Nat
          BY DEF TypeOK
        <5>4. QED
          BY <4>2, <5>2, <5>3
      <4>3. QED
        BY <2>1, <4>1, <4>2, Zenon DEF Change
    <3>2. faulted' \in SUBSET Files /\ recreated' \in SUBSET Files
      BY <2>1 DEF Change, TypeOK
    <3>3. disk' \in [Files -> Contents \cup {Missing}]
      BY <2>1 DEF Change, TypeOK
    <3>4. UNCHANGED <<watching, pending, batch, passVars, reindexMu, index>>
      BY <2>1 DEF Change
    <3>5. QED
      BY <3>1, <3>2, <3>3, <3>4 DEF TypeOK
  <2>2. CASE RequestPass
    BY <2>2 DEF RequestPass, TypeOK
  <2>3. CASE PassFails
    BY <2>3 DEF PassFails, TypeOK
  <2>4. CASE Restart
    <3>1. events' \in Seq(Files \X Ops) /\ Len(events') <= QueueCap
      BY <2>4, EmptyQueue DEF Restart
    <3>2. /\ pending' \in [Files -> SUBSET Ops]
          /\ batch' \in [Batches -> [Files -> SUBSET Ops]]
      BY <2>4, NoEventsTyped DEF Restart, Masks
    <3>3. QED
      BY <2>4, <3>1, <3>2 DEF Restart, TypeOK
  <2>5. CASE ReceiveEvent
    <3>1. pending' \in [Files -> SUBSET Ops]
      BY <2>5, EventTyped DEF ReceiveEvent, TypeOK
    <3>2. events' \in Seq(Files \X Ops) /\ Len(events') <= QueueCap
      BY <2>5, EventTyped DEF ReceiveEvent
    <3>3. QED
      BY <2>5, <3>1, <3>2 DEF ReceiveEvent, TypeOK
  <2>6. ASSUME NEW b \in Batches, TakeBatch(b) PROVE TypeOK'
    BY <2>6, NoEventsTyped DEF TakeBatch, TypeOK, Masks
  <2>7. ASSUME NEW b \in Batches, LockBatch(b) \/ UnlockBatch(b) PROVE TypeOK'
    BY <2>7 DEF LockBatch, UnlockBatch, TypeOK
  <2>8. ASSUME NEW b \in Batches, NEW f \in Files, ProcessFile(b, f) PROVE TypeOK'
    <3>1. batch' \in [Batches -> [Files -> SUBSET Ops]]
      BY <2>8, BatchTyped DEF ProcessFile, Masks
    <3>2. index' \in [Files -> Contents \cup {Missing}] /\ faulted' \in SUBSET Files
      BY <2>8 DEF ProcessFile, TypeOK
    <3>3. QED
      BY <2>8, <3>1, <3>2 DEF ProcessFile, TypeOK
  <2>9. CASE Walk
    BY <2>9 DEF Walk, TypeOK
  <2>10. CASE CollectOrphans
    <3>1. index' \in [Files -> Contents \cup {Missing}] /\ faulted' \in SUBSET Files
      BY <2>10 DEF CollectOrphans, TypeOK
    <3>2. QED
      BY <2>10, <3>1 DEF CollectOrphans, TypeOK
  <2>11. CASE EndPass
    BY <2>11 DEF EndPass, TypeOK
  <2>12. ASSUME NEW f \in Files, UploadFile(f) PROVE TypeOK'
    <3>1. index' \in [Files -> Contents \cup {Missing}]
      BY <2>12 DEF UploadFile, TypeOK
    <3>2. /\ faulted' \in SUBSET Files /\ recreated' \in SUBSET Files
          /\ walked' \in SUBSET Files
      BY <2>12 DEF UploadFile, TypeOK
    <3>3. QED
      BY <2>12, <3>1, <3>2 DEF UploadFile, TypeOK
  <2>13. CASE UNCHANGED vars
    BY <2>13 DEF vars, TypeOK
  <2>14. QED
    BY <2>1, <2>2, <2>3, <2>4, <2>5, <2>6, <2>7, <2>8, <2>9, <2>10, <2>11, <2>12, <2>13
    DEF Next, Disturbance, BatchStep, PassStep
<1>3. QED
  BY <1>1, <1>2, PTL DEF Spec

-----------------------------------------------------------------------------
(* The invariant of the mirror                                             *)

Clean(f) == f \notin Excluded \cup recreated \cup faulted

\* Nothing on its way removes a file that exists, unless it was written again.
NoStaleRemoval ==
  \A f \in Files \ recreated : disk[f] # Missing => ~Unprocessed(f, "removed")

\* The news of a file that differs from the index is on its way, or the running
\* pass brings it.
WriteReported(f) ==
  disk[f] # Missing /\ index[f] # disk[f] =>
    \/ Unprocessed(f, "written")
    \/ pass = "waiting"
    \/ pass \in {"collecting", "uploading"} /\ f \in walked

RemovalReported(f) ==
  disk[f] = Missing /\ index[f] # Missing =>
    \/ Unprocessed(f, "removed")
    \/ pass = "waiting"
    \/ pass = "collecting" /\ f \notin walked

\* What the collection is about to take away because it came to be after the walk
\* is brought back by an event: batches wait for the pass to end.
CollectedReported(f) ==
  pass = "collecting" /\ f \notin walked /\ disk[f] # Missing => Unprocessed(f, "written")

Reported(f) == WriteReported(f) /\ RemovalReported(f) /\ CollectedReported(f)

MirrorInv ==
  /\ NoStaleRemoval
  /\ \A f \in Files : Clean(f) => Reported(f)

-----------------------------------------------------------------------------
(* Events on their way                                                     *)

\* An event that is received is pending, and loses nothing on the way.
LEMMA ReceiveMoves ==
  ASSUME TypeOK, ReceiveEvent, NEW f \in Files, NEW op
  PROVE  Unprocessed(f, op)' <=> Unprocessed(f, op)
<1> DEFINE e == Head(events)
<1>1. /\ events # <<>> /\ events' = Tail(events) /\ batch' = batch
      /\ pending' = [pending EXCEPT ![e[1]] = @ \cup {e[2]}]
  BY DEF ReceiveEvent
<1>2. e[1] \in Files /\ e = <<e[1], e[2]>>
  BY <1>1, EventTyped
<1>3. op \in pending'[f] <=> op \in pending[f] \/ e = <<f, op>>
  BY <1>1, <1>2 DEF TypeOK
<1>4. (\E i \in DOMAIN events : events[i] = <<f, op>>) <=>
        e = <<f, op>> \/ \E i \in DOMAIN events' : events'[i] = <<f, op>>
  <2>1. /\ Len(events) \in Nat \ {0} /\ DOMAIN events = 1..Len(events)
        /\ DOMAIN events' = 1..(Len(events) - 1)
        /\ \A i \in 1..(Len(events) - 1) : events'[i] = events[i + 1]
        /\ e = events[1]
    BY <1>1 DEF TypeOK
  <2>2. ASSUME NEW i \in DOMAIN events, events[i] = <<f, op>>
        PROVE  e = <<f, op>> \/ \E j \in DOMAIN events' : events'[j] = <<f, op>>
    <3>1. CASE i = 1
      BY <2>1, <2>2, <3>1
    <3>2. CASE i # 1
      <4>1. i - 1 \in 1..(Len(events) - 1) /\ (i - 1) + 1 = i
        BY <2>1, <2>2, <3>2
      <4>2. events'[i - 1] = events[i]
        BY <2>1, <4>1
      <4>3. QED
        BY <2>1, <2>2, <4>1, <4>2
    <3>3. QED
      BY <3>1, <3>2
  <2>3. ASSUME NEW j \in DOMAIN events', events'[j] = <<f, op>>
        PROVE  \E i \in DOMAIN events : events[i] = <<f, op>>
    BY <2>1, <2>3
  <2>4. 1 \in DOMAIN events
    BY <2>1
  <2>5. QED
    BY <2>1, <2>2, <2>3, <2>4
<1>5. QED
  BY <1>1, <1>3, <1>4 DEF Unprocessed

\* A batch that is taken has all that was pending.
LEMMA TakeMoves ==
  ASSUME TypeOK, NEW b \in Batches, TakeBatch(b), NEW f \in Files, NEW op
  PROVE  Unprocessed(f, op)' <=> Unprocessed(f, op)
<1>1. /\ batch[b] = NoEvents /\ batch' = [batch EXCEPT ![b] = pending]
      /\ pending' = NoEvents /\ events' = events
  BY DEF TakeBatch
<1>2. /\ batch'[b] = pending /\ \A c \in Batches : c # b => batch'[c] = batch[c]
      /\ op \notin batch[b][f] /\ op \notin pending'[f]
  BY <1>1 DEF TypeOK, NoEvents
<1>3. QED
  BY <1>1, <1>2 DEF Unprocessed

\* Only the mask of the file at hand is dealt with.
LEMMA ProcessMoves ==
  ASSUME TypeOK, NEW b \in Batches, NEW f \in Files, ProcessFile(b, f),
         NEW g \in Files, NEW op, g # f \/ op \notin batch[b][f]
  PROVE  Unprocessed(g, op)' <=> Unprocessed(g, op)
<1>1. /\ batch' = [batch EXCEPT ![b][f] = {}] /\ pending' = pending /\ events' = events
  BY DEF ProcessFile
<1>2. /\ batch'[b] = [batch[b] EXCEPT ![f] = {}]
      /\ \A c \in Batches : c # b => batch'[c] = batch[c]
  BY <1>1, BatchTyped
<1>3. op \in batch'[b][g] <=> op \in batch[b][g]
  <2>1. batch[b] \in [Files -> SUBSET Ops]
    BY DEF TypeOK
  <2>2. QED
    BY <1>2, <2>1
<1>4. QED
  BY <1>1, <1>2, <1>3 DEF Unprocessed

\* A step that leaves events, masks and batches alone reports nothing and forgets nothing.
LEMMA NothingMoves ==
  ASSUME UNCHANGED <<events, pending, batch>>
  PROVE  \A f, op : Unprocessed(f, op)' <=> Unprocessed(f, op)
BY DEF Unprocessed

\* A change appends its event.
LEMMA AppendMoves ==
  ASSUME TypeOK, NEW f \in Files, NEW op, events' = Append(events, <<f, op>>),
         UNCHANGED <<pending, batch>>
  PROVE  /\ Unprocessed(f, op)'
         /\ \A g, o : Unprocessed(g, o)' <=> Unprocessed(g, o) \/ <<g, o>> = <<f, op>>
<1>1. /\ Len(events) \in Nat /\ DOMAIN events = 1..Len(events)
      /\ DOMAIN events' = 1..(Len(events) + 1)
      /\ \A i \in 1..Len(events) : events'[i] = events[i]
      /\ events'[Len(events) + 1] = <<f, op>>
  BY DEF TypeOK
<1>2. Len(events) + 1 \in DOMAIN events'
      /\ \A i \in DOMAIN events' : i = Len(events) + 1 \/ i \in DOMAIN events
  BY <1>1
<1>3. ASSUME NEW g, NEW o
      PROVE  (\E i \in DOMAIN events' : events'[i] = <<g, o>>) <=>
               (\E i \in DOMAIN events : events[i] = <<g, o>>) \/ <<g, o>> = <<f, op>>
  <2>1. ASSUME NEW i \in DOMAIN events', events'[i] = <<g, o>>
        PROVE  (\E j \in DOMAIN events : events[j] = <<g, o>>) \/ <<g, o>> = <<f, op>>
    BY <1>1, <1>2, <2>1
  <2>2. ASSUME NEW i \in DOMAIN events, events[i] = <<g, o>>
        PROVE  \E j \in DOMAIN events' : events'[j] = <<g, o>>
    BY <1>1, <2>2
  <2>3. QED
    BY <1>1, <1>2, <2>1, <2>2
<1>4. \A g, o : Unprocessed(g, o)' <=> Unprocessed(g, o) \/ <<g, o>> = <<f, op>>
  BY <1>3 DEF Unprocessed
<1>5. QED
  BY <1>4

-----------------------------------------------------------------------------
(* The steps                                                               *)

\* A step that only moves events, or the mutex, keeps the invariant.
LEMMA MirrorFrame ==
  ASSUME MirrorInv, UNCHANGED <<disk, pass, walked, index, recreated, faulted>>,
         \A f \in Files : /\ Unprocessed(f, "written")' <=> Unprocessed(f, "written")
                          /\ Unprocessed(f, "removed")' <=> Unprocessed(f, "removed")
  PROVE  MirrorInv'
<1>1. NoStaleRemoval'
  BY DEF MirrorInv, NoStaleRemoval
<1>2. ASSUME NEW f \in Files, Clean(f)' PROVE Reported(f)'
  <2>1. Clean(f) /\ Reported(f)
    BY <1>2 DEF MirrorInv, Clean
  <2>2. QED
    BY <2>1 DEF Reported, WriteReported, RemovalReported, CollectedReported
<1>3. QED
  BY <1>1, <1>2 DEF MirrorInv

\* A change is reported, or seen by the pass, or remembered as lost.
LEMMA ChangeKeeps ==
  ASSUME TypeOK, MirrorInv,
         NEW f \in Files, NEW v \in Contents \cup {Missing}, Change(f, v)
  PROVE  MirrorInv'
<1> DEFINE op == IF v = Missing THEN "removed" ELSE "written"
<1>1. /\ disk'[f] = v /\ \A g \in Files : g # f => disk'[g] = disk[g]
      /\ UNCHANGED <<pending, batch, pass, walked, index>>
      /\ recreated' = IF v # Missing /\ Unprocessed(f, "removed")
                      THEN recreated \cup {f} ELSE recreated
  BY DEF Change, TypeOK, passVars
<1>2. \/ events' = Append(events, <<f, op>>) /\ faulted' = faulted
      \/ /\ events' = events
         /\ faulted' = IF ~watching /\ PassWillSee(f, v) THEN faulted
                       ELSE faulted \cup {f}
  BY Zenon DEF Change
<1>3. /\ \A g \in Files : g # f =>
           /\ Unprocessed(g, "written")' <=> Unprocessed(g, "written")
           /\ Unprocessed(g, "removed")' <=> Unprocessed(g, "removed")
      /\ Unprocessed(f, "written") => Unprocessed(f, "written")'
      /\ Unprocessed(f, "removed") => Unprocessed(f, "removed")'
      /\ v # Missing => (Unprocessed(f, "removed")' <=> Unprocessed(f, "removed"))
      /\ faulted' = faulted =>
           Unprocessed(f, op)' \/ PassWillSee(f, v) \/ f \in faulted
  <2>1. CASE events' = Append(events, <<f, op>>) /\ faulted' = faulted
    <3>1. /\ Unprocessed(f, op)'
          /\ \A g, o : Unprocessed(g, o)' <=> Unprocessed(g, o) \/ <<g, o>> = <<f, op>>
      BY <1>1, <2>1, AppendMoves
    <3>2. QED
      BY <3>1
  <2>2. CASE /\ events' = events
             /\ faulted' = IF ~watching /\ PassWillSee(f, v) THEN faulted
                           ELSE faulted \cup {f}
    BY <1>1, <2>2, NothingMoves
  <2>3. QED
    BY <1>2, <2>1, <2>2
<1>4. faulted \subseteq faulted' /\ \A g \in faulted' : g = f \/ g \in faulted
  BY <1>2
<1>5. NoStaleRemoval'
  BY <1>1, <1>3 DEF MirrorInv, NoStaleRemoval
<1>6. ASSUME NEW g \in Files, g # f, Clean(g)' PROVE Reported(g)'
  <2>1. Clean(g) /\ Reported(g)
    BY <1>1, <1>4, <1>6 DEF MirrorInv, Clean
  <2>2. QED
    BY <1>1, <1>3, <1>6, <2>1
    DEF Reported, WriteReported, RemovalReported, CollectedReported
<1>7. ASSUME Clean(f)' PROVE Reported(f)'
  <2>1. Clean(f) /\ Reported(f) /\ faulted' = faulted
    BY <1>1, <1>2, <1>4, <1>7 DEF MirrorInv, Clean
  <2>2. Unprocessed(f, op)' \/ PassWillSee(f, v)
    BY <1>3, <2>1 DEF Clean
  <2>3. QED
    BY <1>1, <2>2
    DEF Reported, WriteReported, RemovalReported, CollectedReported, PassWillSee
<1>8. QED
  BY <1>5, <1>6, <1>7 DEF MirrorInv

\* A batch waits for the pass to end; a removal in it is that of a file that is gone.
LEMMA ProcessFileKeeps ==
  ASSUME TypeOK, MirrorInv, NEW b \in Batches, NEW f \in Files, ProcessFile(b, f)
  PROVE  MirrorInv'
<1>1. /\ UNCHANGED <<disk, pass, walked, recreated>> /\ reindexMu = b
      /\ \/ /\ "removed" \in batch[b][f]
            /\ index' = [index EXCEPT ![f] = Missing] /\ faulted' = faulted
         \/ /\ "removed" \notin batch[b][f]
            /\ index' = IF disk[f] = Missing THEN index ELSE [index EXCEPT ![f] = disk[f]]
            /\ faulted' = faulted
         \/ faulted' = faulted \cup {f} /\ index' = index
  BY Zenon DEF ProcessFile, passVars
<1>2. \A g \in Files : g # f => index'[g] = index[g]
  BY <1>1 DEF TypeOK
<1>3. pass # "collecting"
  BY <1>1, WatcherAssumption DEF TypeOK
<1>4. \A g \in Files : g # f =>
         /\ Unprocessed(g, "written")' <=> Unprocessed(g, "written")
         /\ Unprocessed(g, "removed")' <=> Unprocessed(g, "removed")
  BY ProcessMoves
<1>5. Unprocessed(f, "removed")' => Unprocessed(f, "removed")
  <2>1. \A c \in Batches : "removed" \in batch'[c][f] => "removed" \in batch[c][f]
    <3>1. /\ batch'[b] = [batch[b] EXCEPT ![f] = {}] /\ batch[b] \in [Files -> SUBSET Ops]
          /\ \A c \in Batches : c # b => batch'[c] = batch[c]
      BY BatchTyped DEF ProcessFile, TypeOK
    <3>2. QED
      BY <3>1
  <2>2. QED
    BY <2>1 DEF ProcessFile, Unprocessed
<1>6. NoStaleRemoval'
  BY <1>1, <1>4, <1>5 DEF MirrorInv, NoStaleRemoval
<1>7. ASSUME NEW g \in Files, g # f, Clean(g)' PROVE Reported(g)'
  <2>1. Clean(g) /\ Reported(g)
    BY <1>1, <1>7 DEF MirrorInv, Clean
  <2>2. QED
    BY <1>1, <1>2, <1>4, <1>7, <2>1
    DEF Reported, WriteReported, RemovalReported, CollectedReported
<1>8. ASSUME Clean(f)' PROVE Reported(f)'
  <2>1. Clean(f) /\ Reported(f) /\ f \notin recreated
    BY <1>1, <1>8 DEF MirrorInv, Clean
  <2>2. CASE "removed" \in batch[b][f] /\ index' = [index EXCEPT ![f] = Missing]
    <3>1. disk[f] = Missing
      BY <2>1, <2>2 DEF MirrorInv, NoStaleRemoval, Unprocessed
    <3>2. index'[f] = Missing
      BY <2>2 DEF TypeOK
    <3>3. QED
      BY <1>1, <3>1, <3>2 DEF Reported, WriteReported, RemovalReported, CollectedReported
  <2>3. CASE /\ "removed" \notin batch[b][f] /\ disk[f] # Missing
             /\ index' = [index EXCEPT ![f] = disk[f]]
    <3>1. index'[f] = disk[f]
      BY <2>3 DEF TypeOK
    <3>2. QED
      BY <1>1, <1>3, <2>3, <3>1
      DEF Reported, WriteReported, RemovalReported, CollectedReported
  <2>4. CASE "removed" \notin batch[b][f] /\ disk[f] = Missing /\ index' = index
    <3>1. Unprocessed(f, "removed")' <=> Unprocessed(f, "removed")
      BY <2>4, ProcessMoves
    <3>2. QED
      BY <1>1, <2>1, <2>4, <3>1
      DEF Reported, WriteReported, RemovalReported, CollectedReported
  <2>5. faulted' # faulted \cup {f}
    BY <1>8 DEF Clean
  <2>6. QED
    BY <1>1, <2>2, <2>3, <2>4, <2>5
<1>9. QED
  BY <1>6, <1>7, <1>8 DEF MirrorInv

\* The walk has every file that exists, and what it has not is collected.
LEMMA WalkKeeps ==
  ASSUME MirrorInv, Walk
  PROVE  MirrorInv'
<1>1. /\ walked' = {f \in Files \ Excluded : disk[f] # Missing} /\ pass' = "collecting"
      /\ UNCHANGED <<disk, events, pending, batch, index, recreated, faulted>>
  BY DEF Walk, watchVars
<1>2. NoStaleRemoval'
  BY <1>1, NothingMoves DEF MirrorInv, NoStaleRemoval
<1>3. ASSUME NEW f \in Files, Clean(f)' PROVE Reported(f)'
  BY <1>1, <1>3 DEF Clean, Reported, WriteReported, RemovalReported, CollectedReported
<1>4. QED
  BY <1>2, <1>3 DEF MirrorInv

\* A file that the collection takes away is gone, or an event brings it back.
LEMMA CollectOrphansKeeps ==
  ASSUME TypeOK, MirrorInv, CollectOrphans
  PROVE  MirrorInv'
<1>1. /\ pass = "collecting" /\ pass' = "uploading"
      /\ UNCHANGED <<disk, events, pending, batch, walked, recreated>>
      /\ \/ /\ index' = [f \in Files |-> IF f \in walked THEN index[f] ELSE Missing]
            /\ faulted' = faulted
         \/ /\ faulted' = faulted \cup {f \in Files \ walked : index[f] # Missing}
            /\ index' = index
  BY Zenon DEF CollectOrphans, watchVars
<1>2. NoStaleRemoval'
  BY <1>1, NothingMoves DEF MirrorInv, NoStaleRemoval
<1>3. ASSUME NEW f \in Files, Clean(f)' PROVE Reported(f)'
  <2>1. Clean(f) /\ Reported(f)
    BY <1>1, <1>3 DEF MirrorInv, Clean
  <2>2. /\ Unprocessed(f, "written")' <=> Unprocessed(f, "written")
        /\ Unprocessed(f, "removed")' <=> Unprocessed(f, "removed")
    BY <1>1, NothingMoves
  <2>3. f \in walked => index'[f] = index[f]
    BY <1>1
  <2>4. f \notin walked => index'[f] = Missing
    BY <1>1, <1>3 DEF Clean
  <2>5. QED
    BY <1>1, <2>1, <2>2, <2>3, <2>4
    DEF Reported, WriteReported, RemovalReported, CollectedReported
<1>4. QED
  BY <1>2, <1>3 DEF MirrorInv

\* What is uploaded is as on disk, and good again if nothing on its way removes it.
LEMMA UploadFileKeeps ==
  ASSUME TypeOK, MirrorInv, NEW f \in Files, UploadFile(f)
  PROVE  MirrorInv'
<1>1. /\ pass = "uploading" /\ f \in walked /\ walked' = walked \ {f}
      /\ UNCHANGED <<disk, events, pending, batch, pass>>
      /\ \/ /\ disk[f] = Missing /\ UNCHANGED <<index, recreated, faulted>>
         \/ /\ disk[f] # Missing /\ index' = [index EXCEPT ![f] = disk[f]]
            /\ recreated' = recreated \ Repaired({f})
            /\ faulted' = faulted \ Repaired({f})
         \/ faulted' = faulted \cup {f} /\ UNCHANGED <<index, recreated>>
  BY DEF UploadFile, watchVars
<1>2. \A g, op : Unprocessed(g, op)' <=> Unprocessed(g, op)
  BY <1>1, NothingMoves
<1>3. /\ \A g \in Files : g # f => /\ index'[g] = index[g]
                                   /\ g \in recreated' <=> g \in recreated
                                   /\ g \in faulted' <=> g \in faulted
      /\ f \notin recreated' => f \notin recreated \/ ~Unprocessed(f, "removed")
  BY <1>1 DEF TypeOK, Repaired
<1>4. NoStaleRemoval'
  BY <1>1, <1>2, <1>3 DEF MirrorInv, NoStaleRemoval
<1>5. ASSUME NEW g \in Files, g # f, Clean(g)' PROVE Reported(g)'
  <2>1. Clean(g) /\ Reported(g)
    BY <1>3, <1>5 DEF MirrorInv, Clean
  <2>2. QED
    BY <1>1, <1>2, <1>3, <1>5, <2>1
    DEF Reported, WriteReported, RemovalReported, CollectedReported
<1>6. ASSUME Clean(f)' PROVE Reported(f)'
  <2>1. CASE disk[f] = Missing /\ UNCHANGED <<index, recreated, faulted>>
    <3>1. Reported(f)
      BY <1>6, <2>1 DEF MirrorInv, Clean
    <3>2. QED
      BY <1>1, <1>2, <2>1, <3>1
      DEF Reported, WriteReported, RemovalReported, CollectedReported
  <2>2. CASE disk[f] # Missing /\ index' = [index EXCEPT ![f] = disk[f]]
    <3>1. index'[f] = disk[f]
      BY <2>2 DEF TypeOK
    <3>2. QED
      BY <1>1, <2>2, <3>1
      DEF Reported, WriteReported, RemovalReported, CollectedReported
  <2>3. faulted' # faulted \cup {f}
    BY <1>6 DEF Clean
  <2>4. QED
    BY <1>1, <2>1, <2>2, <2>3
<1>7. QED
  BY <1>4, <1>5, <1>6 DEF MirrorInv

\* A pass that is over has uploaded its walk, or lost the rest of it.
LEMMA PassOverKeeps ==
  ASSUME TypeOK, MirrorInv, EndPass \/ PassFails
  PROVE  MirrorInv'
<1>1. /\ pass = "uploading" /\ pass' = "idle"
      /\ UNCHANGED <<disk, events, pending, batch, index, recreated>>
      /\ faulted' = faulted \cup walked
  BY DEF EndPass, PassFails
<1>2. NoStaleRemoval'
  BY <1>1, NothingMoves DEF MirrorInv, NoStaleRemoval
<1>3. ASSUME NEW f \in Files, Clean(f)' PROVE Reported(f)'
  <2>1. Clean(f) /\ Reported(f) /\ f \notin walked
    BY <1>1, <1>3 DEF MirrorInv, Clean
  <2>2. /\ Unprocessed(f, "written")' <=> Unprocessed(f, "written")
        /\ Unprocessed(f, "removed")' <=> Unprocessed(f, "removed")
    BY <1>1, NothingMoves
  <2>3. QED
    BY <1>1, <2>1, <2>2
    DEF Reported, WriteReported, RemovalReported, CollectedReported
<1>4. QED
  BY <1>2, <1>3 DEF MirrorInv

\* A pass that is to come will see everything; a restart only loses events.
LEMMA PassToComeKeeps ==
  ASSUME TypeOK, MirrorInv, RequestPass \/ Restart
  PROVE  MirrorInv'
<1>1. pass' = "waiting" /\ UNCHANGED <<disk, index, recreated, faulted>>
  BY DEF RequestPass, Restart
<1>2. \A f \in Files : Unprocessed(f, "removed")' => Unprocessed(f, "removed")
  <2>1. CASE RequestPass
    BY <2>1, NothingMoves DEF RequestPass, watchVars
  <2>2. CASE Restart
    <3>1. /\ DOMAIN events' = {} /\ pending' = NoEvents
          /\ \A b \in Batches : batch'[b] = NoEvents
      BY <2>2 DEF Restart
    <3>2. QED
      BY <3>1 DEF Unprocessed, NoEvents
  <2>3. QED
    BY <2>1, <2>2
<1>3. NoStaleRemoval'
  BY <1>1, <1>2 DEF MirrorInv, NoStaleRemoval
<1>4. ASSUME NEW f \in Files PROVE Reported(f)'
  BY <1>1 DEF Reported, WriteReported, RemovalReported, CollectedReported
<1>5. QED
  BY <1>3, <1>4 DEF MirrorInv

-----------------------------------------------------------------------------
(* The theorem                                                             *)

\* Whatever has not reached the index is on its way there.
LEMMA MirrorInvariant == Spec => []MirrorInv
<1>1. Init => MirrorInv
  <2> SUFFICES ASSUME Init PROVE MirrorInv
    OBVIOUS
  <2>1. \A f \in Files : \A op : ~Unprocessed(f, op)
    BY DEF Init, Unprocessed, NoEvents
  <2>2. QED
    BY <2>1 DEF Init, MirrorInv, NoStaleRemoval, Reported, WriteReported,
                RemovalReported, CollectedReported
<1>2. TypeOK /\ MirrorInv /\ [Next]_vars => MirrorInv'
  <2> SUFFICES ASSUME TypeOK, MirrorInv, [Next]_vars PROVE MirrorInv'
    OBVIOUS
  <2>1. CASE ReceiveEvent
    BY <2>1, ReceiveMoves, MirrorFrame DEF ReceiveEvent, passVars
  <2>2. ASSUME NEW b \in Batches, TakeBatch(b) PROVE MirrorInv'
    BY <2>2, TakeMoves, MirrorFrame DEF TakeBatch, passVars
  <2>3. ASSUME NEW b \in Batches, LockBatch(b) \/ UnlockBatch(b) PROVE MirrorInv'
    BY <2>3, NothingMoves, MirrorFrame DEF LockBatch, UnlockBatch, watchVars, passVars
  <2>4. CASE UNCHANGED vars
    BY <2>4, NothingMoves, MirrorFrame DEF vars, watchVars, passVars
  <2>5. QED
    BY <2>1, <2>2, <2>3, <2>4, ChangeKeeps, ProcessFileKeeps, WalkKeeps,
       CollectOrphansKeeps, UploadFileKeeps, PassOverKeeps, PassToComeKeeps
    DEF Next, Disturbance, BatchStep, PassStep
<1>3. QED
  BY <1>1, <1>2, WatcherTypeCorrect, PTL DEF Spec

\* A daemon with nothing on its way has told the server exactly what the tree is, but
\* for the files of lost events or requests and those written again before their
\* removal was processed.
THEOREM MirrorsTheTree == Spec => []IndexMirrorsTree
<1>1. MirrorInv => IndexMirrorsTree
  <2> SUFFICES ASSUME MirrorInv, Settled, NEW f \in Files,
                      f \notin Excluded \cup recreated \cup faulted
               PROVE  index[f] = disk[f]
    BY DEF IndexMirrorsTree
  <2>1. \A op : ~Unprocessed(f, op)
    BY DEF Settled, Unprocessed, NoEvents
  <2>2. pass = "idle" /\ Reported(f)
    BY DEF Settled, MirrorInv, Clean
  <2>3. QED
    BY <2>1, <2>2 DEF Reported, WriteReported, RemovalReported
<1>2. QED
  BY <1>1, MirrorInvariant, PTL
=============================================================================
