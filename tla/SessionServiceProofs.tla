------------------------ MODULE SessionServiceProofs ------------------------
(***************************************************************************)
(* What the session service keeps for every number of sessions, streams    *)
(* and observations, and for every limit: its types and queues, the        *)
(* counters that bound it, the agreement of records and trackers, and what *)
(* the peer of a stream sees.                                              *)
(***************************************************************************)
EXTENDS SessionService, FiniteSetTheorems, FunctionTheorems, WellFoundedInduction, TLAPS

States  == {"unused", "open", "closed"}
Streams == {"none", "pending", "granted", "refused", "ready"}

Sockets == [state : States, session : SessionIds \cup {None}, since : Nat, stream : Streams,
            delivered : Seq(Nat)]

Operations == Submits \cup [kind : {"create", "reset", "delete", "read"}]
                      \cup [kind : {"subscribe"}, connection : Connections]

\* The retained snapshots ascend and end with the record's own.
Ascending(list) ==
  \A i \in 1 .. Len(list), j \in 1 .. Len(list) : i < j => list[i] < list[j]

Histories ==
  {r \in Records : /\ Len(r.snapshots) \in 1 .. SnapshotLimit /\ Ascending(r.snapshots)
                   /\ r.snapshots[Len(r.snapshots)] = r.revision}

Outcomes ==
  [stage : {"settled"}, ok : BOOLEAN, record : Histories \cup {None}, changed : BOOLEAN]

TypeOK ==
  /\ records \in [SessionIds -> Histories \cup {None}]
  /\ runtimes \in [SessionIds -> Trackers \cup {None}]
  /\ queue \in [SessionIds -> Seq(Operations)]
  /\ call \in [SessionIds -> Outcomes \cup {Idle, Resolved}]
  /\ issued \in Nat
  /\ subscriptions \subseteq SessionIds \X Connections
  /\ sockets \in [Connections -> Sockets]
  /\ usedIds \subseteq SessionIds

\* A tracker is never behind the record.
BehindInv ==
  \A s \in SessionIds :
    records[s] # None /\ runtimes[s] # None => records[s].revision <= runtimes[s].revision

\* slice keeps the last elements.
LEMMA LastOfProperties ==
  ASSUME NEW S, NEW list \in Seq(S), NEW n \in Nat \ {0}
  PROVE  /\ LastOf(list, n) \in Seq(S)
         /\ Len(LastOf(list, n)) = IF Len(list) > n THEN n ELSE Len(list)
         /\ \A i \in 1 .. Len(LastOf(list, n)) :
              LastOf(list, n)[i] = list[i + Len(list) - Len(LastOf(list, n))]
  <1>1. CASE Len(list) > n
    <2> DEFINE last == SubSeq(list, Len(list) - n + 1, Len(list))
    <2>1. /\ last \in Seq(S) /\ Len(last) = n
          /\ \A i \in 1 .. n : last[i] = list[Len(list) - n + 1 + i - 1]
      BY <1>1
    <2>2. LastOf(list, n) = last
      BY <1>1 DEF LastOf
    <2> HIDE DEF last
    <2>3. \A i \in 1 .. n : last[i] = list[i + Len(list) - n]
      <3> TAKE i \in 1 .. n
      <3>1. Len(list) - n + 1 + i - 1 = i + Len(list) - n
        OBVIOUS
      <3> QED BY <2>1, <3>1
    <2> QED BY <1>1, <2>1, <2>2, <2>3
  <1>2. CASE ~(Len(list) > n)
    <2>1. LastOf(list, n) = list
      BY <1>2 DEF LastOf
    <2>2. \A i \in 1 .. Len(list) : i + Len(list) - Len(list) = i
      OBVIOUS
    <2> QED BY <1>2, <2>1, <2>2
  <1> QED BY <1>1, <1>2

\* new is list with x at its end, and only the last of them, at most n.
EndsWith(new, S, list, x, n) ==
  /\ new \in Seq(S) /\ Len(new) \in 1 .. n /\ new[Len(new)] = x
  /\ Len(new) <= Len(list) + 1
  /\ \A i \in 1 .. Len(new) - 1 : new[i] = list[i + Len(list) + 1 - Len(new)]

\* A new snapshot or id at the end of what is retained.
LEMMA RetainedProperties ==
  ASSUME NEW S, NEW list \in Seq(S), NEW x \in S, NEW n \in Nat \ {0}
  PROVE  EndsWith(LastOf(Append(list, x), n), S, list, x, n)
  <1> DEFINE longer == Append(list, x)
             new    == LastOf(longer, n)
  <1>1. /\ longer \in Seq(S) /\ Len(longer) = Len(list) + 1 /\ longer[Len(list) + 1] = x
        /\ \A i \in 1 .. Len(list) : longer[i] = list[i]
    OBVIOUS
  <1> HIDE DEF longer
  <1>2. /\ new \in Seq(S) /\ Len(new) = IF Len(longer) > n THEN n ELSE Len(longer)
        /\ \A i \in 1 .. Len(new) : new[i] = longer[i + Len(longer) - Len(new)]
    BY <1>1, LastOfProperties
  <1> HIDE DEF new
  <1>3. Len(list) \in Nat
    OBVIOUS
  <1>4. Len(new) \in 1 .. n /\ Len(new) <= Len(list) + 1
    BY <1>1, <1>2, <1>3
  <1>5. new[Len(new)] = x
    <2>1. Len(new) + Len(longer) - Len(new) = Len(list) + 1 /\ Len(new) \in 1 .. Len(new)
      BY <1>1, <1>3, <1>4
    <2> QED BY <1>1, <1>2, <2>1
  <1>6. \A i \in 1 .. Len(new) - 1 : new[i] = list[i + Len(list) + 1 - Len(new)]
    <2> TAKE i \in 1 .. Len(new) - 1
    <2>1. /\ i \in 1 .. Len(new)
          /\ i + Len(longer) - Len(new) = i + Len(list) + 1 - Len(new)
          /\ i + Len(longer) - Len(new) \in 1 .. Len(list)
      BY <1>1, <1>2, <1>3, <1>4
    <2> QED BY <1>1, <1>2, <2>1
  <1> QED BY <1>2, <1>4, <1>5, <1>6 DEF new, longer, EndsWith

\* A set of natural numbers has a least one.
LEMMA LeastNatural ==
  ASSUME NEW T, T \subseteq Nat, T # {}
  PROVE  \E x \in T : \A y \in T : x <= y
  <1>1. PICK x \in T : \A y \in T : <<y, x>> \notin OpToRel(<, Nat)
    BY WFMin, NatLessThanWellFounded
  <1>2. \A y \in T : ~(y < x)
    BY <1>1 DEF OpToRel
  <1> QED BY <1>2

-----------------------------------------------------------------------------
\* The parts of ServiceAssumption that the lemmas cite.
LEMMA Limits ==
  /\ SourceRevisions \subseteq Nat /\ MaxOperations \in Nat
  /\ SnapshotLimit \in Nat \ {0} /\ ObservationIdLimit \in Nat \ {0}
  /\ None \notin Trackers /\ None \notin Records
  BY ServiceAssumption

\* The fields of a submission.
LEMMA SubmitFields ==
  ASSUME NEW op \in Submits
  PROVE  op.observationId \in ObservationIds /\ op.sourceRevision \in Nat
  <1>1. op.observationId \in ObservationIds /\ op.sourceRevision \in SourceRevisions
    BY DEF Submits
  <1> QED BY <1>1, Limits

\* What the service makes is well typed and is not None.
LEMMA NewTypes ==
  /\ NewTracker \in Trackers /\ NewRecord \in Histories
  /\ NewTracker.revision = 0 /\ NewRecord.revision = 0
  /\ None \notin Trackers /\ None \notin Histories
  <1>1. /\ <<>> \in Seq(ObservationIds) /\ <<0>> \in Seq(Nat) /\ 0 \in Nat /\ -1 \in Int
        /\ Len(<<0>>) = 1 /\ <<0>>[1] = 0
    OBVIOUS
  <1>2. NewTracker \in Trackers /\ NewRecord \in Records
    BY <1>1 DEF NewTracker, NewRecord, Trackers, Records
  <1>3. NewTracker.revision = 0 /\ NewRecord.revision = 0 /\ NewRecord.snapshots = <<0>>
    BY DEF NewTracker, NewRecord
  <1>4. 1 \in 1 .. SnapshotLimit
    BY Limits
  <1>5. NewRecord \in Histories
    <2>1. Ascending(<<0>>)
      <3>1. \A i \in 1 .. 1, j \in 1 .. 1 : ~(i < j)
        OBVIOUS
      <3> QED BY <1>1, <3>1 DEF Ascending
    <2>2. /\ Len(NewRecord.snapshots) = 1 /\ NewRecord.snapshots[1] = NewRecord.revision
          /\ Ascending(NewRecord.snapshots)
      BY <1>1, <1>3, <2>1

    <2> QED BY <1>2, <1>4, <2>2 DEF Histories
  <1>6. None \notin Histories
    BY Limits DEF Histories
  <1> QED BY <1>2, <1>3, <1>5, <1>6, Limits

\* The tracker after a submission: unchanged, or one revision on.
LEMMA SubmitTypes ==
  ASSUME NEW t \in Trackers, NEW op \in Submits
  PROVE  /\ TrackerSubmit(t, op) \in Trackers
         /\ TrackerSubmit(t, op).revision \in {t.revision, t.revision + 1}
  <1>0. op.observationId \in ObservationIds /\ op.sourceRevision \in Nat
    BY SubmitFields
  <1>1. /\ t.revision + 1 \in Nat /\ t.ids \in Seq(ObservationIds)
        /\ op.observationId \in ObservationIds /\ op.sourceRevision \in Int
    BY <1>0 DEF Trackers
  <1> DEFINE ids == LastOf(Append(t.ids, op.observationId), ObservationIdLimit)
             new == [revision |-> t.revision + 1, ids |-> ids, latest |-> op.sourceRevision]
  <1>2. ids \in Seq(ObservationIds)
    BY <1>1, RetainedProperties, Limits DEF EndsWith
  <1> HIDE DEF ids
  <1>3. new \in Trackers /\ new.revision = t.revision + 1
    BY <1>1, <1>2 DEF Trackers
  <1> HIDE DEF new
  <1>4. TrackerSubmit(t, op) = t \/ TrackerSubmit(t, op) = new
    BY DEF TrackerSubmit, ids, new
  <1> QED BY <1>3, <1>4

\* A newer snapshot at the end of those retained.
LEMMA RetainedHistory ==
  ASSUME NEW r \in Histories, NEW revision \in Nat, r.revision < revision
  PROVE  LET new == Retained(r.snapshots, revision)
         IN  /\ new \in Seq(Nat) /\ Len(new) \in 1 .. SnapshotLimit /\ Ascending(new)
             /\ new[Len(new)] = revision
  <1> DEFINE old == r.snapshots
             new == Retained(old, revision)
             shift == Len(old) + 1 - Len(new)
  <1>1. /\ old \in Seq(Nat) /\ Len(old) \in Nat \ {0} /\ Ascending(old)
        /\ old[Len(old)] = r.revision
    BY Limits DEF Histories, Records
  <1> HIDE DEF old
  <1>2. /\ new \in Seq(Nat) /\ Len(new) \in 1 .. SnapshotLimit /\ new[Len(new)] = revision
        /\ Len(new) <= Len(old) + 1
        /\ \A i \in 1 .. Len(new) - 1 : new[i] = old[i + Len(old) + 1 - Len(new)]
    <2>1. EndsWith(LastOf(Append(old, revision), SnapshotLimit), Nat, old, revision, SnapshotLimit)
      BY <1>1, RetainedProperties, Limits
    <2> QED BY <2>1 DEF Retained, EndsWith
  <1>3. \A i \in 1 .. Len(old) : old[i] \in Nat /\ old[i] <= old[Len(old)]
    BY <1>1 DEF Ascending
  <1> HIDE DEF new
  <1>4. ASSUME NEW i \in 1 .. Len(new), NEW j \in 1 .. Len(new), i < j
        PROVE  new[i] < new[j]
    <2>1. i \in 1 .. Len(new) - 1 /\ i + Len(old) + 1 - Len(new) \in 1 .. Len(old)
      BY <1>1, <1>2, <1>4
    <2>2. new[i] = old[i + Len(old) + 1 - Len(new)]
      BY <1>2, <2>1
    <2>3. CASE j = Len(new)
      <3>1. new[i] \in Nat /\ new[i] <= old[Len(old)]
        BY <1>3, <2>1, <2>2
      <3> QED BY <1>1, <1>2, <2>3, <3>1
    <2>4. CASE j # Len(new)
      <3>1. /\ j \in 1 .. Len(new) - 1 /\ j + Len(old) + 1 - Len(new) \in 1 .. Len(old)
            /\ i + Len(old) + 1 - Len(new) < j + Len(old) + 1 - Len(new)
        BY <1>1, <1>2, <1>4, <2>4
      <3>2. new[j] = old[j + Len(old) + 1 - Len(new)]
        BY <1>2, <3>1
      <3> QED BY <1>1, <2>1, <2>2, <3>1, <3>2 DEF Ascending
    <2> QED BY <2>3, <2>4
  <1>5. Ascending(new)
    BY <1>4 DEF Ascending
  <1> QED BY <1>2, <1>5 DEF new, old

\* The tracker and the record after a reset.
LEMMA ResetTypes ==
  ASSUME NEW t \in Trackers
  PROVE  /\ TrackerReset(t) \in Trackers /\ TrackerReset(t).revision = t.revision + 1
         /\ \A r \in Histories : r.revision < t.revision =>
              ResetRecord(r, t) \in Histories /\ ResetRecord(r, t).revision = t.revision
  <1>1. t.revision \in Nat /\ t.revision + 1 \in Nat
    BY DEF Trackers
  <1>2. -1 \in Int /\ <<>> \in Seq(ObservationIds)
    OBVIOUS
  <1>3. TrackerReset(t) \in Trackers /\ TrackerReset(t).revision = t.revision + 1
    BY <1>1, <1>2 DEF TrackerReset, Trackers
  <1>4. ASSUME NEW r \in Histories, r.revision < t.revision
        PROVE  ResetRecord(r, t) \in Histories /\ ResetRecord(r, t).revision = t.revision
    <2> DEFINE new == Retained(r.snapshots, t.revision)
    <2>1. /\ new \in Seq(Nat) /\ Len(new) \in 1 .. SnapshotLimit /\ Ascending(new)
          /\ new[Len(new)] = t.revision
      BY <1>1, <1>4, RetainedHistory
    <2> HIDE DEF new
    <2>2. ResetRecord(r, t) = [revision |-> t.revision, snapshots |-> new,
                               observationIds |-> <<>>, latest |-> -1]
      BY DEF ResetRecord, new
    <2>3. /\ ResetRecord(r, t) \in Records /\ ResetRecord(r, t).revision = t.revision
          /\ ResetRecord(r, t).snapshots = new
      BY <1>1, <1>2, <2>1, <2>2 DEF Records
    <2> QED BY <2>1, <2>3 DEF Histories
  <1> QED BY <1>3, <1>4

\* The record after an accepted submission.
LEMMA RecordTypes ==
  ASSUME NEW r \in Histories, NEW t \in Trackers, NEW op \in Submits, r.revision < t.revision
  PROVE  SubmitRecord(r, t, op) \in Histories /\ SubmitRecord(r, t, op).revision = t.revision
  <1> DEFINE ids == LastOf(Append(r.observationIds, op.observationId), ObservationIdLimit)
             new == Retained(r.snapshots, t.revision)
  <1>0. op.observationId \in ObservationIds /\ op.sourceRevision \in Nat
    BY SubmitFields
  <1>1. /\ t.revision \in Nat /\ r.observationIds \in Seq(ObservationIds)
        /\ op.observationId \in ObservationIds /\ op.sourceRevision \in Int
    BY <1>0 DEF Trackers, Histories, Records
  <1>2. ids \in Seq(ObservationIds)
    BY <1>1, RetainedProperties, Limits DEF EndsWith
  <1>3. /\ new \in Seq(Nat) /\ Len(new) \in 1 .. SnapshotLimit /\ Ascending(new)
        /\ new[Len(new)] = t.revision
    BY <1>1, RetainedHistory
  <1> HIDE DEF ids, new
  <1>4. SubmitRecord(r, t, op) = [revision |-> t.revision, snapshots |-> new,
                                  observationIds |-> ids, latest |-> op.sourceRevision]
    BY DEF SubmitRecord, new, ids
  <1>5. /\ SubmitRecord(r, t, op) \in Records /\ SubmitRecord(r, t, op).revision = t.revision
        /\ SubmitRecord(r, t, op).snapshots = new
    BY <1>1, <1>2, <1>3, <1>4 DEF Records
  <1> QED BY <1>3, <1>5 DEF Histories

\* Outcomes are well typed.
LEMMA SettledType ==
  ASSUME NEW ok \in BOOLEAN, NEW record \in Histories \cup {None}, NEW changed \in BOOLEAN
  PROVE  Settled(ok, record, changed) \in Outcomes /\ Rejected \in Outcomes
  BY DEF Settled, Rejected, Outcomes

\* An operation at the head of its session's chain.
LEMMA RunningHead ==
  ASSUME TypeOK, NEW s \in SessionIds, NEW kinds, NEW stage, Running(s, kinds, stage)
  PROVE  /\ queue[s] \in Seq(Operations) /\ queue[s] # <<>> /\ Len(queue[s]) \in Nat \ {0}
         /\ Head(queue[s]) = queue[s][1] /\ Head(queue[s]) \in Operations
         /\ Head(queue[s]).kind \in kinds /\ call[s].stage = stage
  BY DEF Running, TypeOK

\* An operation of a kind has the fields of that kind.
LEMMA SubmitOperation ==
  ASSUME NEW op \in Operations
  PROVE  /\ op.kind = "submit" => op \in Submits
         /\ op.kind = "subscribe" => op.connection \in Connections
  BY DEF Operations, Submits

\* The outcome of an operation that has settled.
LEMMA SettledFields ==
  ASSUME TypeOK, NEW s \in SessionIds, call[s].stage = "settled"
  PROVE  /\ call[s] \in Outcomes
         /\ call[s].ok \in BOOLEAN /\ call[s].changed \in BOOLEAN
         /\ call[s].record \in Histories \cup {None}
  <1>1. call[s] \in Outcomes \cup {Idle, Resolved}
    BY DEF TypeOK
  <1> QED BY <1>1 DEF Outcomes, Idle, Resolved

\* What Dequeue and Settle do to the types.
LEMMA DequeueType ==
  ASSUME TypeOK, NEW s \in SessionIds, queue[s] # <<>>, Dequeue(s)
  PROVE  /\ queue' \in [SessionIds -> Seq(Operations)]
         /\ call' \in [SessionIds -> Outcomes \cup {Idle, Resolved}]
         /\ call'[s] = Idle /\ queue'[s] = Tail(queue[s])
         /\ \A r \in SessionIds \ {s} : call'[r] = call[r] /\ queue'[r] = queue[r]
  <1>1. Tail(queue[s]) \in Seq(Operations)
    BY DEF TypeOK
  <1> QED BY <1>1 DEF Dequeue, TypeOK

\* What Settle does to its session's call, and to no other.
LEMMA SettleType ==
  ASSUME TypeOK, NEW s \in SessionIds, NEW outcome \in Outcomes \cup {Resolved},
         Settle(s, outcome)
  PROVE  /\ call' \in [SessionIds -> Outcomes \cup {Idle, Resolved}]
         /\ call'[s] = outcome /\ \A r \in SessionIds \ {s} : call'[r] = call[r]
  BY DEF Settle, TypeOK

\* What Enqueue does to its session's chain, and to no other.
LEMMA EnqueueType ==
  ASSUME TypeOK, NEW s \in SessionIds, NEW op \in Operations, Enqueue(s, op)
  PROVE  /\ queue' \in [SessionIds -> Seq(Operations)]
         /\ issued \in Nat /\ issued' = issued + 1 /\ issued' <= MaxOperations
         /\ queue'[s] = Append(queue[s], op)
         /\ \A r \in SessionIds \ {s} : queue'[r] = queue[r]
  <1>1. Append(queue[s], op) \in Seq(Operations)
    BY DEF TypeOK
  <1> QED BY <1>1, ServiceAssumption DEF Enqueue, TypeOK

-----------------------------------------------------------------------------
\* An operation that has begun is at the head of its session's chain, and what
\* succeeded on a record has one.
ChainInv ==
  \A s \in SessionIds :
    /\ call[s].stage # "idle" => queue[s] # <<>>
    /\ call[s].stage = "resolved" => Head(queue[s]).kind = "create"
    /\ call[s].stage = "settled" /\ call[s].ok
         /\ Head(queue[s]).kind \in {"submit", "reset", "read", "subscribe"}
         => call[s].record \in Histories
    /\ call[s].stage = "settled" /\ call[s].ok /\ Head(queue[s]).kind = "create"
         => records[s] = NewRecord

\* What every call of the store does: the session's operation goes on, its
\* record and its tracker may change, and a tracker neither appears nor goes.
StoreEffect(s) ==
  /\ UNCHANGED <<queue, reservedSessions, subscriberCount, subscriptions, sockets, usedIds, issued>>
  /\ queue[s] # <<>> /\ call[s].stage \in {"idle", "resolved"}
  /\ records' \in [SessionIds -> Histories \cup {None}]
  /\ runtimes' \in [SessionIds -> Trackers \cup {None}]
  /\ call' \in [SessionIds -> Outcomes \cup {Idle, Resolved}]
  /\ \A r \in SessionIds \ {s} :
       records'[r] = records[r] /\ runtimes'[r] = runtimes[r] /\ call'[r] = call[r]
  /\ runtimes'[s] = None <=> runtimes[s] = None
  /\ records'[s] # None /\ runtimes'[s] # None => records'[s].revision <= runtimes'[s].revision
  /\ call'[s].stage \in {"resolved", "settled"}
  /\ call'[s].stage = "resolved" => Head(queue[s]).kind = "create"
  /\ call'[s].stage = "settled" /\ call'[s].ok
       /\ Head(queue[s]).kind \in {"submit", "reset", "read", "subscribe"}
       => call'[s].record \in Histories
  /\ call'[s].stage = "settled" /\ call'[s].ok /\ Head(queue[s]).kind = "create"
       => records'[s] = NewRecord

serviceVars == <<queue, reservedSessions, subscriberCount, subscriptions, sockets, usedIds, issued>>

\* The outcome of an operation in the form StoreEffect needs it.
LEMMA OutcomeEffect ==
  ASSUME TypeOK, NEW s \in SessionIds, queue[s] # <<>>, call[s].stage \in {"idle", "resolved"},
         UNCHANGED serviceVars,
         records' \in [SessionIds -> Histories \cup {None}],
         runtimes' \in [SessionIds -> Trackers \cup {None}],
         \A r \in SessionIds \ {s} : records'[r] = records[r] /\ runtimes'[r] = runtimes[r],
         runtimes'[s] = None <=> runtimes[s] = None,
         records'[s] # None /\ runtimes'[s] # None => records'[s].revision <= runtimes'[s].revision,
         NEW ok \in BOOLEAN, NEW record \in Histories \cup {None}, NEW changed \in BOOLEAN,
         Settle(s, Settled(ok, record, changed)),
         ok /\ Head(queue[s]).kind \in {"submit", "reset", "read", "subscribe"}
           => record \in Histories,
         ok /\ Head(queue[s]).kind = "create" => records'[s] = NewRecord
  PROVE  StoreEffect(s)
  <1>1. Settled(ok, record, changed) \in Outcomes
    BY SettledType
  <1>2. /\ call' \in [SessionIds -> Outcomes \cup {Idle, Resolved}]
        /\ call'[s] = Settled(ok, record, changed)
        /\ \A r \in SessionIds \ {s} : call'[r] = call[r]
    BY <1>1, SettleType
  <1>3. call'[s].stage = "settled" /\ call'[s].ok = ok /\ call'[s].record = record
    BY <1>2 DEF Settled
  <1> QED BY <1>2, <1>3 DEF StoreEffect, serviceVars

\* A rejection has the effect of a call of the store.
LEMMA RejectEffect ==
  ASSUME TypeOK, BehindInv, NEW s \in SessionIds, queue[s] # <<>>,
         call[s].stage \in {"idle", "resolved"},
         UNCHANGED serviceVars, UNCHANGED <<records, runtimes>>, Settle(s, Rejected)
  PROVE  StoreEffect(s)
  <1>1. FALSE \in BOOLEAN /\ None \in Histories \cup {None}
    OBVIOUS
  <1>2. Settle(s, Settled(FALSE, None, FALSE))
    BY DEF Rejected
  <1>3. /\ records' \in [SessionIds -> Histories \cup {None}]
        /\ runtimes' \in [SessionIds -> Trackers \cup {None}]
        /\ records'[s] # None /\ runtimes'[s] # None => records'[s].revision <= runtimes'[s].revision
    BY DEF TypeOK, BehindInv
  <1> QED BY <1>1, <1>2, <1>3, OutcomeEffect

\* store.update with a tracker and a record for the session.
LEMMA UpdateEffect ==
  ASSUME TypeOK, BehindInv, NEW s \in SessionIds, queue[s] # <<>>,
         call[s].stage \in {"idle", "resolved"},
         UNCHANGED serviceVars, Head(queue[s]).kind \in {"submit", "reset"},
         NEW t \in Trackers \cup {None}, t = None <=> runtimes[s] = None,
         t # None /\ runtimes[s] # None => runtimes[s].revision <= t.revision,
         NEW record \in Histories, t # None => record.revision <= t.revision,
         NEW changed \in BOOLEAN, Update(s, t, record, changed)
  PROVE  StoreEffect(s)
  <1>1. PICK fault \in Faults :
          /\ runtimes' = [runtimes EXCEPT ![s] = IF Mutates(fault) THEN t ELSE @]
          /\ records' = [records EXCEPT ![s] = IF Effective(fault) THEN record ELSE @]
          /\ Settle(s, Settled(Acknowledged(fault), record, changed))
    BY DEF Update
  <1>2. /\ records \in [SessionIds -> Histories \cup {None}]
        /\ runtimes \in [SessionIds -> Trackers \cup {None}]
    BY DEF TypeOK
  <1>3. /\ records' \in [SessionIds -> Histories \cup {None}]
        /\ \A r \in SessionIds \ {s} : records'[r] = records[r]
    BY <1>1, <1>2
  <1>4. /\ runtimes' \in [SessionIds -> Trackers \cup {None}]
        /\ \A r \in SessionIds \ {s} : runtimes'[r] = runtimes[r]
        /\ runtimes'[s] = None <=> runtimes[s] = None
    BY <1>1, <1>2
  <1>6. records'[s] # None /\ runtimes'[s] # None => records'[s].revision <= runtimes'[s].revision
    <2>1. /\ records'[s] = IF Effective(fault) THEN record ELSE records[s]
          /\ runtimes'[s] = IF Mutates(fault) THEN t ELSE runtimes[s]
      BY <1>1, <1>2
    <2>2. Effective(fault) => Mutates(fault)
      BY DEF Effective, Mutates
    <2>3. records[s] # None /\ runtimes[s] # None => records[s].revision <= runtimes[s].revision
      BY DEF BehindInv
    <2>4. /\ records[s] # None => records[s].revision \in Nat
          /\ runtimes[s] # None => runtimes[s].revision \in Nat
          /\ t # None => t.revision \in Nat
      BY <1>2 DEF Histories, Records, Trackers
    <2> QED BY <2>1, <2>2, <2>3, <2>4
  <1>5. Acknowledged(fault) \in BOOLEAN /\ record \in Histories \cup {None}
    BY DEF Acknowledged
  <1> QED BY <1>1, <1>3, <1>4, <1>5, <1>6, OutcomeEffect

\* Every call of the store has no more than the effect StoreEffect names.
LEMMA StoreCallsEffect ==
  ASSUME TypeOK, BehindInv, NEW s \in SessionIds,
         \/ ResolveCorpus(s) \/ StoreCreate(s) \/ StoreReset(s)
         \/ StoreSubmit(s) \/ StoreGet(s) \/ StoreDelete(s)
  PROVE  StoreEffect(s)
  <1>1. /\ records \in [SessionIds -> Histories \cup {None}]
        /\ runtimes \in [SessionIds -> Trackers \cup {None}]
        /\ records[s] # None /\ runtimes[s] # None => records[s].revision <= runtimes[s].revision
    BY DEF TypeOK, BehindInv
  <1>0. /\ records[s] # None => records[s].revision \in Nat
        /\ runtimes[s] # None => runtimes[s].revision \in Nat
    BY <1>1 DEF Histories, Records, Trackers
  <1>2. CASE ResolveCorpus(s)
    <2>1. /\ queue[s] # <<>> /\ call[s].stage = "idle" /\ Head(queue[s]).kind = "create"
          /\ UNCHANGED serviceVars /\ UNCHANGED <<records, runtimes>>
      BY <1>2 DEF ResolveCorpus, Running, serviceVars
    <2>2. CASE Settle(s, Resolved)
      <3>1. /\ call' \in [SessionIds -> Outcomes \cup {Idle, Resolved}] /\ call'[s] = Resolved
            /\ \A r \in SessionIds \ {s} : call'[r] = call[r]
        BY <2>2, SettleType
      <3>2. call'[s].stage = "resolved"
        BY <3>1 DEF Resolved
      <3> QED BY <1>1, <2>1, <3>1, <3>2 DEF StoreEffect, serviceVars
    <2>3. CASE Settle(s, Rejected)
      BY <2>1, <2>3, RejectEffect
    <2> QED BY <1>2, <2>2, <2>3 DEF ResolveCorpus
  <1>3. CASE StoreCreate(s)
    <2>1. /\ queue[s] # <<>> /\ call[s].stage = "resolved" /\ Head(queue[s]).kind = "create"
          /\ UNCHANGED serviceVars /\ UNCHANGED runtimes
      BY <1>3 DEF StoreCreate, Running, serviceVars
    <2>2. CASE Settle(s, Rejected) /\ UNCHANGED records
      BY <2>1, <2>2, RejectEffect
    <2>3. ASSUME NEW fault \in Faults, Settle(s, Settled(Acknowledged(fault), NewRecord, TRUE)),
                 records' = [records EXCEPT ![s] = IF Effective(fault) THEN NewRecord ELSE @]
          PROVE  StoreEffect(s)
      <3>1. /\ records' \in [SessionIds -> Histories \cup {None}]
            /\ \A r \in SessionIds \ {s} : records'[r] = records[r]
            /\ records'[s] = IF Effective(fault) THEN NewRecord ELSE records[s]
        BY <1>1, <2>3, NewTypes
      <3>3. records'[s] # None /\ runtimes'[s] # None =>
              records'[s].revision <= runtimes'[s].revision
        BY <1>0, <1>1, <2>1, <3>1, NewTypes
      <3>4. Acknowledged(fault) => records'[s] = NewRecord
        BY <3>1 DEF Acknowledged, Effective
      <3>2. /\ Acknowledged(fault) \in BOOLEAN /\ TRUE \in BOOLEAN
            /\ NewRecord \in Histories \cup {None}
        BY NewTypes DEF Acknowledged
      <3> QED BY <1>1, <2>1, <2>3, <3>1, <3>2, <3>3, <3>4, OutcomeEffect
    <2> QED BY <1>3, <2>2, <2>3 DEF StoreCreate
  <1>4. CASE StoreReset(s)
    <2>1. /\ queue[s] # <<>> /\ call[s].stage = "idle" /\ UNCHANGED serviceVars
          /\ Head(queue[s]).kind \in {"submit", "reset"}
      BY <1>4 DEF StoreReset, Running, serviceVars
    <2>2. CASE RejectUpdate(s)
      BY <2>1, <2>2, RejectEffect DEF RejectUpdate
    <2>3. CASE /\ runtimes[s] # None /\ records[s] # None
               /\ Update(s, TrackerReset(runtimes[s]),
                         ResetRecord(records[s], TrackerReset(runtimes[s])), TRUE)
      <3> DEFINE t      == TrackerReset(runtimes[s])
                 record == ResetRecord(records[s], t)
      <3>1. runtimes[s] \in Trackers /\ records[s] \in Histories
        BY <1>1, <2>3
      <3>2. t \in Trackers /\ t.revision = runtimes[s].revision + 1
        BY <3>1, ResetTypes
      <3> HIDE DEF t
      <3>5. records[s].revision < t.revision /\ runtimes[s].revision <= t.revision
        BY <1>0, <1>1, <2>3, <3>2
      <3>3. record \in Histories /\ record.revision = t.revision /\ t.revision \in Nat
        BY <3>1, <3>2, <3>5, ResetTypes DEF Trackers
      <3> HIDE DEF record
      <3>4. t # None /\ TRUE \in BOOLEAN /\ record.revision <= t.revision
        BY <3>2, <3>3, NewTypes
      <3>6. Update(s, t, record, TRUE)
        BY <2>3 DEF t, record
      <3> QED BY <2>1, <2>3, <3>2, <3>3, <3>4, <3>5, <3>6, UpdateEffect
    <2> QED BY <1>4, <2>2, <2>3 DEF StoreReset
  <1>5. CASE StoreSubmit(s)
    <2> DEFINE op == Head(queue[s])
               t  == TrackerSubmit(runtimes[s], op)
               changed == t.revision # runtimes[s].revision
    <2>1. /\ queue[s] # <<>> /\ call[s].stage = "idle" /\ UNCHANGED serviceVars
          /\ Head(queue[s]).kind \in {"submit", "reset"}
      BY <1>5 DEF StoreSubmit, Running, serviceVars
    <2>2. op \in Submits
      BY <1>5, RunningHead, SubmitOperation DEF StoreSubmit
    <2>3. CASE RejectUpdate(s)
      BY <2>1, <2>3, RejectEffect DEF RejectUpdate
    <2>4. CASE records[s] # None /\ Update(s, runtimes[s], records[s], FALSE)
      <3>1. /\ runtimes[s] \in Trackers \cup {None} /\ records[s] \in Histories /\ FALSE \in BOOLEAN
            /\ runtimes[s] # None => runtimes[s].revision <= runtimes[s].revision
        BY <1>0, <1>1, <2>4
      <3> QED BY <1>1, <2>1, <2>4, <3>1, UpdateEffect
    <2>5. CASE /\ records[s] # None /\ runtimes[s] # None
               /\ Update(s, t, IF changed THEN SubmitRecord(records[s], t, op) ELSE records[s],
                         changed)
      <3> DEFINE record == IF changed THEN SubmitRecord(records[s], t, op) ELSE records[s]
      <3>1. runtimes[s] \in Trackers /\ records[s] \in Histories
        BY <1>1, <2>5
      <3>2. /\ t \in Trackers /\ t # None
            /\ t.revision \in {runtimes[s].revision, runtimes[s].revision + 1}
        BY <2>2, <3>1, SubmitTypes, NewTypes
      <3>4. changed \in BOOLEAN
        OBVIOUS
      <3> HIDE DEF t, op
      <3>3. /\ runtimes[s].revision <= t.revision
            /\ changed => records[s].revision < t.revision
            /\ ~changed => records[s].revision <= t.revision
        BY <1>0, <1>1, <2>5, <3>2
      <3> HIDE DEF changed
      <3>5. record \in Histories /\ record.revision <= t.revision
        <4>1. CASE changed
          <5>1. t.revision \in Nat
            BY <3>2 DEF Trackers
          <5>2. SubmitRecord(records[s], t, op) \in Histories
                /\ SubmitRecord(records[s], t, op).revision = t.revision
            BY <2>2, <3>1, <3>2, <3>3, <4>1, RecordTypes
          <5> QED BY <4>1, <5>1, <5>2
        <4>2. CASE ~changed
          BY <3>1, <3>3, <4>2
        <4> QED BY <4>1, <4>2
      <3>6. Update(s, t, record, changed)
        BY <2>5
      <3> HIDE DEF record
      <3> QED BY <2>1, <2>5, <3>1, <3>2, <3>3, <3>4, <3>5, <3>6, UpdateEffect
    <2> QED BY <1>5, <2>3, <2>4, <2>5 DEF StoreSubmit
  <1>6. CASE StoreGet(s)
    <2>1. /\ queue[s] # <<>> /\ call[s].stage = "idle" /\ UNCHANGED serviceVars
          /\ UNCHANGED <<records, runtimes>> /\ Head(queue[s]).kind \in {"read", "subscribe"}
      BY <1>6 DEF StoreGet, Running, serviceVars
    <2>2. CASE Settle(s, Rejected)
      BY <2>1, <2>2, RejectEffect
    <2>3. CASE Settle(s, Settled(records[s] # None, records[s], FALSE))
      <3>1. /\ (records[s] # None) \in BOOLEAN /\ FALSE \in BOOLEAN
            /\ records[s] \in Histories \cup {None}
        BY <1>1
      <3> QED BY <1>1, <2>1, <2>3, <3>1, OutcomeEffect
    <2> QED BY <1>6, <2>2, <2>3 DEF StoreGet
  <1>7. CASE StoreDelete(s)
    <2>1. /\ queue[s] # <<>> /\ call[s].stage = "idle" /\ UNCHANGED serviceVars
          /\ UNCHANGED runtimes /\ Head(queue[s]).kind = "delete"
      BY <1>7 DEF StoreDelete, Running, serviceVars
    <2>2. PICK fault \in Faults :
            /\ Settle(s, Settled(Acknowledged(fault) /\ records[s] # None, None, TRUE))
            /\ records' = [records EXCEPT ![s] = IF Effective(fault) THEN None ELSE @]
      BY <1>7 DEF StoreDelete
    <2>3. /\ records' \in [SessionIds -> Histories \cup {None}]
          /\ \A r \in SessionIds \ {s} : records'[r] = records[r]
          /\ records'[s] # None /\ runtimes'[s] # None =>
               records'[s].revision <= runtimes'[s].revision
      BY <1>1, <2>1, <2>2
    <2>4. /\ (Acknowledged(fault) /\ records[s] # None) \in BOOLEAN /\ TRUE \in BOOLEAN
          /\ None \in Histories \cup {None}
      OBVIOUS
    <2> QED BY <1>1, <2>1, <2>2, <2>3, <2>4, OutcomeEffect
  <1> QED BY <1>2, <1>3, <1>4, <1>5, <1>6, <1>7

-----------------------------------------------------------------------------
\* The replay is the end of the history that is newer than since.
Replays(list, r, since) ==
  \E n \in 0 .. Len(r.snapshots) :
    /\ \A i \in 1 .. Len(r.snapshots) : r.snapshots[i] > since <=> i > n
    /\ list \in Seq(Nat) /\ Len(list) = Len(r.snapshots) - n
    /\ \A i \in 1 .. Len(list) : list[i] = r.snapshots[n + i]

\* The loop of subscribe finds such an end, since the history ascends.
LEMMA ReplayProperties ==
  ASSUME NEW r \in Histories, NEW since \in Nat
  PROVE  Replays(Replay(r, since), r, since)
  <1> DEFINE list == r.snapshots
             P(n) == \A i \in 1 .. Len(list) : list[i] > since <=> i > n
             T == {i \in 1 .. Len(list) : list[i] > since}
  <1>1. list \in Seq(Nat) /\ Len(list) \in Nat /\ Ascending(list)
    BY DEF Histories, Records
  <1>2. \A i \in 1 .. Len(list) : list[i] \in Nat
    BY <1>1
  <1> HIDE DEF list
  <1>3. \E n \in 0 .. Len(list) : P(n)
    <2>1. CASE T = {}
      <3>1. P(Len(list)) /\ Len(list) \in 0 .. Len(list)
        BY <1>1, <2>1
      <3> HIDE DEF P
      <3> QED BY <3>1
    <2>2. CASE T # {}
      <3>1. T \subseteq Nat
        BY <1>1
      <3>2. PICK k \in T : \A i \in T : k <= i
        <4> HIDE DEF T
        <4> QED BY <2>2, <3>1, LeastNatural
      <3>3. k \in 1 .. Len(list) /\ list[k] > since
        BY <3>2
      <3>4. ASSUME NEW i \in 1 .. Len(list), i > k - 1
            PROVE  list[i] > since
        <4>1. i = k \/ k < i
          BY <1>1, <3>3, <3>4
        <4>2. k < i => list[k] < list[i]
          BY <1>1, <3>3 DEF Ascending
        <4> QED BY <1>2, <3>3, <4>1, <4>2
      <3>5. ASSUME NEW i \in 1 .. Len(list), list[i] > since
            PROVE  i > k - 1
        <4>1. i \in T /\ k \in Nat /\ i \in Nat
          BY <1>1, <3>3, <3>5
        <4> QED BY <3>2, <4>1
      <3>6. k - 1 \in 0 .. Len(list) /\ P(k - 1)
        BY <1>1, <3>3, <3>4, <3>5
      <3> QED BY <3>6
    <2> QED BY <2>1, <2>2
  <1> DEFINE n == CHOOSE m \in 0 .. Len(list) : P(m)
  <1>4. n \in 0 .. Len(list) /\ P(n)
    BY <1>3
  <1>5. Replay(r, since) = SubSeq(list, n + 1, Len(list))
    BY DEF Replay, list
  <1> HIDE DEF n
  <1>6. /\ SubSeq(list, n + 1, Len(list)) \in Seq(Nat)
        /\ Len(SubSeq(list, n + 1, Len(list))) = Len(list) - n
        /\ \A i \in 1 .. Len(list) - n : SubSeq(list, n + 1, Len(list))[i] = list[n + i]
    <2>1. /\ SubSeq(list, n + 1, Len(list)) \in Seq(Nat)
          /\ Len(SubSeq(list, n + 1, Len(list))) = Len(list) - n
      BY <1>1, <1>4
    <2>2. \A i \in 1 .. Len(list) - n : SubSeq(list, n + 1, Len(list))[i] = list[n + 1 + i - 1]
      BY <1>1, <1>4
    <2>3. \A i \in 1 .. Len(list) - n : n + 1 + i - 1 = n + i
      BY <1>1, <1>4
    <2> QED BY <2>1, <2>2, <2>3
  <1> QED BY <1>4, <1>5, <1>6 DEF Replays, list

-----------------------------------------------------------------------------
\* A step leaves the socket of c with this state, stream and deliveries.
BecomesSocket(c, state, stream, delivered) ==
  /\ sockets'[c].state = state /\ sockets'[c].stream = stream
  /\ sockets'[c].delivered = delivered
  /\ sockets'[c].session = sockets[c].session /\ sockets'[c].since = sockets[c].since

\* A step that changes one socket.
LEMMA OneSocket ==
  ASSUME TypeOK, NEW c \in Connections, NEW new \in Sockets,
         sockets' = [sockets EXCEPT ![c] = new]
  PROVE  /\ sockets' \in [Connections -> Sockets] /\ sockets'[c] = new
         /\ \A d \in Connections \ {c} : sockets'[d] = sockets[d]
  <1>1. sockets \in [Connections -> Sockets]
    BY DEF TypeOK
  <1>2. sockets' \in [Connections -> Sockets]
    BY <1>1
  <1>3. sockets'[c] = new
    BY <1>1
  <1>4. \A d \in Connections \ {c} : sockets'[d] = sockets[d]
    BY <1>1
  <1> QED BY <1>2, <1>3, <1>4

\* A socket whose stream and deliveries change, and which may close.
LEMMA SocketStep ==
  ASSUME TypeOK, NEW c \in Connections,
         NEW state \in States, NEW stream \in Streams, NEW delivered \in Seq(Nat),
         \/ sockets' = [sockets EXCEPT ![c].stream = stream, ![c].state = state,
                                       ![c].delivered = delivered]
         \/ /\ state = sockets[c].state
            /\ sockets' = [sockets EXCEPT ![c].stream = stream, ![c].delivered = delivered]
         \/ /\ state = sockets[c].state /\ delivered = sockets[c].delivered
            /\ sockets' = [sockets EXCEPT ![c].stream = stream]
         \/ /\ stream = sockets[c].stream /\ delivered = sockets[c].delivered
            /\ sockets' = [sockets EXCEPT ![c].state = state]
  PROVE  /\ sockets' \in [Connections -> Sockets]
         /\ \A d \in Connections \ {c} : sockets'[d] = sockets[d]
         /\ BecomesSocket(c, state, stream, delivered)
  <1> DEFINE old == sockets[c]
             a == [old EXCEPT !.stream = stream]
             b == [a EXCEPT !.state = state]
             d1 == [b EXCEPT !.delivered = delivered]
             d2 == [a EXCEPT !.delivered = delivered]
             e == [old EXCEPT !.state = state]
             Good(new) == /\ new \in Sockets /\ new.stream = stream /\ new.state = state
                          /\ new.session = old.session /\ new.since = old.since
                          /\ new.delivered = delivered
  <1>1. sockets \in [Connections -> Sockets] /\ old \in Sockets
    BY DEF TypeOK
  <1>2. \E new : Good(new) /\ sockets' = [sockets EXCEPT ![c] = new]
    <2>1. CASE sockets' = [sockets EXCEPT ![c].stream = stream, ![c].state = state,
                                          ![c].delivered = delivered]
      <3>1. sockets' = [sockets EXCEPT ![c] = d1]
        BY <1>1, <2>1
      <3> HIDE DEF old
      <3>2. a \in Sockets /\ a.stream = stream /\ a.session = old.session /\ a.since = old.since
        BY <1>1 DEF Sockets
      <3> HIDE DEF a
      <3>3. /\ b \in Sockets /\ b.stream = stream /\ b.session = old.session
            /\ b.since = old.since /\ b.state = state
        BY <3>2 DEF Sockets
      <3> HIDE DEF b
      <3>4. Good(d1)
        BY <3>3 DEF Sockets
      <3> HIDE DEF Good, d1
      <3> QED BY <3>1, <3>4
    <2>2. CASE /\ state = sockets[c].state
               /\ sockets' = [sockets EXCEPT ![c].stream = stream, ![c].delivered = delivered]
      <3>1. sockets' = [sockets EXCEPT ![c] = d2]
        BY <1>1, <2>2
      <3>0. state = old.state
        BY <2>2
      <3> HIDE DEF old
      <3>2. /\ a \in Sockets /\ a.stream = stream /\ a.session = old.session
            /\ a.since = old.since /\ a.state = old.state
        BY <1>1 DEF Sockets
      <3> HIDE DEF a
      <3>4. Good(d2)
        BY <3>0, <3>2 DEF Sockets
      <3> HIDE DEF Good, d2
      <3> QED BY <3>1, <3>4
    <2>3. CASE /\ state = sockets[c].state /\ delivered = sockets[c].delivered
               /\ sockets' = [sockets EXCEPT ![c].stream = stream]
      <3>1. sockets' = [sockets EXCEPT ![c] = a]
        BY <1>1, <2>3
      <3>0. state = old.state /\ delivered = old.delivered
        BY <2>3
      <3> HIDE DEF old
      <3>2. Good(a)
        BY <1>1, <3>0 DEF Sockets
      <3> HIDE DEF Good, a
      <3> QED BY <3>1, <3>2
    <2>4. CASE /\ stream = sockets[c].stream /\ delivered = sockets[c].delivered
               /\ sockets' = [sockets EXCEPT ![c].state = state]
      <3>1. sockets' = [sockets EXCEPT ![c] = e]
        BY <1>1, <2>4
      <3>0. stream = old.stream /\ delivered = old.delivered
        BY <2>4
      <3> HIDE DEF old
      <3>2. Good(e)
        BY <1>1, <3>0 DEF Sockets
      <3> HIDE DEF Good, e
      <3> QED BY <3>1, <3>2
    <2> QED BY <2>1, <2>2, <2>3, <2>4
  <1>3. PICK new : Good(new) /\ sockets' = [sockets EXCEPT ![c] = new]
    BY <1>2
  <1>4. /\ sockets' \in [Connections -> Sockets] /\ sockets'[c] = new
        /\ \A d \in Connections \ {c} : sockets'[d] = sockets[d]
    BY <1>3, OneSocket
  <1>5. BecomesSocket(c, state, stream, delivered)
    BY <1>3, <1>4 DEF BecomesSocket
  <1> QED BY <1>4, <1>5

\* What Publish does to the sockets.
LEMMA PublishEffect ==
  ASSUME TypeOK, NEW s \in SessionIds, NEW revision \in Nat, Publish(s, revision)
  PROVE  /\ sockets' \in [Connections -> Sockets]
         /\ \E failing \in SUBSET {c \in SubscribersOf(s) : sockets[c].state = "open"} :
              /\ subscriptions' = subscriptions \ {<<s, c>> : c \in failing}
              /\ subscriberCount' = subscriberCount - Cardinality(failing)
              /\ \A c \in Connections :
                   IF c \in SubscribersOf(s) \ failing /\ sockets[c].state = "open"
                   THEN BecomesSocket(c, "open", sockets[c].stream,
                                      Append(sockets[c].delivered, revision))
                   ELSE sockets'[c] = sockets[c]
  <1>1. PICK failing \in SUBSET {c \in SubscribersOf(s) : sockets[c].state = "open"} :
          /\ subscriptions' = subscriptions \ {<<s, c>> : c \in failing}
          /\ subscriberCount' = subscriberCount - Cardinality(failing)
          /\ sockets' = [c \in Connections |->
                           IF c \in SubscribersOf(s) \ failing /\ sockets[c].state = "open"
                           THEN [sockets[c] EXCEPT !.delivered = Append(@, revision)]
                           ELSE sockets[c]]
    BY DEF Publish
  <1>2. ASSUME NEW c \in Connections
        PROVE  /\ sockets'[c] \in Sockets
               /\ IF c \in SubscribersOf(s) \ failing /\ sockets[c].state = "open"
                  THEN BecomesSocket(c, "open", sockets[c].stream,
                                     Append(sockets[c].delivered, revision))
                  ELSE sockets'[c] = sockets[c]
    <2>1. sockets[c] \in Sockets
      BY DEF TypeOK
    <2>2. CASE ~(c \in SubscribersOf(s) \ failing /\ sockets[c].state = "open")
      BY <1>1, <2>1, <2>2
    <2>3. CASE c \in SubscribersOf(s) \ failing /\ sockets[c].state = "open"
      <3> DEFINE old == sockets[c]
                 delivered == Append(old.delivered, revision)
                 new == [old EXCEPT !.delivered = delivered]
      <3>1. sockets'[c] = new
        BY <1>1, <2>3
      <3>4. old \in Sockets /\ old.state = "open"
        BY <2>1, <2>3
      <3> HIDE DEF old
      <3>2. delivered \in Seq(Nat)
        BY <3>4 DEF Sockets
      <3> HIDE DEF delivered
      <3>3. /\ new \in Sockets /\ new.delivered = delivered /\ new.state = "open"
            /\ new.stream = old.stream /\ new.session = old.session /\ new.since = old.since
        BY <3>2, <3>4 DEF Sockets
      <3> HIDE DEF new
      <3> QED BY <2>3, <3>1, <3>3 DEF BecomesSocket, old, delivered
    <2> QED BY <2>2, <2>3
  <1>3. sockets' \in [Connections -> Sockets]
    <2> DEFINE f(c) == IF c \in SubscribersOf(s) \ failing /\ sockets[c].state = "open"
                       THEN [sockets[c] EXCEPT !.delivered = Append(@, revision)]
                       ELSE sockets[c]
    <2>1. sockets' = [c \in Connections |-> f(c)]
      BY <1>1
    <2> HIDE DEF f
    <2>2. \A c \in Connections : f(c) \in Sockets
      BY <1>2, <2>1
    <2> QED BY <2>1, <2>2
  <1> QED BY <1>1, <1>2, <1>3

\* What FinishSubscribe does: the socket gets the replay, or a part of it and
\* is closed again.
Prefixes(list, whole) ==
  /\ list \in Seq(Nat) /\ Len(list) \in 0 .. Len(whole)
  /\ \A i \in 1 .. Len(list) : list[i] = whole[i]

Granted(s, c, delivered) ==
  /\ call[s].ok /\ subscriberCount < MaxSubscribers
  /\ subscriptions' = subscriptions \cup {<<s, c>>} /\ subscriberCount' = subscriberCount + 1
  /\ BecomesSocket(c, sockets[c].state, "granted", delivered)
  /\ sockets[c].state = "open" => Replays(delivered, call[s].record, sockets[c].since)

Refused(s, c, delivered) ==
  /\ UNCHANGED <<subscriptions, subscriberCount>>
  /\ BecomesSocket(c, "closed", "refused", delivered)

\* What FinishSubscribe does to its connection and to the others.
LEMMA SubscribeEffect ==
  ASSUME TypeOK, ChainInv, NEW s \in SessionIds, FinishSubscribe(s)
  PROVE  LET c == Head(queue[s]).connection
         IN  /\ c \in Connections /\ sockets' \in [Connections -> Sockets]
             /\ \A d \in Connections \ {c} : sockets'[d] = sockets[d]
             /\ call[s].ok => call[s].record \in Histories
             /\ \E delivered \in Seq(Nat) :
                  /\ \/ delivered = <<>>
                     \/ /\ call[s].ok /\ sockets[c].state = "open"
                        /\ Prefixes(delivered, Replay(call[s].record, sockets[c].since))
                  /\ Granted(s, c, delivered) \/ Refused(s, c, delivered)
  <1> DEFINE c      == Head(queue[s]).connection
             open   == sockets[c].state = "open"
             replay == IF open /\ call[s].ok /\ subscriberCount < MaxSubscribers
                       THEN Replay(call[s].record, sockets[c].since) ELSE <<>>
  <1>1. Running(s, {"subscribe"}, "settled")
    BY DEF FinishSubscribe
  <1>2. /\ c \in Connections /\ call[s].stage = "settled" /\ Head(queue[s]).kind = "subscribe"
        /\ call[s].ok \in BOOLEAN
    BY <1>1, RunningHead, SubmitOperation, SettledFields
  <1>3. call[s].ok => call[s].record \in Histories
    BY <1>2 DEF ChainInv
  <1>4. sockets[c] \in Sockets
    BY <1>2 DEF TypeOK
  <1>5. sockets[c].since \in Nat /\ sockets[c].state \in States
    BY <1>4 DEF Sockets
  <1>6. open /\ call[s].ok => /\ Replays(Replay(call[s].record, sockets[c].since),
                                       call[s].record, sockets[c].since)
                             /\ Replay(call[s].record, sockets[c].since) \in Seq(Nat)
    BY <1>3, <1>5, ReplayProperties DEF Replays
  <1>7. replay \in Seq(Nat)
    BY <1>6
  <1>8. CASE /\ call[s].ok /\ subscriberCount < MaxSubscribers
             /\ subscriptions' = subscriptions \cup {<<s, c>>}
             /\ subscriberCount' = subscriberCount + 1
             /\ sockets' = [sockets EXCEPT ![c].stream = "granted", ![c].delivered = replay]
    <2> HIDE DEF replay, c
    <2>1. "granted" \in Streams
      BY DEF Streams
    <2>2. /\ sockets' \in [Connections -> Sockets]
          /\ \A d \in Connections \ {c} : sockets'[d] = sockets[d]
          /\ BecomesSocket(c, sockets[c].state, "granted", replay)
      BY <1>2, <1>5, <1>7, <1>8, <2>1, SocketStep
    <2>3. open => replay = Replay(call[s].record, sockets[c].since)
      BY <1>8 DEF replay
    <2>4. Granted(s, c, replay)
      BY <1>6, <1>8, <2>2, <2>3 DEF Granted
    <2>5. replay = <<>> \/ (open /\ Prefixes(replay, Replay(call[s].record, sockets[c].since)))
      <3>1. CASE open
        <4>1. Len(replay) \in 0 .. Len(replay)
          BY <1>7
        <4> QED BY <1>7, <2>3, <3>1, <4>1 DEF Prefixes
      <3>2. CASE ~open
        BY <3>2 DEF replay
      <3> QED BY <3>1, <3>2
    <2> QED BY <1>2, <1>3, <1>7, <1>8, <2>2, <2>4, <2>5 DEF c
  <1>9. CASE /\ \E sent \in {0} \cup 1 .. Len(replay) - 1 :
                  sockets' = [sockets EXCEPT ![c].stream = "refused", ![c].state = "closed",
                                             ![c].delivered = SubSeq(replay, 1, sent)]
             /\ UNCHANGED <<subscriptions, subscriberCount>>
    <2>1. PICK sent \in {0} \cup 1 .. Len(replay) - 1 :
                 sockets' = [sockets EXCEPT ![c].stream = "refused", ![c].state = "closed",
                                            ![c].delivered = SubSeq(replay, 1, sent)]
      BY <1>9
    <2> DEFINE part == SubSeq(replay, 1, sent)
    <2> HIDE DEF replay, c
    <2>2. sent \in 0 .. Len(replay)
      BY <1>7
    <2>3. part \in Seq(Nat) /\ Len(part) = sent /\ \A i \in 1 .. sent : part[i] = replay[i]
      <3>1. part \in Seq(Nat) /\ Len(part) = sent
        BY <1>7, <2>2
      <3>2. \A i \in 1 .. sent : part[i] = replay[1 + i - 1]
        BY <1>7, <2>2
      <3>3. \A i \in 1 .. sent : 1 + i - 1 = i
        BY <2>2
      <3> QED BY <3>1, <3>2, <3>3
    <2> HIDE DEF part
    <2>4. "refused" \in Streams /\ "closed" \in States
      BY DEF Streams, States
    <2>5. sockets' = [sockets EXCEPT ![c].stream = "refused", ![c].state = "closed",
                                     ![c].delivered = part]
      BY <2>1 DEF part
    <2>6. /\ sockets' \in [Connections -> Sockets]
          /\ \A d \in Connections \ {c} : sockets'[d] = sockets[d]
          /\ BecomesSocket(c, "closed", "refused", part)
      BY <1>2, <2>3, <2>4, <2>5, SocketStep
    <2>7. Refused(s, c, part)
      BY <1>9, <2>6 DEF Refused
    <2>8. \/ part = <<>>
          \/ /\ call[s].ok /\ open
             /\ Prefixes(part, Replay(call[s].record, sockets[c].since))
      <3>1. CASE open /\ call[s].ok /\ subscriberCount < MaxSubscribers
        BY <2>2, <2>3, <3>1 DEF Prefixes, replay
      <3>2. CASE ~(open /\ call[s].ok /\ subscriberCount < MaxSubscribers)
        <4>1. replay = <<>>
          BY <3>2 DEF replay
        <4>2. Len(part) = 0
          BY <2>2, <2>3, <4>1
        <4> QED BY <2>3, <4>2
      <3> QED BY <3>1, <3>2
    <2> QED BY <1>2, <1>3, <2>3, <2>6, <2>7, <2>8 DEF c
  <1> QED BY <1>8, <1>9 DEF FinishSubscribe

-----------------------------------------------------------------------------
BaseInv == TypeOK /\ BehindInv /\ ChainInv

\* The chain when an operation leaves it or joins it.
LEMMA DequeueChain ==
  ASSUME TypeOK, ChainInv, NEW s \in SessionIds, queue[s] # <<>>, Dequeue(s), UNCHANGED records
  PROVE  ChainInv'
  <1>1. /\ call'[s] = Idle
        /\ \A r \in SessionIds \ {s} : call'[r] = call[r] /\ queue'[r] = queue[r]
    BY DequeueType
  <1>2. call'[s].stage = "idle"
    BY <1>1 DEF Idle
  <1> QED BY <1>1, <1>2 DEF ChainInv

\* An operation that joins a chain does not take its head.
LEMMA HeadAppend ==
  ASSUME NEW S, NEW list \in Seq(S), NEW x \in S
  PROVE  /\ Append(list, x) \in Seq(S) /\ Append(list, x) # <<>>
         /\ list # <<>> => Head(Append(list, x)) = Head(list)
  <1> DEFINE longer == Append(list, x)
  <1>1. /\ longer \in Seq(S) /\ Len(longer) = Len(list) + 1
        /\ \A i \in 1 .. Len(list) : longer[i] = list[i]
    OBVIOUS
  <1> HIDE DEF longer
  <1>2. longer # <<>> /\ Head(longer) = longer[1]
    BY <1>1
  <1>3. list # <<>> => Len(list) \in Nat \ {0} /\ Head(list) = list[1]
    OBVIOUS
  <1>4. list # <<>> => Head(longer) = Head(list)
    BY <1>1, <1>2, <1>3
  <1> QED BY <1>1, <1>2, <1>4 DEF longer

\* An operation that joins a chain leaves the running ones alone.
LEMMA EnqueueChain ==
  ASSUME TypeOK, ChainInv, NEW s \in SessionIds, NEW op \in Operations, Enqueue(s, op),
         UNCHANGED <<records, call>>
  PROVE  ChainInv'
  <1>1. /\ queue'[s] = Append(queue[s], op) /\ queue[s] \in Seq(Operations)
        /\ \A r \in SessionIds \ {s} : queue'[r] = queue[r]
    BY EnqueueType DEF TypeOK
  <1>2. queue'[s] # <<>> /\ (queue[s] # <<>> => Head(queue'[s]) = Head(queue[s]))
    BY <1>1, HeadAppend
  <1>3. ASSUME NEW r \in SessionIds, queue[r] # <<>>
        PROVE  queue'[r] # <<>> /\ Head(queue'[r]) = Head(queue[r])
    BY <1>1, <1>2, <1>3
  <1> HIDE DEF Enqueue
  <1>4. ASSUME NEW r \in SessionIds
        PROVE  /\ call[r].stage # "idle" => queue'[r] # <<>>
               /\ call[r].stage = "resolved" => Head(queue'[r]).kind = "create"
               /\ call[r].stage = "settled" /\ call[r].ok
                    /\ Head(queue'[r]).kind \in {"submit", "reset", "read", "subscribe"}
                    => call[r].record \in Histories
               /\ call[r].stage = "settled" /\ call[r].ok
                    /\ Head(queue'[r]).kind = "create" => records[r] = NewRecord
    <2>1. CASE call[r].stage = "idle"
      BY <2>1
    <2>2. CASE call[r].stage # "idle"
      <3>1. queue[r] # <<>>
        BY <2>2 DEF ChainInv
      <3>2. queue'[r] # <<>> /\ Head(queue'[r]) = Head(queue[r])
        BY <3>1, <1>3
      <3> QED BY <3>1, <3>2 DEF ChainInv
    <2> QED BY <2>1, <2>2
  <1> QED BY <1>4 DEF ChainInv

\* A call of the store keeps the invariant.
LEMMA StoreKeepsBase ==
  ASSUME BaseInv, NEW s \in SessionIds, StoreEffect(s)
  PROVE  BaseInv'
  <1>1. TypeOK'
    BY DEF BaseInv, TypeOK, StoreEffect
  <1>2. BehindInv'
    <2> SUFFICES ASSUME NEW r \in SessionIds, records'[r] # None, runtimes'[r] # None
                 PROVE  records'[r].revision <= runtimes'[r].revision
      BY DEF BehindInv
    <2>1. CASE r = s
      BY <2>1 DEF StoreEffect
    <2>2. CASE r # s
      BY <2>2 DEF BaseInv, BehindInv, StoreEffect
    <2> QED BY <2>1, <2>2
  <1>3. ChainInv'
    <2> SUFFICES ASSUME NEW r \in SessionIds
                 PROVE  /\ call'[r].stage # "idle" => queue'[r] # <<>>
                        /\ call'[r].stage = "resolved" => Head(queue'[r]).kind = "create"
                        /\ call'[r].stage = "settled" /\ call'[r].ok
                             /\ Head(queue'[r]).kind \in {"submit", "reset", "read", "subscribe"}
                             => call'[r].record \in Histories
                        /\ call'[r].stage = "settled" /\ call'[r].ok
                             /\ Head(queue'[r]).kind = "create" => records'[r] = NewRecord
      BY DEF ChainInv
    <2>0. queue' = queue
      BY DEF StoreEffect
    <2>1. CASE r = s
      BY <2>0, <2>1 DEF StoreEffect
    <2>2. CASE r # s
      <3>1. call'[r] = call[r] /\ records'[r] = records[r]
        BY <2>2 DEF StoreEffect
      <3> QED BY <2>0, <3>1 DEF BaseInv, ChainInv
    <2> QED BY <2>1, <2>2
  <1> QED BY <1>1, <1>2, <1>3 DEF BaseInv

\* A request joins its session's chain with an operation of its kind.
LEMMA EnqueuedOperation ==
  ASSUME NEW s \in SessionIds,
         \/ Create(s) \/ \E op \in Requests : Request(s, op)
         \/ \E c \in Connections, since \in 0 .. 1 : Connect(c, s, since)
  PROVE  \E op \in Operations :
           Enqueue(s, op) /\ UNCHANGED <<records, runtimes, call, subscriptions>>
  <1>1. \E op \in Operations : Enqueue(s, op)
    <2>1. CASE Create(s)
      <3>1. [kind |-> "create"] \in Operations
        BY DEF Operations
      <3> QED BY <2>1, <3>1 DEF Create
    <2>2. CASE \E op \in Requests : Request(s, op)
      BY <2>2 DEF Request, Requests, Operations
    <2>3. CASE \E c \in Connections, since \in 0 .. 1 : Connect(c, s, since)
      <3>1. PICK c \in Connections, since \in 0 .. 1 : Connect(c, s, since)
        BY <2>3
      <3>2. [kind |-> "subscribe", connection |-> c] \in Operations
        BY DEF Operations
      <3> QED BY <3>1, <3>2 DEF Connect
    <2> QED BY <2>1, <2>2, <2>3
  <1>2. UNCHANGED <<records, runtimes, call, subscriptions>>
    BY DEF Create, Request, Connect
  <1> QED BY <1>1, <1>2

\* The requests that join a chain.
LEMMA EnqueueKeepsBase ==
  ASSUME BaseInv, NEW s \in SessionIds,
         \/ Create(s) \/ \E op \in Requests : Request(s, op)
         \/ \E c \in Connections, since \in 0 .. 1 : Connect(c, s, since)
  PROVE  BaseInv'
  <1>0. TypeOK /\ BehindInv /\ ChainInv
    BY DEF BaseInv
  <1>2. UNCHANGED <<records, runtimes, call, subscriptions>>
    BY DEF Create, Request, Connect
  <1>3. PICK op \in Operations : Enqueue(s, op)
    BY EnqueuedOperation
  <1>4. queue' \in [SessionIds -> Seq(Operations)] /\ issued' \in Nat
    BY <1>0, <1>3, EnqueueType
  <1>5. ChainInv'
    BY <1>0, <1>2, <1>3, EnqueueChain
  <1>6. BehindInv'
    BY <1>0, <1>2 DEF BehindInv
  <1>7. sockets' \in [Connections -> Sockets]
    <2>1. CASE UNCHANGED sockets
      BY <1>0, <2>1 DEF TypeOK
    <2>2. CASE \E c \in Connections, since \in 0 .. 1 : Connect(c, s, since)
      <3>1. PICK c \in Connections, since \in 0 .. 1 : Connect(c, s, since)
        BY <2>2
      <3> DEFINE new == [state |-> "open", session |-> s, since |-> since,
                         stream |-> "pending", delivered |-> <<>>]
      <3>2. new \in Sockets
        BY DEF Sockets, States, Streams
      <3>3. sockets' = [sockets EXCEPT ![c] = new]
        BY <3>1 DEF Connect
      <3> HIDE DEF new
      <3> QED BY <1>0, <3>2, <3>3, OneSocket
    <2> QED BY <2>1, <2>2 DEF Create, Request
  <1>8. usedIds' \subseteq SessionIds
    BY <1>0 DEF TypeOK, Create, Request, Connect
  <1>9. TypeOK'
    BY <1>0, <1>2, <1>4, <1>7, <1>8 DEF TypeOK
  <1> QED BY <1>5, <1>6, <1>9 DEF BaseInv

\* The continuation of an operation of the store settles it and leaves the record.
LEMMA FinishKeepsBase ==
  ASSUME BaseInv, NEW s \in SessionIds,
         \/ FinishCreate(s) \/ FinishUpdate(s) \/ FinishRead(s)
         \/ FinishSubscribe(s) \/ FinishDelete(s)
  PROVE  /\ BaseInv' /\ queue[s] # <<>> /\ Dequeue(s) /\ call[s].stage = "settled"
         /\ UNCHANGED <<records, usedIds, issued>>
  <1>0. TypeOK /\ BehindInv /\ ChainInv
    BY DEF BaseInv
  <1>1. /\ queue[s] # <<>> /\ Dequeue(s) /\ call[s].stage = "settled"
        /\ UNCHANGED <<records, usedIds, issued>>
    BY DEF FinishCreate, FinishUpdate, FinishRead, FinishSubscribe, FinishDelete, Running
  <1>2. /\ queue' \in [SessionIds -> Seq(Operations)]
        /\ call' \in [SessionIds -> Outcomes \cup {Idle, Resolved}]
    BY <1>0, <1>1, DequeueType
  <1>3. ChainInv'
    BY <1>0, <1>1, DequeueChain
  <1>4. /\ runtimes' \in [SessionIds -> Trackers \cup {None}]
        /\ \A r \in SessionIds :
             \/ runtimes'[r] = runtimes[r] \/ runtimes'[r] = None
             \/ runtimes'[r] = NewTracker /\ records[r] = NewRecord
    <2>0. runtimes \in [SessionIds -> Trackers \cup {None}] /\ NewTracker \in Trackers
      BY <1>0, NewTypes DEF TypeOK
    <2>1. CASE UNCHANGED runtimes
      BY <2>0, <2>1
    <2>2. CASE FinishCreate(s)
      <3>1. call[s].ok => records[s] = NewRecord
        BY <1>0, <1>1, <2>2 DEF ChainInv, FinishCreate, Running
      <3>2. runtimes' = [runtimes EXCEPT ![s] = IF call[s].ok THEN NewTracker ELSE @]
        BY <2>2 DEF FinishCreate
      <3> QED BY <2>0, <3>1, <3>2
    <2>3. CASE runtimes' = [runtimes EXCEPT ![s] = None]
      BY <2>0, <2>3
    <2> QED BY <2>1, <2>2, <2>3 DEF FinishUpdate, FinishRead, FinishSubscribe, FinishDelete
  <1>5. BehindInv'
    <2> SUFFICES ASSUME NEW r \in SessionIds, records[r] # None, runtimes'[r] # None
                 PROVE  records[r].revision <= runtimes'[r].revision
      BY <1>1 DEF BehindInv
    <2>1. CASE runtimes'[r] = runtimes[r]
      BY <1>0, <2>1 DEF BehindInv
    <2>2. CASE runtimes'[r] = NewTracker /\ records[r] = NewRecord
      BY <2>2, NewTypes
    <2> QED BY <1>4, <2>1, <2>2
  <1>6. subscriptions' \subseteq SessionIds \X Connections /\ sockets' \in [Connections -> Sockets]
    <2>0. subscriptions \subseteq SessionIds \X Connections /\ sockets \in [Connections -> Sockets]
      BY <1>0 DEF TypeOK
    <2>1. CASE FinishUpdate(s)
      <3>1. CASE Published(call[s])
        <4>1. call[s].record \in Histories
          BY <1>0, <1>1, <2>1, <3>1 DEF ChainInv, FinishUpdate, Running, Published
        <4>2. call[s].record.revision \in Nat /\ Publish(s, call[s].record.revision)
          BY <2>1, <3>1, <4>1 DEF FinishUpdate, Histories, Records
        <4>3. sockets' \in [Connections -> Sockets] /\ subscriptions' \subseteq subscriptions
          BY <1>0, <4>2, PublishEffect
        <4> QED BY <2>0, <4>3
      <3>2. CASE ~Published(call[s])
        BY <2>0, <2>1, <3>2 DEF FinishUpdate
      <3> QED BY <3>1, <3>2
    <2>2. CASE FinishSubscribe(s)
      BY <1>0, <2>0, <2>2, SubscribeEffect DEF Granted, Refused
    <2>3. CASE FinishCreate(s) \/ FinishRead(s) \/ FinishDelete(s)
      BY <2>0, <2>3 DEF FinishCreate, FinishRead, FinishDelete
    <2> QED BY <2>1, <2>2, <2>3
  <1>7. TypeOK'
    BY <1>0, <1>1, <1>2, <1>4, <1>6 DEF TypeOK
  <1> QED BY <1>1, <1>3, <1>5, <1>7 DEF BaseInv

\* What StreamReady and SocketClose do to their socket and its subscription.
LEMMA SocketEffect ==
  ASSUME TypeOK, NEW c \in Connections, StreamReady(c) \/ SocketClose(c)
  PROVE  /\ sockets' \in [Connections -> Sockets]
         /\ \A d \in Connections \ {c} : sockets'[d] = sockets[d]
         /\ \/ /\ sockets[c].stream = "granted"
               /\ BecomesSocket(c, sockets[c].state, "ready", sockets[c].delivered)
            \/ /\ sockets[c].state = "open"
               /\ BecomesSocket(c, "closed", sockets[c].stream, sockets[c].delivered)
         /\ ReleaseSubscriber(sockets[c].session, c) \/ UNCHANGED <<subscriptions, subscriberCount>>
         /\ UNCHANGED <<records, runtimes, queue, call, reservedSessions, usedIds, issued>>
  <1>1. /\ sockets[c].state \in States /\ sockets[c].stream \in Streams
        /\ sockets[c].delivered \in Seq(Nat) /\ "ready" \in Streams /\ "closed" \in States
    BY DEF TypeOK, Sockets, States, Streams
  <1>2. CASE StreamReady(c)
    <2>1. sockets' = [sockets EXCEPT ![c].stream = "ready"] /\ sockets[c].stream = "granted"
      BY <1>2 DEF StreamReady
    <2>2. /\ sockets' \in [Connections -> Sockets]
          /\ \A d \in Connections \ {c} : sockets'[d] = sockets[d]
          /\ BecomesSocket(c, sockets[c].state, "ready", sockets[c].delivered)
      BY <1>1, <2>1, SocketStep
    <2> QED BY <1>2, <2>1, <2>2 DEF StreamReady
  <1>3. CASE SocketClose(c)
    <2>1. sockets' = [sockets EXCEPT ![c].state = "closed"] /\ sockets[c].state = "open"
      BY <1>3 DEF SocketClose
    <2>2. /\ sockets' \in [Connections -> Sockets]
          /\ \A d \in Connections \ {c} : sockets'[d] = sockets[d]
          /\ BecomesSocket(c, "closed", sockets[c].stream, sockets[c].delivered)
      BY <1>1, <2>1, SocketStep
    <2> QED BY <1>3, <2>1, <2>2 DEF SocketClose
  <1> QED BY <1>2, <1>3

\* A socket's own steps keep the invariant.
LEMMA SocketKeepsBase ==
  ASSUME BaseInv, NEW c \in Connections, StreamReady(c) \/ SocketClose(c)
  PROVE  BaseInv'
  <1>0. TypeOK /\ BehindInv /\ ChainInv
    BY DEF BaseInv
  <1>1. /\ sockets' \in [Connections -> Sockets]
        /\ ReleaseSubscriber(sockets[c].session, c) \/ UNCHANGED subscriptions
        /\ UNCHANGED <<records, runtimes, queue, call, reservedSessions, usedIds, issued>>
    BY <1>0, SocketEffect
  <1>2. subscriptions' \subseteq subscriptions
    BY <1>1 DEF ReleaseSubscriber
  <1>3. TypeOK'
    BY <1>0, <1>1, <1>2 DEF TypeOK
  <1>4. BehindInv' /\ ChainInv'
    BY <1>0, <1>1 DEF BehindInv, ChainInv
  <1> QED BY <1>3, <1>4 DEF BaseInv

\* The cases of the next-state relation, one for each kind of step.
LEMMA Steps ==
  ASSUME BaseInv, [Next]_vars
  PROVE  \/ \E s \in SessionIds :
              \/ Create(s) \/ \E op \in Requests : Request(s, op)
              \/ \E c \in Connections, since \in 0 .. 1 : Connect(c, s, since)
         \/ \E s \in SessionIds :
              StoreEffect(s) /\ (\/ ResolveCorpus(s) \/ StoreCreate(s) \/ StoreReset(s)
                                \/ StoreSubmit(s) \/ StoreGet(s) \/ StoreDelete(s))
         \/ \E s \in SessionIds : \/ FinishCreate(s) \/ FinishUpdate(s) \/ FinishRead(s)
                                  \/ FinishSubscribe(s) \/ FinishDelete(s)
         \/ \E c \in Connections : StreamReady(c) \/ SocketClose(c)
         \/ UNCHANGED vars
  <1>1. ASSUME NEW s \in SessionIds, Progress(s)
        PROVE  \/ StoreEffect(s) /\ (\/ ResolveCorpus(s) \/ StoreCreate(s) \/ StoreReset(s)
                                     \/ StoreSubmit(s) \/ StoreGet(s) \/ StoreDelete(s))
               \/ FinishCreate(s) \/ FinishUpdate(s) \/ FinishRead(s)
               \/ FinishSubscribe(s) \/ FinishDelete(s)
    BY <1>1, StoreCallsEffect DEF Progress, BaseInv
  <1> QED BY <1>1 DEF Next

\* The invariant holds at the start.
LEMMA InitBase ==
  ASSUME Init PROVE BaseInv
  <1>1. Unused \in Sockets
    BY DEF Unused, Sockets, States, Streams
  <1>2. Idle.stage = "idle"
    BY DEF Idle
  <1>3. TypeOK
    BY <1>1 DEF Init, TypeOK
  <1>4. BehindInv /\ ChainInv
    BY <1>2 DEF Init, BehindInv, ChainInv
  <1> QED BY <1>3, <1>4 DEF BaseInv

\* Every step keeps the invariant.
LEMMA NextBase ==
  ASSUME BaseInv, [Next]_vars PROVE BaseInv'
  <1>1. CASE UNCHANGED vars
    BY <1>1 DEF vars, BaseInv, TypeOK, BehindInv, ChainInv
  <1> QED BY <1>1, Steps, EnqueueKeepsBase, StoreKeepsBase, FinishKeepsBase, SocketKeepsBase

\* Every state of the service is well typed, an operation that began holds its
\* chain, and a tracker is never behind the record, whatever the store does.
THEOREM Typing == Spec => []BaseInv
  BY InitBase, NextBase, PTL DEF Spec

-----------------------------------------------------------------------------
(***************************************************************************)
(* The counters of the session service are exact and within their limits   *)
(* in every state, whatever the store, the sockets and the listeners do.   *)
(***************************************************************************)

\* A function that is one-to-one and onto keeps the size of a finite set.
LEMMA SameSize ==
  ASSUME NEW S, NEW T, IsFiniteSet(S), NEW f \in [S -> T],
         \A x, y \in S : f[x] = f[y] => x = y,
         \A z \in T : \E x \in S : f[x] = z
  PROVE  IsFiniteSet(T) /\ Cardinality(T) = Cardinality(S)
  <1>1. f \in Bijection(S, T)
    BY Fun_IsBij
  <1>2. ExistsBijection(S, T)
    BY <1>1 DEF ExistsBijection
  <1> QED BY <1>2, FS_Bijection

\* The pairs of one session are as many as its connections.
LEMMA PairsCardinality ==
  ASSUME NEW s, NEW T, IsFiniteSet(T)
  PROVE  /\ IsFiniteSet({<<s, c>> : c \in T})
         /\ Cardinality({<<s, c>> : c \in T}) = Cardinality(T)
  <1> DEFINE P == {<<s, c>> : c \in T}
             f == [c \in T |-> <<s, c>>]
  <1>1. f \in [T -> P]
    OBVIOUS
  <1>2. \A x, y \in T : f[x] = f[y] => x = y
    OBVIOUS
  <1>3. \A z \in P : \E x \in T : f[x] = z
    OBVIOUS
  <1> HIDE DEF P, f
  <1> QED BY <1>1, <1>2, <1>3, SameSize DEF P

\* The subscribers of a session are as many as its pairs among the subscriptions.
LEMMA SubscribersFinite ==
  ASSUME NEW s \in SessionIds, subscriptions \subseteq SessionIds \X Connections,
         IsFiniteSet(subscriptions)
  PROVE  IsFiniteSet(SubscribersOf(s))
  <1> DEFINE P == {p \in subscriptions : p[1] = s}
             f == [p \in P |-> p[2]]
  <1>1. IsFiniteSet(P)
    <2>1. P \in SUBSET subscriptions
      OBVIOUS
    <2> HIDE DEF P
    <2> QED BY <2>1, FS_Subset
  <1>2. f \in [P -> SubscribersOf(s)]
    <2>1. \A p \in P : p[2] \in SubscribersOf(s)
      BY DEF SubscribersOf
    <2> QED BY <2>1
  <1>3. \A x, y \in P : f[x] = f[y] => x = y
    OBVIOUS
  <1>4. \A z \in SubscribersOf(s) : \E x \in P : f[x] = z
    <2> SUFFICES ASSUME NEW z \in SubscribersOf(s) PROVE \E x \in P : f[x] = z
      OBVIOUS
    <2>1. <<s, z>> \in P
      BY DEF SubscribersOf
    <2>2. f[<<s, z>>] = z
      BY <2>1
    <2> QED BY <2>1, <2>2
  <1> HIDE DEF P, f
  <1> QED BY <1>1, <1>2, <1>3, <1>4, SameSize

\* Subscribers that go take as many subscriptions with them.
LEMMA SubscribersLeave ==
  ASSUME NEW s \in SessionIds, subscriptions \subseteq SessionIds \X Connections,
         IsFiniteSet(subscriptions), NEW T \in SUBSET SubscribersOf(s)
  PROVE  LET left == subscriptions \ {<<s, c>> : c \in T}
         IN  IsFiniteSet(left) /\ Cardinality(left) = Cardinality(subscriptions) - Cardinality(T)
  <1> DEFINE P == {<<s, c>> : c \in T}
  <1>1. IsFiniteSet(T)
    BY SubscribersFinite, FS_Subset
  <1>2. IsFiniteSet(P) /\ Cardinality(P) = Cardinality(T)
    BY <1>1, PairsCardinality
  <1>3. subscriptions \cap P = P
    BY DEF SubscribersOf
  <1> HIDE DEF P
  <1>4. /\ IsFiniteSet(subscriptions \ P)
        /\ Cardinality(subscriptions \ P) =
             Cardinality(subscriptions) - Cardinality(subscriptions \cap P)
    BY FS_Difference
  <1> QED BY <1>2, <1>3, <1>4 DEF P

-----------------------------------------------------------------------------
\* The creations waiting or running in the chains q.
Pending(q) ==
  {p \in SessionIds \X (1 .. MaxOperations) :
     p[2] \in DOMAIN q[p[1]] /\ q[p[1]][p[2]].kind = "create"}

\* The chains when an operation joins one, and when its first operation is done.
Longer(q, s, op) == [q EXCEPT ![s] = Append(@, op)]
Shorter(q, s) == [q EXCEPT ![s] = Tail(@)]

\* A creation that joins a chain is one more.
LEMMA PendingAppend ==
  ASSUME NEW q \in [SessionIds -> Seq(Operations)], NEW s \in SessionIds, NEW op \in Operations,
         Len(q[s]) < MaxOperations
  PROVE  /\ Pending(Longer(q, s, op)) =
              IF op.kind = "create" THEN Pending(q) \cup {<<s, Len(q[s]) + 1>>} ELSE Pending(q)
         /\ <<s, Len(q[s]) + 1>> \notin Pending(q)
  <1> DEFINE last == Len(q[s]) + 1
             new  == Longer(q, s, op)
  <1>1. /\ q[s] \in Seq(Operations) /\ Len(q[s]) \in Nat /\ last \in 1 .. MaxOperations
        /\ MaxOperations \in Nat
    BY Limits
  <1>2. /\ \A r \in SessionIds \ {s} : new[r] = q[r]
        /\ DOMAIN new[s] = 1 .. last /\ new[s][last] = op
        /\ \A i \in 1 .. Len(q[s]) : new[s][i] = q[s][i]
    <2>1. new[s] = Append(q[s], op) /\ \A r \in SessionIds \ {s} : new[r] = q[r]
      BY DEF Longer
    <2>2. /\ Append(q[s], op) \in Seq(Operations) /\ Len(Append(q[s], op)) = last
          /\ Append(q[s], op)[last] = op
          /\ \A i \in 1 .. Len(q[s]) : Append(q[s], op)[i] = q[s][i]
      BY <1>1
    <2>3. DOMAIN Append(q[s], op) = 1 .. last
      BY <2>2
    <2> QED BY <2>1, <2>2, <2>3
  <1> HIDE DEF new
  <1>3. DOMAIN q[s] = 1 .. Len(q[s])
    BY <1>1
  <1>4. <<s, last>> \notin Pending(q)
    BY <1>1, <1>3 DEF Pending
  <1>5. ASSUME NEW r \in SessionIds, NEW i \in 1 .. MaxOperations
        PROVE  <<r, i>> \in Pending(new) <=>
                 <<r, i>> \in Pending(q) \/ (op.kind = "create" /\ r = s /\ i = last)
    <2>1. CASE r # s
      BY <1>2, <2>1 DEF Pending
    <2>2. CASE r = s /\ i = last
      <3>1. <<s, last>> \in Pending(new) <=> op.kind = "create"
        BY <1>1, <1>2 DEF Pending
      <3> QED BY <1>4, <2>2, <3>1
    <2>3. CASE r = s /\ i # last
      <3>1. i \in DOMAIN new[s] <=> i \in DOMAIN q[s]
        BY <1>1, <1>2, <1>3, <2>3
      <3>2. i \in DOMAIN q[s] => new[s][i] = q[s][i]
        BY <1>2, <1>3
      <3> QED BY <2>3, <3>1, <3>2 DEF Pending
    <2> QED BY <2>1, <2>2, <2>3
  <1> DEFINE more == IF op.kind = "create" THEN Pending(q) \cup {<<s, last>>} ELSE Pending(q)
  <1>6. /\ Pending(new) \subseteq SessionIds \X (1 .. MaxOperations)
        /\ more \subseteq SessionIds \X (1 .. MaxOperations)
    BY <1>1 DEF Pending
  <1>7. \A p \in SessionIds \X (1 .. MaxOperations) : p \in Pending(new) <=> p \in more
    <2> SUFFICES ASSUME NEW p \in SessionIds \X (1 .. MaxOperations)
                 PROVE  p \in Pending(new) <=> p \in more
      OBVIOUS
    <2>1. p = <<p[1], p[2]>> /\ p[1] \in SessionIds /\ p[2] \in 1 .. MaxOperations
      OBVIOUS
    <2>2. p = <<s, last>> <=> p[1] = s /\ p[2] = last
      BY <2>1
    <2> HIDE DEF last
    <2>3. p \in Pending(new) <=>
            p \in Pending(q) \/ (op.kind = "create" /\ p[1] = s /\ p[2] = last)
      BY <1>5, <2>1
    <2> QED BY <2>2, <2>3
  <1> HIDE DEF more
  <1>8. Pending(new) = more
    BY <1>6, <1>7
  <1> QED BY <1>4, <1>8 DEF more, new

\* When the first operation of a chain is done, the creations behind it move up.
LEMMA PendingTail ==
  ASSUME NEW q \in [SessionIds -> Seq(Operations)], NEW s \in SessionIds, q[s] # <<>>,
         \A r \in SessionIds : Len(q[r]) <= MaxOperations, IsFiniteSet(Pending(q))
  PROVE  /\ IsFiniteSet(Pending(Shorter(q, s)))
         /\ Cardinality(Pending(Shorter(q, s))) =
              IF Head(q[s]).kind = "create" THEN Cardinality(Pending(q)) - 1
              ELSE Cardinality(Pending(q))
  <1> DEFINE new == Shorter(q, s)
             rest == Pending(q) \ {<<s, 1>>}
             f == [p \in rest |-> IF p[1] = s THEN <<s, p[2] - 1>> ELSE p]
  <1>1. /\ q[s] \in Seq(Operations) /\ Len(q[s]) \in Nat \ {0} /\ Len(q[s]) <= MaxOperations
        /\ MaxOperations \in Nat /\ Head(q[s]) = q[s][1] /\ DOMAIN q[s] = 1 .. Len(q[s])
    BY Limits
  <1>2. /\ \A r \in SessionIds \ {s} : new[r] = q[r]
        /\ DOMAIN new[s] = 1 .. Len(q[s]) - 1
        /\ \A i \in 1 .. Len(q[s]) - 1 : new[s][i] = q[s][i + 1]
    <2>1. new[s] = Tail(q[s]) /\ \A r \in SessionIds \ {s} : new[r] = q[r]
      BY DEF Shorter
    <2>2. /\ Tail(q[s]) \in Seq(Operations) /\ Len(Tail(q[s])) = Len(q[s]) - 1
          /\ \A i \in 1 .. Len(q[s]) - 1 : Tail(q[s])[i] = q[s][i + 1]
      BY <1>1
    <2>3. DOMAIN Tail(q[s]) = 1 .. Len(q[s]) - 1
      BY <2>2
    <2> QED BY <2>1, <2>2, <2>3
  <1> HIDE DEF new
  <1>3. <<s, 1>> \in Pending(q) <=> Head(q[s]).kind = "create"
    BY <1>1 DEF Pending
  <1>4. /\ IsFiniteSet(rest)
        /\ Cardinality(rest) = IF Head(q[s]).kind = "create" THEN Cardinality(Pending(q)) - 1
                               ELSE Cardinality(Pending(q))
    BY <1>3, FS_RemoveElement
  <1>5. \A r \in SessionIds \ {s}, i \in 1 .. MaxOperations :
           <<r, i>> \in Pending(new) <=> <<r, i>> \in rest
    BY <1>2 DEF Pending
  <1>6. \A i \in 1 .. MaxOperations : <<s, i>> \in Pending(new) <=> <<s, i + 1>> \in rest
    <2> SUFFICES ASSUME NEW i \in 1 .. MaxOperations
                 PROVE  <<s, i>> \in Pending(new) <=> <<s, i + 1>> \in rest
      OBVIOUS
    <2>1. i \in DOMAIN new[s] <=> i + 1 \in DOMAIN q[s]
      BY <1>1, <1>2
    <2>2. i + 1 \in DOMAIN q[s] => i + 1 \in 1 .. MaxOperations /\ new[s][i] = q[s][i + 1]
      BY <1>1, <1>2
    <2>3. <<s, i + 1>> # <<s, 1>>
      BY <1>1
    <2> QED BY <2>1, <2>2, <2>3 DEF Pending
  <1>7. /\ rest \subseteq SessionIds \X (1 .. MaxOperations)
        /\ Pending(new) \subseteq SessionIds \X (1 .. MaxOperations)
        /\ \A i : <<s, i>> \in rest => i - 1 \in 1 .. MaxOperations
    <2>1. \A i : <<s, i>> \in rest => i \in 1 .. MaxOperations /\ i # 1
      BY <1>1 DEF Pending
    <2> QED BY <1>1, <2>1 DEF Pending
  <1>11. \A p \in SessionIds \X (1 .. MaxOperations) :
           p[1] \in SessionIds /\ p[2] \in 1 .. MaxOperations /\ p = <<p[1], p[2]>>
    OBVIOUS
  <1>12. \A p, o \in SessionIds \X (1 .. MaxOperations) : p[1] = o[1] /\ p[2] = o[2] => p = o
    <2> SUFFICES ASSUME NEW p \in SessionIds \X (1 .. MaxOperations),
                        NEW o \in SessionIds \X (1 .. MaxOperations),
                        p[1] = o[1], p[2] = o[2]
                 PROVE  p = o
      OBVIOUS
    <2>1. p = <<p[1], p[2]>> /\ o = <<o[1], o[2]>>
      BY <1>11
    <2>2. <<p[1], p[2]>> = <<o[1], o[2]>>
      OBVIOUS
    <2> QED BY <2>1, <2>2, Zenon
  <1> HIDE DEF rest
  <1>8. f \in [rest -> Pending(new)]
    <2> SUFFICES ASSUME NEW p \in rest
                 PROVE  (IF p[1] = s THEN <<s, p[2] - 1>> ELSE p) \in Pending(new)
      OBVIOUS
    <2>0. /\ p[1] \in SessionIds /\ p[2] \in 1 .. MaxOperations
          /\ p = <<p[1], p[2]>> /\ (p[1] = s => p[2] - 1 \in 1 .. MaxOperations)
      BY <1>7, <1>11
    <2>1. CASE p[1] = s
      <3>0. p[2] - 1 + 1 = p[2]
        BY <2>0
      <3>1. p[2] - 1 \in 1 .. MaxOperations /\ <<s, p[2] - 1 + 1>> = p
        BY <2>0, <2>1, <3>0
      <3>2. <<s, p[2] - 1>> \in Pending(new)
        BY <1>6, <3>1
      <3> QED BY <2>1, <3>2
    <2>2. CASE p[1] # s
      BY <1>5, <2>0, <2>2
    <2> QED BY <2>1, <2>2
  <1>9. \A x, y \in rest : f[x] = f[y] => x = y
    <2> SUFFICES ASSUME NEW x \in rest, NEW y \in rest, f[x] = f[y] PROVE x = y
      OBVIOUS
    <2>1. /\ f[x] = IF x[1] = s THEN <<s, x[2] - 1>> ELSE x
          /\ f[y] = IF y[1] = s THEN <<s, y[2] - 1>> ELSE y
      OBVIOUS
    <2>2. x[2] \in Int /\ y[2] \in Int /\ (x[1] = y[1] /\ x[2] = y[2] => x = y)
      BY <1>1, <1>7, <1>11, <1>12
    <2> HIDE DEF f
    <2>3. \A i : <<s, i>>[1] = s
      OBVIOUS
    <2>4. CASE x[1] = s /\ y[1] = s
      <3>1. <<s, x[2] - 1>> = <<s, y[2] - 1>>
        BY <2>1, <2>4
      <3>2. x[2] - 1 = y[2] - 1
        BY <3>1
      <3> QED BY <2>2, <2>4, <3>2
    <2>5. CASE x[1] # s /\ y[1] # s
      BY <2>1, <2>5
    <2>6. CASE x[1] = s /\ y[1] # s
      BY <2>1, <2>3, <2>6
    <2>7. CASE x[1] # s /\ y[1] = s
      BY <2>1, <2>3, <2>7
    <2> QED BY <2>4, <2>5, <2>6, <2>7
  <1>10. \A z \in Pending(new) : \E x \in rest : f[x] = z
    <2> SUFFICES ASSUME NEW z \in Pending(new) PROVE \E x \in rest : f[x] = z
      OBVIOUS
    <2>0. z[1] \in SessionIds /\ z[2] \in 1 .. MaxOperations /\ z = <<z[1], z[2]>>
      BY <1>7, <1>11
    <2>1. CASE z[1] = s
      <3>1. z[2] \in 1 .. MaxOperations /\ z = <<s, z[2]>> /\ z[2] + 1 - 1 = z[2]
        BY <1>1, <2>0, <2>1
      <3> DEFINE x == <<s, z[2] + 1>>
      <3>2. x \in rest /\ x[1] = s /\ x[2] = z[2] + 1
        BY <1>6, <3>1
      <3>3. f[x] = <<s, x[2] - 1>>
        BY <3>2
      <3>4. x[2] - 1 = z[2]
        BY <3>1, <3>2
      <3> QED BY <3>1, <3>2, <3>3, <3>4
    <2>2. CASE z[1] # s
      <3>1. z \in rest
        BY <1>5, <2>0, <2>2
      <3> QED BY <2>2, <3>1
    <2> QED BY <2>1, <2>2
  <1> HIDE DEF f
  <1>13. IsFiniteSet(Pending(new)) /\ Cardinality(Pending(new)) = Cardinality(rest)
    BY <1>4, <1>8, <1>9, <1>10, SameSize
  <1> QED BY <1>4, <1>13 DEF new

-----------------------------------------------------------------------------
\* The subscribe of connection c is operation i of the chain of s.
WaitingIn(q, s, i, c) ==
  i \in DOMAIN q[s] /\ q[s][i].kind = "subscribe" /\ q[s][i].connection = c

\* No chain is longer than what was issued.
QueueBound ==
  issued <= MaxOperations /\ \A s \in SessionIds : Len(queue[s]) <= issued

\* The stream of a waiting subscribe is pending, and it waits once.
QueuedInv ==
  \A s \in SessionIds, i \in Nat, c \in Connections : WaitingIn(queue, s, i, c) =>
    /\ sockets[c].session = s /\ sockets[c].stream = "pending"
    /\ \A j \in Nat : WaitingIn(queue, s, j, c) => j = i

\* A subscription is held by a stream of that session that was granted.
RegisteredInv ==
  \A s \in SessionIds, c \in Connections : <<s, c>> \in subscriptions =>
    sockets[c].session = s /\ sockets[c].stream \in {"granted", "ready"}

FiniteInv ==
  IsFiniteSet(LiveSessions) /\ IsFiniteSet(PendingCreations) /\ IsFiniteSet(subscriptions)

StreamsInv == QueuedInv /\ RegisteredInv

\* The waiting subscribes when an operation leaves its chain, or joins it.
LEMMA WaitingTail ==
  ASSUME NEW q \in [SessionIds -> Seq(Operations)], NEW s \in SessionIds, q[s] # <<>>
  PROVE  \A r \in SessionIds, i \in Nat, c \in Connections : WaitingIn(Shorter(q, s), r, i, c) =>
           WaitingIn(q, r, IF r = s THEN i + 1 ELSE i, c) /\ (r = s => i # 0)
  <1> DEFINE new == Shorter(q, s)
  <1> SUFFICES ASSUME NEW r \in SessionIds, NEW i \in Nat, NEW c \in Connections,
                      WaitingIn(new, r, i, c)
               PROVE  WaitingIn(q, r, IF r = s THEN i + 1 ELSE i, c) /\ (r = s => i # 0)
    OBVIOUS
  <1>0. new[s] = Tail(q[s]) /\ \A o \in SessionIds \ {s} : new[o] = q[o]
    BY DEF Shorter
  <1> HIDE DEF new
  <1>1. CASE r # s
    BY <1>0, <1>1 DEF WaitingIn
  <1>2. CASE r = s
    <2>1. q[s] \in Seq(Operations) /\ Len(q[s]) \in Nat \ {0} /\ new[s] = Tail(q[s])
      BY <1>0
    <2>2. /\ DOMAIN new[s] = 1 .. Len(q[s]) - 1 /\ DOMAIN q[s] = 1 .. Len(q[s])
          /\ \A j \in 1 .. Len(q[s]) - 1 : new[s][j] = q[s][j + 1]
      <3>1. /\ Tail(q[s]) \in Seq(Operations) /\ Len(Tail(q[s])) = Len(q[s]) - 1
            /\ \A j \in 1 .. Len(q[s]) - 1 : Tail(q[s])[j] = q[s][j + 1]
        BY <2>1
      <3>2. DOMAIN Tail(q[s]) = 1 .. Len(q[s]) - 1
        BY <3>1
      <3> QED BY <2>1, <3>1, <3>2
    <2>3. i \in 1 .. Len(q[s]) - 1 /\ i + 1 \in 1 .. Len(q[s])
      BY <1>2, <2>1, <2>2 DEF WaitingIn
    <2> QED BY <1>2, <2>2, <2>3 DEF WaitingIn
  <1> QED BY <1>1, <1>2

\* A subscribe that waits in a chain that grew waited there before, or is the new
\* one.
LEMMA WaitingAppend ==
  ASSUME NEW q \in [SessionIds -> Seq(Operations)], NEW s \in SessionIds, NEW op \in Operations
  PROVE  \A r \in SessionIds, i \in Nat, c \in Connections : WaitingIn(Longer(q, s, op), r, i, c) =>
           \/ WaitingIn(q, r, i, c)
           \/ r = s /\ i = Len(q[s]) + 1 /\ op.kind = "subscribe" /\ op.connection = c
  <1> DEFINE new == Longer(q, s, op)
  <1> SUFFICES ASSUME NEW r \in SessionIds, NEW i \in Nat, NEW c \in Connections,
                      WaitingIn(new, r, i, c)
               PROVE  \/ WaitingIn(q, r, i, c)
                      \/ r = s /\ i = Len(q[s]) + 1 /\ op.kind = "subscribe" /\ op.connection = c
    OBVIOUS
  <1>0. new[s] = Append(q[s], op) /\ \A o \in SessionIds \ {s} : new[o] = q[o]
    BY DEF Longer
  <1> HIDE DEF new
  <1>1. CASE r # s
    BY <1>0, <1>1 DEF WaitingIn
  <1>2. CASE r = s
    <2> DEFINE last == Len(q[s]) + 1
    <2>1. q[s] \in Seq(Operations) /\ Len(q[s]) \in Nat /\ new[s] = Append(q[s], op)
      BY <1>0
    <2>2. /\ DOMAIN new[s] = 1 .. last /\ DOMAIN q[s] = 1 .. Len(q[s]) /\ new[s][last] = op
          /\ \A j \in 1 .. Len(q[s]) : new[s][j] = q[s][j]
      <3>1. /\ Append(q[s], op) \in Seq(Operations) /\ Len(Append(q[s], op)) = last
            /\ Append(q[s], op)[last] = op
            /\ \A j \in 1 .. Len(q[s]) : Append(q[s], op)[j] = q[s][j]
        BY <2>1
      <3>2. DOMAIN Append(q[s], op) = 1 .. last
        BY <3>1
      <3> QED BY <2>1, <3>1, <3>2
    <2>3. CASE i = last
      BY <1>2, <2>2, <2>3 DEF WaitingIn
    <2>4. CASE i # last
      <3>1. i \in 1 .. Len(q[s])
        BY <1>2, <2>1, <2>2, <2>4 DEF WaitingIn
      <3> QED BY <1>2, <2>2, <3>1 DEF WaitingIn
    <2> QED BY <2>3, <2>4
  <1> QED BY <1>1, <1>2

-----------------------------------------------------------------------------
\* The waiting subscribes and the subscriptions, step by step.
LEMMA DequeueStreams ==
  ASSUME TypeOK, StreamsInv, NEW s \in SessionIds, queue[s] # <<>>, Dequeue(s),
         subscriptions' \subseteq subscriptions,
         \A c \in Connections : /\ sockets'[c].session = sockets[c].session
                               /\ sockets'[c].stream = sockets[c].stream
  PROVE  StreamsInv'
  <1>1. queue \in [SessionIds -> Seq(Operations)] /\ queue' = Shorter(queue, s)
    BY DEF TypeOK, Dequeue, Shorter
  <1>2. \A r \in SessionIds, i \in Nat, c \in Connections : WaitingIn(queue', r, i, c) =>
          WaitingIn(queue, r, IF r = s THEN i + 1 ELSE i, c)
    BY <1>1, WaitingTail
  <1>3. QueuedInv'
    <2> SUFFICES ASSUME NEW r \in SessionIds, NEW i \in Nat, NEW c \in Connections,
                        WaitingIn(queue', r, i, c)
                 PROVE  /\ sockets'[c].session = r /\ sockets'[c].stream = "pending"
                        /\ \A j \in Nat : WaitingIn(queue', r, j, c) => j = i
      BY DEF QueuedInv
    <2> DEFINE before(j) == IF r = s THEN j + 1 ELSE j
    <2>1. WaitingIn(queue, r, before(i), c) /\ before(i) \in Nat
      BY <1>2
    <2>2. /\ sockets[c].session = r /\ sockets[c].stream = "pending"
          /\ \A j \in Nat : WaitingIn(queue, r, j, c) => j = before(i)
      BY <2>1 DEF StreamsInv, QueuedInv
    <2>3. ASSUME NEW j \in Nat, WaitingIn(queue', r, j, c) PROVE j = i
      <3>1. WaitingIn(queue, r, before(j), c) /\ before(j) \in Nat
        BY <1>2, <2>3
      <3>2. before(j) = before(i)
        BY <2>2, <3>1
      <3> QED BY <3>2
    <2> QED BY <2>2, <2>3
  <1>4. RegisteredInv'
    BY DEF StreamsInv, RegisteredInv
  <1> QED BY <1>3, <1>4 DEF StreamsInv

\* A subscribe that leaves its chain had no subscription, and its stream holds at
\* most the one it registers.
LEMMA SubscribeStreams ==
  ASSUME TypeOK, ChainInv, StreamsInv, NEW s \in SessionIds, FinishSubscribe(s)
  PROVE  /\ StreamsInv'
         /\ <<s, Head(queue[s]).connection>> \notin subscriptions
         /\ \A r \in SessionIds : <<r, Head(queue[s]).connection>> \notin subscriptions
  <1> DEFINE c == Head(queue[s]).connection
  <1>1. queue[s] # <<>> /\ Dequeue(s) /\ Running(s, {"subscribe"}, "settled")
    BY DEF FinishSubscribe, Running
  <1>2. /\ c \in Connections /\ \A d \in Connections \ {c} : sockets'[d] = sockets[d]
        /\ sockets'[c].session = sockets[c].session
        /\ \/ UNCHANGED subscriptions
           \/ subscriptions' = subscriptions \cup {<<s, c>>} /\ sockets'[c].stream = "granted"
    BY SubscribeEffect DEF Granted, Refused, BecomesSocket
  <1> HIDE DEF c
  <1>3. WaitingIn(queue, s, 1, c)
    <2>1. /\ queue[s] \in Seq(Operations) /\ Len(queue[s]) \in Nat \ {0}
          /\ Head(queue[s]) = queue[s][1] /\ Head(queue[s]).kind = "subscribe"
      BY <1>1, RunningHead
    <2> QED BY <2>1 DEF WaitingIn, c
  <1>4. sockets[c].session = s /\ sockets[c].stream = "pending"
    BY <1>2, <1>3 DEF StreamsInv, QueuedInv
  <1>5. \A r \in SessionIds : <<r, c>> \notin subscriptions
    BY <1>2, <1>4 DEF StreamsInv, RegisteredInv
  <1>6. queue \in [SessionIds -> Seq(Operations)] /\ queue' = Shorter(queue, s)
    BY <1>1 DEF TypeOK, Dequeue, Shorter
  <1>7. \A r \in SessionIds, i \in Nat, d \in Connections : WaitingIn(queue', r, i, d) =>
          WaitingIn(queue, r, IF r = s THEN i + 1 ELSE i, d) /\ (r = s => i # 0)
    BY <1>1, <1>6, WaitingTail
  <1>8. \A r \in SessionIds, i \in Nat : ~WaitingIn(queue', r, i, c)
    <2> SUFFICES ASSUME NEW r \in SessionIds, NEW i \in Nat, WaitingIn(queue', r, i, c)
                 PROVE  FALSE
      OBVIOUS
    <2>1. /\ WaitingIn(queue, r, IF r = s THEN i + 1 ELSE i, c) /\ (r = s => i # 0)
          /\ (IF r = s THEN i + 1 ELSE i) \in Nat
      BY <1>2, <1>7
    <2>2. r = s
      BY <1>2, <1>4, <2>1 DEF StreamsInv, QueuedInv
    <2>3. i + 1 = 1
      BY <1>2, <1>3, <2>1, <2>2 DEF StreamsInv, QueuedInv
    <2> QED BY <2>1, <2>2, <2>3
  <1>9. QueuedInv'
    <2> SUFFICES ASSUME NEW r \in SessionIds, NEW i \in Nat, NEW d \in Connections,
                        WaitingIn(queue', r, i, d)
                 PROVE  /\ sockets'[d].session = r /\ sockets'[d].stream = "pending"
                        /\ \A j \in Nat : WaitingIn(queue', r, j, d) => j = i
      BY DEF QueuedInv
    <2> DEFINE before(j) == IF r = s THEN j + 1 ELSE j
    <2>0. d # c /\ sockets'[d] = sockets[d]
      BY <1>2, <1>8
    <2>1. WaitingIn(queue, r, before(i), d) /\ before(i) \in Nat
      BY <1>7
    <2>2. /\ sockets[d].session = r /\ sockets[d].stream = "pending"
          /\ \A j \in Nat : WaitingIn(queue, r, j, d) => j = before(i)
      BY <2>1 DEF StreamsInv, QueuedInv
    <2>3. ASSUME NEW j \in Nat, WaitingIn(queue', r, j, d) PROVE j = i
      <3>1. WaitingIn(queue, r, before(j), d) /\ before(j) \in Nat
        BY <1>7, <2>3
      <3>2. before(j) = before(i)
        BY <2>2, <3>1
      <3> QED BY <3>2
    <2> QED BY <2>0, <2>2, <2>3
  <1>10. RegisteredInv'
    <2> SUFFICES ASSUME NEW r \in SessionIds, NEW d \in Connections, <<r, d>> \in subscriptions'
                 PROVE  sockets'[d].session = r /\ sockets'[d].stream \in {"granted", "ready"}
      BY DEF RegisteredInv
    <2>1. CASE d = c
      <3>1. <<r, d>> = <<s, c>> /\ sockets'[c].stream = "granted"
        BY <1>2, <1>5, <2>1
      <3>2. r = s
        BY <3>1
      <3> QED BY <1>2, <1>4, <2>1, <3>1, <3>2
    <2>2. CASE d # c
      <3>1. <<r, d>> \in subscriptions
        BY <1>2, <2>2
      <3> QED BY <1>2, <2>2, <3>1 DEF StreamsInv, RegisteredInv
    <2> QED BY <2>1, <2>2
  <1> QED BY <1>5, <1>9, <1>10 DEF StreamsInv, c

\* A request that is no subscribe leaves the streams as they are.
LEMMA RequestStreams ==
  ASSUME TypeOK, StreamsInv, NEW s \in SessionIds, NEW op \in Operations, op.kind # "subscribe",
         Enqueue(s, op), UNCHANGED <<sockets, subscriptions>>
  PROVE  StreamsInv'
  <1>1. queue \in [SessionIds -> Seq(Operations)] /\ queue' = Longer(queue, s, op)
    BY DEF TypeOK, Enqueue, Longer
  <1>2. \A r \in SessionIds, i \in Nat, c \in Connections :
          WaitingIn(queue', r, i, c) => WaitingIn(queue, r, i, c)
    BY <1>1, WaitingAppend
  <1> QED BY <1>2 DEF StreamsInv, QueuedInv, RegisteredInv

\* A new socket waits once, with a pending stream and no subscription.
LEMMA ConnectStreams ==
  ASSUME TypeOK, StreamsInv, NEW s \in SessionIds, NEW c \in Connections, NEW since \in 0 .. 1,
         Connect(c, s, since)
  PROVE  StreamsInv'
  <1> DEFINE op == [kind |-> "subscribe", connection |-> c]
  <1>1. /\ queue \in [SessionIds -> Seq(Operations)] /\ queue' = Longer(queue, s, op)
        /\ sockets \in [Connections -> Sockets] /\ op \in Operations /\ UNCHANGED subscriptions
    BY DEF TypeOK, Connect, Enqueue, Longer, Operations
  <1>2. /\ sockets[c].stream = "none" /\ \A d \in Connections \ {c} : sockets'[d] = sockets[d]
        /\ sockets'[c].session = s /\ sockets'[c].stream = "pending"
    BY <1>1 DEF Connect, Unused
  <1> HIDE DEF op
  <1>3. \A r \in SessionIds, i \in Nat, d \in Connections : WaitingIn(queue', r, i, d) =>
          WaitingIn(queue, r, i, d) \/ (r = s /\ i = Len(queue[s]) + 1 /\ d = c)
    <2>1. op.connection = c
      BY DEF op
    <2> QED BY <1>1, <2>1, WaitingAppend
  <1>4. \A r \in SessionIds, i \in Nat : ~WaitingIn(queue, r, i, c)
    BY <1>2 DEF StreamsInv, QueuedInv
  <1>5. QueuedInv'
    <2> SUFFICES ASSUME NEW r \in SessionIds, NEW i \in Nat, NEW d \in Connections,
                        WaitingIn(queue', r, i, d)
                 PROVE  /\ sockets'[d].session = r /\ sockets'[d].stream = "pending"
                        /\ \A j \in Nat : WaitingIn(queue', r, j, d) => j = i
      BY DEF QueuedInv
    <2>1. CASE d = c
      BY <1>2, <1>3, <1>4, <2>1
    <2>2. CASE d # c
      <3>1. \A j \in Nat : WaitingIn(queue', r, j, d) => WaitingIn(queue, r, j, d)
        BY <1>3, <2>2
      <3> QED BY <1>2, <2>2, <3>1 DEF StreamsInv, QueuedInv
    <2> QED BY <2>1, <2>2
  <1>6. RegisteredInv'
    <2> SUFFICES ASSUME NEW r \in SessionIds, NEW d \in Connections, <<r, d>> \in subscriptions
                 PROVE  sockets'[d].session = r /\ sockets'[d].stream \in {"granted", "ready"}
      BY <1>1 DEF RegisteredInv
    <2>1. sockets[d].session = r /\ sockets[d].stream \in {"granted", "ready"}
      BY DEF StreamsInv, RegisteredInv
    <2>2. d # c
      BY <1>2, <2>1
    <2> QED BY <1>2, <2>1, <2>2
  <1> QED BY <1>5, <1>6 DEF StreamsInv

\* A socket that closes, or learns how to unsubscribe, releases at most its own
\* subscription.
LEMMA SocketStreams ==
  ASSUME TypeOK, StreamsInv, NEW c \in Connections, StreamReady(c) \/ SocketClose(c)
  PROVE  StreamsInv'
  <1>1. /\ \A d \in Connections \ {c} : sockets'[d] = sockets[d]
        /\ sockets'[c].session = sockets[c].session
        /\ \/ sockets[c].stream = "granted" /\ sockets'[c].stream = "ready"
           \/ sockets'[c].stream = sockets[c].stream
        /\ UNCHANGED queue /\ subscriptions' \subseteq subscriptions
    BY SocketEffect DEF BecomesSocket, ReleaseSubscriber
  <1>2. QueuedInv'
    <2> SUFFICES ASSUME NEW r \in SessionIds, NEW i \in Nat, NEW d \in Connections,
                        WaitingIn(queue, r, i, d)
                 PROVE  /\ sockets'[d].session = r /\ sockets'[d].stream = "pending"
                        /\ \A j \in Nat : WaitingIn(queue, r, j, d) => j = i
      BY <1>1 DEF QueuedInv
    <2>1. /\ sockets[d].session = r /\ sockets[d].stream = "pending"
          /\ \A j \in Nat : WaitingIn(queue, r, j, d) => j = i
      BY DEF StreamsInv, QueuedInv
    <2> QED BY <1>1, <2>1
  <1>3. RegisteredInv'
    <2> SUFFICES ASSUME NEW r \in SessionIds, NEW d \in Connections, <<r, d>> \in subscriptions
                 PROVE  sockets'[d].session = r /\ sockets'[d].stream \in {"granted", "ready"}
      BY <1>1 DEF RegisteredInv
    <2>1. sockets[d].session = r /\ sockets[d].stream \in {"granted", "ready"}
      BY DEF StreamsInv, RegisteredInv
    <2> QED BY <1>1, <2>1
  <1> QED BY <1>2, <1>3 DEF StreamsInv

-----------------------------------------------------------------------------
CountInv == QueueBound /\ FiniteInv /\ CapacityIsExact

\* The creations that CapacityIsExact counts, as a function of the chains.
LEMMA PendingIs == PendingCreations = Pending(queue) /\ PendingCreations' = Pending(queue')
  BY DEF PendingCreations, Pending

\* The counters when an operation joins its chain: only a creation reserves.
LEMMA EnqueueCounts ==
  ASSUME TypeOK, CountInv, NEW s \in SessionIds, NEW op \in Operations, Enqueue(s, op),
         UNCHANGED <<runtimes, subscriberCount, subscriptions>>,
         IF op.kind = "create"
         THEN /\ Cardinality(LiveSessions) + reservedSessions < MaxSessions
              /\ reservedSessions' = reservedSessions + 1
         ELSE UNCHANGED reservedSessions
  PROVE  CountInv'
  <1>1. /\ queue \in [SessionIds -> Seq(Operations)] /\ queue' = Longer(queue, s, op)
        /\ issued \in Nat /\ issued' = issued + 1 /\ issued' <= MaxOperations /\ MaxOperations \in Nat
    BY EnqueueType, Limits DEF TypeOK, Enqueue, Longer
  <1>2. \A r \in SessionIds : Len(queue[r]) \in Nat /\ Len(queue[r]) <= issued
    BY <1>1 DEF CountInv, QueueBound
  <1>3. QueueBound'
    <2>1. \A r \in SessionIds : Len(queue'[r]) \in {Len(queue[r]), Len(queue[r]) + 1}
      <3>1. Len(Append(queue[s], op)) = Len(queue[s]) + 1
        BY <1>1
      <3>2. \A r \in SessionIds : queue'[r] = IF r = s THEN Append(queue[s], op) ELSE queue[r]
        BY <1>1 DEF Longer
      <3> QED BY <3>1, <3>2
    <2> QED BY <1>1, <1>2, <2>1 DEF QueueBound
  <1>4. Len(queue[s]) < MaxOperations
    BY <1>1, <1>2
  <1>5. /\ Pending(queue') = IF op.kind = "create" THEN Pending(queue) \cup {<<s, Len(queue[s]) + 1>>}
                             ELSE Pending(queue)
        /\ <<s, Len(queue[s]) + 1>> \notin Pending(queue)
    BY <1>1, <1>4, PendingAppend
  <1>6. IsFiniteSet(Pending(queue)) /\ reservedSessions = Cardinality(Pending(queue))
    BY PendingIs DEF CountInv, FiniteInv, CapacityIsExact
  <1>7. IsFiniteSet(Pending(queue')) /\ reservedSessions' = Cardinality(Pending(queue'))
    <2>1. CASE op.kind = "create"
      BY <1>5, <1>6, <2>1, FS_AddElement
    <2>2. CASE op.kind # "create"
      BY <1>5, <1>6, <2>2
    <2> QED BY <2>1, <2>2
  <1>8. LiveSessions' = LiveSessions
    BY DEF LiveSessions
  <1>9. FiniteInv'
    BY <1>7, <1>8, PendingIs DEF CountInv, FiniteInv
  <1>10. Cardinality(LiveSessions) + reservedSessions' <= MaxSessions
    <2>1. Cardinality(LiveSessions) \in Nat /\ reservedSessions \in Nat /\ MaxSessions \in Nat
      BY <1>6, FS_CardinalityType, ServiceAssumption DEF CountInv, FiniteInv
    <2> QED BY <2>1 DEF CountInv, CapacityIsExact
  <1>11. CapacityIsExact'
    BY <1>7, <1>8, <1>10, PendingIs DEF CountInv, CapacityIsExact
  <1> QED BY <1>3, <1>9, <1>11 DEF CountInv

\* The counters when an operation leaves its chain: a creation returns its
\* reservation, and the subscriptions are counted.
LEMMA DequeueCounts ==
  ASSUME TypeOK, CountInv, NEW s \in SessionIds, queue[s] # <<>>, Dequeue(s), UNCHANGED issued,
         IF Head(queue[s]).kind = "create"
         THEN /\ reservedSessions' = reservedSessions - 1
              /\ LiveSessions' \subseteq LiveSessions \cup {s}
         ELSE UNCHANGED reservedSessions /\ LiveSessions' \subseteq LiveSessions,
         IsFiniteSet(subscriptions'), subscriberCount' = Cardinality(subscriptions'),
         subscriberCount' <= MaxSubscribers
  PROVE  CountInv'
  <1>1. /\ queue \in [SessionIds -> Seq(Operations)] /\ queue' = Shorter(queue, s)
        /\ issued \in Nat /\ issued <= MaxOperations /\ MaxOperations \in Nat
    BY Limits DEF TypeOK, Dequeue, Shorter, CountInv, QueueBound
  <1>2. \A r \in SessionIds : Len(queue[r]) \in Nat /\ Len(queue[r]) <= issued
    BY <1>1 DEF CountInv, QueueBound
  <1>3. QueueBound'
    <2>1. \A r \in SessionIds : Len(queue'[r]) \in {Len(queue[r]), Len(queue[r]) - 1}
      <3>1. Len(Tail(queue[s])) = Len(queue[s]) - 1
        BY <1>1
      <3>2. \A r \in SessionIds : queue'[r] = IF r = s THEN Tail(queue[s]) ELSE queue[r]
        BY <1>1 DEF Shorter
      <3> QED BY <3>1, <3>2
    <2> QED BY <1>1, <1>2, <2>1 DEF QueueBound
  <1>4. \A r \in SessionIds : Len(queue[r]) <= MaxOperations
    BY <1>1, <1>2
  <1>5. IsFiniteSet(Pending(queue)) /\ reservedSessions = Cardinality(Pending(queue))
    BY PendingIs DEF CountInv, FiniteInv, CapacityIsExact
  <1>6. /\ IsFiniteSet(Pending(queue'))
        /\ Cardinality(Pending(queue')) =
             IF Head(queue[s]).kind = "create" THEN Cardinality(Pending(queue)) - 1
             ELSE Cardinality(Pending(queue))
    BY <1>1, <1>4, <1>5, PendingTail
  <1>7. reservedSessions' = Cardinality(Pending(queue'))
    BY <1>5, <1>6
  <1>8. IsFiniteSet(LiveSessions) /\ IsFiniteSet(LiveSessions \cup {s})
    BY FS_AddElement DEF CountInv, FiniteInv
  <1>9. /\ IsFiniteSet(LiveSessions')
        /\ Cardinality(LiveSessions') + reservedSessions' <= MaxSessions
    <2>1. /\ Cardinality(LiveSessions) \in Nat /\ reservedSessions \in Nat /\ MaxSessions \in Nat
          /\ Cardinality(LiveSessions) + reservedSessions <= MaxSessions
      BY <1>5, <1>8, FS_CardinalityType, ServiceAssumption DEF CountInv, CapacityIsExact
    <2>2. CASE Head(queue[s]).kind = "create"
      <3>1. Cardinality(LiveSessions \cup {s})
              \in {Cardinality(LiveSessions), Cardinality(LiveSessions) + 1}
        BY <1>8, FS_AddElement
      <3>2. /\ IsFiniteSet(LiveSessions') /\ Cardinality(LiveSessions') \in Nat
            /\ Cardinality(LiveSessions') <= Cardinality(LiveSessions \cup {s})
        BY <1>8, <2>2, FS_Subset, FS_CardinalityType
      <3> QED BY <2>1, <2>2, <3>1, <3>2
    <2>3. CASE Head(queue[s]).kind # "create"
      <3>1. /\ IsFiniteSet(LiveSessions') /\ Cardinality(LiveSessions') \in Nat
            /\ Cardinality(LiveSessions') <= Cardinality(LiveSessions)
        BY <1>8, <2>3, FS_Subset, FS_CardinalityType
      <3> QED BY <2>1, <2>3, <3>1
    <2> QED BY <2>2, <2>3
  <1>10. FiniteInv'
    BY <1>6, <1>9, PendingIs DEF FiniteInv
  <1>11. CapacityIsExact'
    BY <1>7, <1>9, PendingIs DEF CapacityIsExact
  <1> QED BY <1>3, <1>10, <1>11 DEF CountInv

\* The subscriptions stay counted when an operation settles.
LEMMA SubscriptionsCounted ==
  ASSUME BaseInv, StreamsInv, CountInv, NEW s \in SessionIds,
         \/ FinishCreate(s) \/ FinishUpdate(s) \/ FinishRead(s)
         \/ FinishSubscribe(s) \/ FinishDelete(s)
  PROVE  /\ IsFiniteSet(subscriptions') /\ subscriberCount' = Cardinality(subscriptions')
         /\ subscriberCount' <= MaxSubscribers
  <1>0. /\ TypeOK /\ ChainInv /\ IsFiniteSet(subscriptions)
        /\ subscriptions \subseteq SessionIds \X Connections
        /\ subscriberCount = Cardinality(subscriptions) /\ subscriberCount <= MaxSubscribers
    BY DEF BaseInv, TypeOK, CountInv, FiniteInv, CapacityIsExact
  <1>1. subscriberCount \in Nat /\ MaxSubscribers \in Nat
    BY <1>0, FS_CardinalityType, ServiceAssumption
  <1>2. ASSUME NEW T \in SUBSET SubscribersOf(s),
               subscriptions' = subscriptions \ {<<s, c>> : c \in T},
               subscriberCount' = subscriberCount - Cardinality(T)
        PROVE  /\ IsFiniteSet(subscriptions') /\ subscriberCount' = Cardinality(subscriptions')
               /\ subscriberCount' <= MaxSubscribers
    <2>1. IsFiniteSet(T)
      BY <1>0, <1>2, SubscribersFinite, FS_Subset
    <2>2. Cardinality(T) \in Nat
      BY <2>1, FS_CardinalityType
    <2>3. /\ IsFiniteSet(subscriptions')
          /\ Cardinality(subscriptions') = Cardinality(subscriptions) - Cardinality(T)
      BY <1>0, <1>2, SubscribersLeave
    <2> QED BY <1>0, <1>1, <1>2, <2>2, <2>3
  <1>3. CASE UNCHANGED <<subscriptions, subscriberCount>>
    BY <1>0, <1>3
  <1>4. CASE FinishUpdate(s)
    <2>1. CASE Published(call[s])
      <3>1. call[s].record \in Histories
        BY <1>0, <1>4, <2>1 DEF ChainInv, FinishUpdate, Running, Published
      <3>2. call[s].record.revision \in Nat /\ Publish(s, call[s].record.revision)
        BY <1>4, <2>1, <3>1 DEF FinishUpdate, Histories, Records
      <3>3. \E failing \in SUBSET {c \in SubscribersOf(s) : sockets[c].state = "open"} :
              /\ subscriptions' = subscriptions \ {<<s, c>> : c \in failing}
              /\ subscriberCount' = subscriberCount - Cardinality(failing)
        BY <1>0, <3>2, PublishEffect
      <3>4. \E failing \in SUBSET SubscribersOf(s) :
              /\ subscriptions' = subscriptions \ {<<s, c>> : c \in failing}
              /\ subscriberCount' = subscriberCount - Cardinality(failing)
        BY <3>3
      <3> QED BY <1>2, <3>4
    <2>2. CASE ~Published(call[s])
      BY <1>3, <1>4, <2>2 DEF FinishUpdate
    <2> QED BY <2>1, <2>2
  <1>5. CASE FinishSubscribe(s)
    <2> DEFINE c == Head(queue[s]).connection
    <2>1. <<s, c>> \notin subscriptions
      BY <1>0, <1>5, SubscribeStreams
    <2>2. \/ UNCHANGED <<subscriptions, subscriberCount>>
          \/ /\ subscriberCount < MaxSubscribers /\ subscriptions' = subscriptions \cup {<<s, c>>}
             /\ subscriberCount' = subscriberCount + 1
      <3>1. \E delivered \in Seq(Nat) : Granted(s, c, delivered) \/ Refused(s, c, delivered)
        BY <1>0, <1>5, SubscribeEffect
      <3> QED BY <3>1 DEF Granted, Refused
    <2> HIDE DEF c
    <2>3. IsFiniteSet(subscriptions \cup {<<s, c>>})
          /\ Cardinality(subscriptions \cup {<<s, c>>}) = Cardinality(subscriptions) + 1
      BY <1>0, <2>1, FS_AddElement
    <2> QED BY <1>0, <1>1, <1>3, <2>2, <2>3
  <1>6. CASE FinishDelete(s)
    <2>1. CASE call[s].ok
      <3>1. subscriptions \ ({s} \X Connections)
              = subscriptions \ {<<s, c>> : c \in SubscribersOf(s)}
        <4>1. \A p \in subscriptions :
                p \in {s} \X Connections <=> p \in {<<s, c>> : c \in SubscribersOf(s)}
          <5> SUFFICES ASSUME NEW p \in subscriptions
                       PROVE  p \in {s} \X Connections <=> p \in {<<s, c>> : c \in SubscribersOf(s)}
            OBVIOUS
          <5>1. PICK r \in SessionIds, c \in Connections : p = <<r, c>>
            BY <1>0
          <5>2. CASE r = s
            <6>1. c \in SubscribersOf(s)
              BY <5>1, <5>2 DEF SubscribersOf
            <6> QED BY <5>1, <5>2, <6>1
          <5>3. CASE r # s
            BY <5>1, <5>3
          <5> QED BY <5>2, <5>3
        <4> QED BY <4>1
      <3>2. SubscribersOf(s) \in SUBSET SubscribersOf(s)
        OBVIOUS
      <3>3. /\ subscriptions' = subscriptions \ {<<s, c>> : c \in SubscribersOf(s)}
            /\ subscriberCount' = subscriberCount - Cardinality(SubscribersOf(s))
        BY <1>6, <2>1, <3>1 DEF FinishDelete
      <3> QED BY <1>2, <3>2, <3>3
    <2>2. CASE ~call[s].ok
      BY <1>3, <1>6, <2>2 DEF FinishDelete
    <2> QED BY <2>1, <2>2
  <1>7. CASE FinishCreate(s) \/ FinishRead(s)
    BY <1>3, <1>7 DEF FinishCreate, FinishRead
  <1> QED BY <1>4, <1>5, <1>6, <1>7

\* Every continuation keeps the counters exact, whatever its operation came to.
LEMMA FinishCounts ==
  ASSUME BaseInv, StreamsInv, CountInv, NEW s \in SessionIds,
         \/ FinishCreate(s) \/ FinishUpdate(s) \/ FinishRead(s)
         \/ FinishSubscribe(s) \/ FinishDelete(s)
  PROVE  CountInv'
  <1>1. /\ queue[s] # <<>> /\ Dequeue(s) /\ UNCHANGED issued
        /\ TypeOK /\ runtimes \in [SessionIds -> Trackers \cup {None}]
    BY FinishKeepsBase DEF BaseInv, TypeOK
  <1>2. /\ IsFiniteSet(subscriptions') /\ subscriberCount' = Cardinality(subscriptions')
        /\ subscriberCount' <= MaxSubscribers
    BY SubscriptionsCounted
  <1>3. IF Head(queue[s]).kind = "create"
        THEN /\ reservedSessions' = reservedSessions - 1
             /\ LiveSessions' \subseteq LiveSessions \cup {s}
        ELSE UNCHANGED reservedSessions /\ LiveSessions' \subseteq LiveSessions
    <2>1. CASE FinishCreate(s)
      <3>1. Head(queue[s]).kind = "create" /\ reservedSessions' = reservedSessions - 1
        BY <2>1 DEF FinishCreate, Running
      <3>2. \A r \in SessionIds \ {s} : runtimes'[r] = runtimes[r]
        BY <1>1, <2>1 DEF FinishCreate
      <3> QED BY <3>1, <3>2 DEF LiveSessions
    <2>2. CASE FinishUpdate(s) \/ FinishRead(s) \/ FinishSubscribe(s)
      <3>1. Head(queue[s]).kind # "create" /\ UNCHANGED <<reservedSessions, runtimes>>
        BY <2>2 DEF FinishUpdate, FinishRead, FinishSubscribe, Running
      <3> QED BY <3>1 DEF LiveSessions
    <2>3. CASE FinishDelete(s)
      <3>1. Head(queue[s]).kind # "create" /\ UNCHANGED reservedSessions
        BY <2>3 DEF FinishDelete, Running
      <3>2. \A r \in SessionIds : runtimes'[r] = runtimes[r] \/ runtimes'[r] = None
        BY <1>1, <2>3 DEF FinishDelete
      <3> QED BY <3>1, <3>2 DEF LiveSessions
    <2> QED BY <2>1, <2>2, <2>3
  <1> QED BY <1>1, <1>2, <1>3, DequeueCounts

\* A step that leaves the chains, the reservations and the live sessions alone.
LEMMA OtherCounts ==
  ASSUME CountInv, UNCHANGED <<queue, issued, reservedSessions>>, LiveSessions' = LiveSessions,
         IsFiniteSet(subscriptions'), subscriberCount' = Cardinality(subscriptions'),
         subscriberCount' <= MaxSubscribers
  PROVE  CountInv'
  <1>1. PendingCreations' = PendingCreations
    BY DEF PendingCreations
  <1> QED BY <1>1 DEF CountInv, QueueBound, FiniteInv, CapacityIsExact

\* A call of the store changes no counter.
LEMMA StoreCounts ==
  ASSUME CountInv, NEW s \in SessionIds, StoreEffect(s)
  PROVE  CountInv'
  <1>1. LiveSessions' = LiveSessions
    <2>1. \A r \in SessionIds : runtimes'[r] = None <=> runtimes[r] = None
      BY DEF StoreEffect
    <2> QED BY <2>1 DEF LiveSessions
  <1> QED BY <1>1, OtherCounts DEF StoreEffect, CountInv, FiniteInv, CapacityIsExact

\* A socket that releases its subscription counts it down once.
LEMMA SocketCounts ==
  ASSUME TypeOK, CountInv, NEW c \in Connections, StreamReady(c) \/ SocketClose(c)
  PROVE  CountInv'
  <1>1. /\ ReleaseSubscriber(sockets[c].session, c) \/ UNCHANGED <<subscriptions, subscriberCount>>
        /\ UNCHANGED <<runtimes, queue, reservedSessions, issued>>
    BY SocketEffect
  <1>2. /\ IsFiniteSet(subscriptions) /\ subscriberCount = Cardinality(subscriptions)
        /\ subscriberCount <= MaxSubscribers /\ subscriberCount \in Nat /\ MaxSubscribers \in Nat
    BY FS_CardinalityType, ServiceAssumption DEF CountInv, FiniteInv, CapacityIsExact
  <1>3. /\ IsFiniteSet(subscriptions') /\ subscriberCount' = Cardinality(subscriptions')
        /\ subscriberCount' <= MaxSubscribers
    <2> DEFINE p == <<sockets[c].session, c>>
    <2>1. CASE p \in subscriptions /\ ReleaseSubscriber(sockets[c].session, c)
      <3>1. subscriptions' = subscriptions \ {p} /\ subscriberCount' = subscriberCount - 1
        BY <2>1 DEF ReleaseSubscriber
      <3> HIDE DEF p
      <3>2. /\ IsFiniteSet(subscriptions \ {p})
            /\ Cardinality(subscriptions \ {p}) = Cardinality(subscriptions) - 1
        BY <1>2, <2>1, FS_RemoveElement
      <3> QED BY <1>2, <3>1, <3>2
    <2>2. CASE UNCHANGED <<subscriptions, subscriberCount>>
      BY <1>2, <2>2
    <2> QED BY <1>1, <2>1, <2>2 DEF ReleaseSubscriber
  <1>4. LiveSessions' = LiveSessions
    BY <1>1 DEF LiveSessions
  <1> QED BY <1>1, <1>3, <1>4, OtherCounts

-----------------------------------------------------------------------------
\* At the start nothing is counted and nothing waits.
LEMMA InitCapacity ==
  ASSUME Init PROVE StreamsInv /\ CountInv
  <1>1. \A s \in SessionIds : queue[s] = <<>> /\ runtimes[s] = None /\ DOMAIN queue[s] = {}
    BY DEF Init
  <1>2. LiveSessions = {} /\ PendingCreations = {} /\ subscriptions = {}
    BY <1>1 DEF Init, LiveSessions, PendingCreations
  <1>3. StreamsInv
    BY <1>1, <1>2 DEF StreamsInv, QueuedInv, RegisteredInv, WaitingIn
  <1>4. IsFiniteSet({}) /\ Cardinality({}) = 0
    BY FS_EmptySet
  <1>5. FiniteInv
    BY <1>2, <1>4 DEF FiniteInv
  <1>6. QueueBound
    BY <1>1, Limits DEF Init, QueueBound
  <1>7. CapacityIsExact
    BY <1>2, <1>4, ServiceAssumption DEF Init, CapacityIsExact
  <1> QED BY <1>3, <1>5, <1>6, <1>7 DEF CountInv

\* Every step keeps the counters exact and the streams in order.
LEMMA NextCapacity ==
  ASSUME BaseInv, StreamsInv, CountInv, [Next]_vars
  PROVE  StreamsInv' /\ CountInv'
  <1>0. TypeOK /\ ChainInv
    BY DEF BaseInv
  <1>1. ASSUME NEW s \in SessionIds, Create(s) \/ \E op \in Requests : Request(s, op)
        PROVE  StreamsInv' /\ CountInv'
    <2>1. PICK op \in Operations :
            /\ op.kind # "subscribe" /\ Enqueue(s, op)
            /\ UNCHANGED <<sockets, runtimes, subscriberCount, subscriptions>>
            /\ IF op.kind = "create"
               THEN /\ Cardinality(LiveSessions) + reservedSessions < MaxSessions
                    /\ reservedSessions' = reservedSessions + 1
               ELSE UNCHANGED reservedSessions
      <3>1. CASE Create(s)
        <4> DEFINE op == [kind |-> "create"]
        <4>1. op \in Operations /\ op.kind = "create"
          BY DEF Operations
        <4>2. /\ Enqueue(s, op) /\ UNCHANGED <<sockets, runtimes, subscriberCount, subscriptions>>
              /\ Cardinality(LiveSessions) + reservedSessions < MaxSessions
              /\ reservedSessions' = reservedSessions + 1
          BY <3>1 DEF Create
        <4> HIDE DEF op
        <4> QED BY <4>1, <4>2
      <3>2. ASSUME NEW op \in Requests, Request(s, op)
            PROVE  /\ op \in Operations /\ op.kind # "subscribe" /\ op.kind # "create"
                   /\ Enqueue(s, op)
                   /\ UNCHANGED <<sockets, runtimes, subscriberCount, subscriptions, reservedSessions>>
        <4>1. op \in Operations /\ op.kind \in {"submit", "reset", "delete", "read"}
          BY DEF Requests, Submits, Operations
        <4> QED BY <3>2, <4>1 DEF Request
      <3> QED BY <1>1, <3>1, <3>2
    <2>2. StreamsInv'
      BY <1>0, <2>1, RequestStreams
    <2>3. CountInv'
      BY <1>0, <2>1, EnqueueCounts
    <2> QED BY <2>2, <2>3
  <1>2. ASSUME NEW s \in SessionIds, NEW c \in Connections, NEW since \in 0 .. 1,
               Connect(c, s, since)
        PROVE  StreamsInv' /\ CountInv'
    <2> DEFINE op == [kind |-> "subscribe", connection |-> c]
    <2>1. op \in Operations /\ op.kind # "create"
      BY DEF Operations
    <2>2. /\ Enqueue(s, op)
          /\ UNCHANGED <<runtimes, subscriberCount, subscriptions, reservedSessions>>
      BY <1>2 DEF Connect
    <2> HIDE DEF op
    <2>3. CountInv'
      BY <1>0, <2>1, <2>2, EnqueueCounts
    <2> QED BY <1>0, <1>2, <2>3, ConnectStreams
  <1>3. ASSUME NEW s \in SessionIds, StoreEffect(s)
        PROVE  StreamsInv' /\ CountInv'
    <2>1. StreamsInv'
      BY <1>3 DEF StoreEffect, StreamsInv, QueuedInv, RegisteredInv, WaitingIn
    <2> QED BY <1>3, <2>1, StoreCounts
  <1>4. ASSUME NEW s \in SessionIds,
               \/ FinishCreate(s) \/ FinishUpdate(s) \/ FinishRead(s)
               \/ FinishSubscribe(s) \/ FinishDelete(s)
        PROVE  StreamsInv' /\ CountInv'
    <2>1. queue[s] # <<>> /\ Dequeue(s)
      BY <1>4, FinishKeepsBase
    <2>2. CountInv'
      BY <1>4, FinishCounts
    <2>3. CASE FinishSubscribe(s)
      BY <1>0, <2>2, <2>3, SubscribeStreams
    <2>4. CASE FinishCreate(s) \/ FinishRead(s) \/ FinishDelete(s)
      <3>1. subscriptions' \subseteq subscriptions /\ UNCHANGED sockets
        BY <2>4 DEF FinishCreate, FinishRead, FinishDelete
      <3> QED BY <1>0, <2>1, <2>2, <3>1, DequeueStreams
    <2>5. CASE FinishUpdate(s)
      <3>1. CASE ~Published(call[s])
        <4>1. UNCHANGED <<subscriptions, sockets>>
          BY <2>5, <3>1 DEF FinishUpdate
        <4> QED BY <1>0, <2>1, <2>2, <4>1, DequeueStreams
      <3>2. CASE Published(call[s])
        <4>1. call[s].record \in Histories
          BY <1>0, <2>5, <3>2 DEF ChainInv, FinishUpdate, Running, Published
        <4>2. call[s].record.revision \in Nat /\ Publish(s, call[s].record.revision)
          BY <2>5, <3>2, <4>1 DEF FinishUpdate, Histories, Records
        <4>3. /\ subscriptions' \subseteq subscriptions
              /\ \A c \in Connections : /\ sockets'[c].session = sockets[c].session
                                        /\ sockets'[c].stream = sockets[c].stream
          BY <1>0, <4>2, PublishEffect DEF BecomesSocket
        <4> QED BY <1>0, <2>1, <2>2, <4>3, DequeueStreams
      <3> QED BY <3>1, <3>2
    <2> QED BY <1>4, <2>3, <2>4, <2>5
  <1>5. ASSUME NEW c \in Connections, StreamReady(c) \/ SocketClose(c)
        PROVE  StreamsInv' /\ CountInv'
    BY <1>0, <1>5, SocketStreams, SocketCounts
  <1>6. CASE UNCHANGED vars
    <2>1. LiveSessions' = LiveSessions
      BY <1>6 DEF vars, LiveSessions
    <2>2. CountInv'
      BY <1>6, <2>1, OtherCounts DEF vars, CountInv, FiniteInv, CapacityIsExact
    <2> QED BY <1>6, <2>2 DEF vars, StreamsInv, QueuedInv, RegisteredInv, WaitingIn
  <1> QED BY <1>1, <1>2, <1>3, <1>4, <1>5, <1>6, Steps

\* The inductive invariant of capacity and of the streams that hold it.
LEMMA CapacityKept == Spec => [](BaseInv /\ StreamsInv /\ CountInv)
  <1>1. Init => BaseInv /\ StreamsInv /\ CountInv
    BY InitBase, InitCapacity
  <1>2. (BaseInv /\ StreamsInv /\ CountInv) /\ [Next]_vars
          => (BaseInv /\ StreamsInv /\ CountInv)'
    BY NextBase, NextCapacity
  <1> QED BY <1>1, <1>2, PTL DEF Spec

\* Capacity is neither leaked nor exceeded: the reservations are the creations in
\* flight, sessions and reservations stay within maxSessions, and the counter of
\* subscribers is the number registered, within its limit.
THEOREM Capacity == Spec => []CapacityIsExact
  <1>1. BaseInv /\ StreamsInv /\ CountInv => CapacityIsExact
    BY DEF CountInv
  <1> QED BY <1>1, CapacityKept, PTL

-----------------------------------------------------------------------------
(***************************************************************************)
(* With a store that does not fail, a session's record and its tracker say *)
(* the same, and what was acknowledged is recorded.                        *)
(***************************************************************************)

\* The record and the tracker of a session agree.
Agree(s) ==
  IF records[s] = None THEN runtimes[s] = None
  ELSE /\ runtimes[s] # None
       /\ records[s].revision = runtimes[s].revision
       /\ records[s].observationIds = runtimes[s].ids
       /\ records[s].latest = runtimes[s].latest
       /\ Consecutive(records[s].snapshots)

Done(s, kind) == call[s].stage = "settled" /\ call[s].ok /\ Head(queue[s]).kind = kind

\* They agree but between the store's creation or deletion of the record and
\* the service's of the tracker.
AgreeInv ==
  \A s \in SessionIds :
    IF Done(s, "create") THEN records[s] = NewRecord /\ runtimes[s] = None
    ELSE IF Done(s, "delete") THEN records[s] = None ELSE Agree(s)

AcknowledgedInv ==
  \A s \in SessionIds : Done(s, "submit") =>
    /\ Head(queue[s]).observationId \in Entries(records[s].observationIds)
    /\ call[s].record = records[s]

RecordInv == AgreeInv /\ AcknowledgedInv

\* A newer snapshot that follows the last one keeps them consecutive.
LEMMA RetainedConsecutive ==
  ASSUME NEW r \in Histories, Consecutive(r.snapshots)
  PROVE  Consecutive(Retained(r.snapshots, r.revision + 1))
  <1> DEFINE old == r.snapshots
             new == Retained(old, r.revision + 1)
  <1>1. /\ old \in Seq(Nat) /\ Len(old) \in Nat \ {0} /\ Consecutive(old)
        /\ old[Len(old)] = r.revision /\ r.revision + 1 \in Nat
    BY Limits DEF Histories, Records
  <1> HIDE DEF old
  <1>2. EndsWith(LastOf(Append(old, r.revision + 1), SnapshotLimit), Nat, old, r.revision + 1,
                 SnapshotLimit)
    BY <1>1, RetainedProperties, Limits
  <1>3. /\ new \in Seq(Nat) /\ Len(new) \in 1 .. SnapshotLimit /\ new[Len(new)] = r.revision + 1
        /\ Len(new) <= Len(old) + 1
        /\ \A i \in 1 .. Len(new) - 1 : new[i] = old[i + Len(old) + 1 - Len(new)]
    BY <1>2 DEF Retained, EndsWith
  <1> HIDE DEF new
  <1>4. ASSUME NEW i \in 1 .. Len(new) - 1 PROVE new[i + 1] = new[i] + 1
    <2> DEFINE k == i + Len(old) + 1 - Len(new)
    <2>1. k \in 1 .. Len(old) /\ new[i] = old[k]
      BY <1>1, <1>3
    <2>2. CASE i + 1 = Len(new)
      <3>0. i \in Int /\ Len(old) \in Int /\ Len(new) \in Int
        BY <1>1, <1>3
      <3>1. k = Len(old)
        BY <2>2, <3>0
      <3>2. new[i + 1] = r.revision + 1
        BY <1>3, <2>2
      <3> HIDE DEF k
      <3>3. new[i] = r.revision
        BY <1>1, <2>1, <3>1
      <3> QED BY <3>2, <3>3
    <2>3. CASE i + 1 # Len(new)
      <3>1. /\ i + 1 \in 1 .. Len(new) - 1 /\ k \in 1 .. Len(old) - 1
            /\ i + 1 + Len(old) + 1 - Len(new) = k + 1
        BY <1>1, <1>3, <2>3
      <3> HIDE DEF k
      <3>2. new[i + 1] = old[k + 1]
        BY <1>3, <3>1
      <3>3. old[k + 1] = old[k] + 1
        BY <1>1, <3>1 DEF Consecutive
      <3> QED BY <2>1, <3>2, <3>3
    <2> QED BY <2>2, <2>3
  <1>5. Consecutive(new)
    BY <1>4 DEF Consecutive
  <1> QED BY <1>5 DEF new, old

\* A call of a store that does not fail takes effect and is acknowledged.
LEMMA NoFaults ==
  ASSUME StoreFaults = {}
  PROVE  \A fault \in Faults : Mutates(fault) /\ Effective(fault) /\ Acknowledged(fault)
  BY DEF Faults, Mutates, Effective, Acknowledged

\* store.update of a store that does not fail.
LEMMA ExactUpdate ==
  ASSUME StoreFaults = {}, TypeOK, NEW s \in SessionIds, NEW t, NEW record, NEW changed,
         Update(s, t, record, changed)
  PROVE  /\ runtimes'[s] = t /\ records'[s] = record
         /\ call'[s] = Settled(TRUE, record, changed)
  <1>1. PICK fault \in Faults :
          /\ runtimes' = [runtimes EXCEPT ![s] = IF Mutates(fault) THEN t ELSE @]
          /\ records' = [records EXCEPT ![s] = IF Effective(fault) THEN record ELSE @]
          /\ Settle(s, Settled(Acknowledged(fault), record, changed))
    BY DEF Update
  <1>2. Mutates(fault) /\ Effective(fault) /\ Acknowledged(fault)
    BY NoFaults
  <1>3. Acknowledged(fault) = TRUE
    BY <1>2 DEF Acknowledged
  <1>4. call'[s] = Settled(TRUE, record, changed)
    BY <1>1, <1>3 DEF Settle, TypeOK
  <1> QED BY <1>1, <1>2, <1>4 DEF TypeOK

-----------------------------------------------------------------------------
\* The tracker and the record of an accepted observation.
LEMMA SubmitAgrees ==
  ASSUME NEW r \in Histories, NEW t \in Trackers, NEW op \in Submits,
         r.revision = t.revision, r.observationIds = t.ids, r.latest = t.latest,
         Consecutive(r.snapshots),
         op.observationId \notin Entries(r.observationIds), ~Stale(r, op)
  PROVE  LET u   == TrackerSubmit(t, op)
             new == SubmitRecord(r, u, op)
         IN  /\ u \in Trackers /\ u.revision = t.revision + 1
             /\ new.revision = u.revision /\ new.observationIds = u.ids /\ new.latest = u.latest
             /\ new \in Histories /\ Consecutive(new.snapshots)
             /\ op.observationId \in Entries(new.observationIds)
  <1> DEFINE ids == LastOf(Append(t.ids, op.observationId), ObservationIdLimit)
             u   == [revision |-> t.revision + 1, ids |-> ids, latest |-> op.sourceRevision]
             new == SubmitRecord(r, u, op)
  <1>0. op.observationId \in ObservationIds /\ op.sourceRevision \in Nat
    BY SubmitFields
  <1>1. t.revision \in Nat /\ t.ids \in Seq(ObservationIds)
    BY DEF Trackers
  <1>2. EndsWith(ids, ObservationIds, t.ids, op.observationId, ObservationIdLimit)
    BY <1>0, <1>1, RetainedProperties, Limits
  <1>3. ids \in Seq(ObservationIds) /\ op.observationId \in Entries(ids)
    <2> HIDE DEF ids
    <2>1. /\ ids \in Seq(ObservationIds) /\ Len(ids) \in 1 .. ObservationIdLimit
          /\ ids[Len(ids)] = op.observationId
      BY <1>2 DEF EndsWith
    <2>2. Len(ids) \in DOMAIN ids
      BY <2>1, Limits
    <2> QED BY <2>1, <2>2 DEF Entries
  <1>4. TrackerSubmit(t, op) = u
    BY DEF TrackerSubmit, Stale
  <1>5. ids = LastOf(Append(r.observationIds, op.observationId), ObservationIdLimit)
    OBVIOUS
  <1> HIDE DEF ids
  <1>6. /\ u \in Trackers /\ u.revision = t.revision + 1 /\ u.ids = ids
        /\ u.latest = op.sourceRevision
    BY <1>0, <1>1, <1>3 DEF Trackers
  <1> HIDE DEF u
  <1>7. new = [revision |-> u.revision, snapshots |-> Retained(r.snapshots, u.revision),
               observationIds |-> ids, latest |-> op.sourceRevision]
    BY <1>5 DEF SubmitRecord
  <1>8. /\ new.revision = u.revision /\ new.snapshots = Retained(r.snapshots, r.revision + 1)
        /\ new.observationIds = ids /\ new.latest = op.sourceRevision
    BY <1>6, <1>7
  <1>9. new \in Histories
    BY <1>1, <1>6, RecordTypes
  <1> HIDE DEF new
  <1>10. Consecutive(new.snapshots)
    BY <1>8, RetainedConsecutive
  <1> QED BY <1>3, <1>4, <1>6, <1>8, <1>9, <1>10 DEF new

\* The tracker and the record of a reset.
LEMMA ResetAgrees ==
  ASSUME NEW r \in Histories, NEW t \in Trackers, r.revision = t.revision,
         Consecutive(r.snapshots)
  PROVE  LET u   == TrackerReset(t)
             new == ResetRecord(r, u)
         IN  /\ u \in Trackers /\ new.revision = u.revision /\ new.observationIds = u.ids
             /\ new.latest = u.latest /\ Consecutive(new.snapshots) /\ new \in Histories
  <1> DEFINE u   == TrackerReset(t)
             new == ResetRecord(r, u)
  <1>1. u \in Trackers /\ u.revision = r.revision + 1 /\ u.ids = <<>> /\ u.latest = -1
    BY ResetTypes DEF TrackerReset
  <1> HIDE DEF u
  <1>2. /\ new.revision = u.revision /\ new.snapshots = Retained(r.snapshots, r.revision + 1)
        /\ new.observationIds = <<>> /\ new.latest = -1
    BY <1>1 DEF ResetRecord
  <1>4. new \in Histories
    <2>1. r.revision < u.revision
      BY <1>1 DEF Histories, Records
    <2> QED BY <1>1, <2>1, ResetTypes
  <1> HIDE DEF new
  <1>3. Consecutive(new.snapshots)
    BY <1>2, RetainedConsecutive
  <1> QED BY <1>1, <1>2, <1>3, <1>4 DEF u, new

-----------------------------------------------------------------------------
\* What RecordInv says of the session whose operation called the store.
Kept(s) ==
  /\ IF Done(s, "create") THEN records[s] = NewRecord /\ runtimes[s] = None
     ELSE IF Done(s, "delete") THEN records[s] = None ELSE Agree(s)
  /\ Done(s, "submit") =>
       /\ Head(queue[s]).observationId \in Entries(records[s].observationIds)
       /\ call[s].record = records[s]

\* A step leaves a session as it is, though an operation may join its chain.
Same(r) ==
  /\ records'[r] = records[r] /\ runtimes'[r] = runtimes[r] /\ call'[r] = call[r]
  /\ queue[r] # <<>> => queue'[r] # <<>> /\ Head(queue'[r]) = Head(queue[r])

Calls(s) ==
  \/ ResolveCorpus(s) \/ StoreCreate(s) \/ StoreReset(s)
  \/ StoreSubmit(s) \/ StoreGet(s) \/ StoreDelete(s)

Continues(s) ==
  \/ FinishCreate(s) \/ FinishUpdate(s) \/ FinishRead(s)
  \/ FinishSubscribe(s) \/ FinishDelete(s)

\* What is kept of a session is kept by a step that leaves it as it is.
LEMMA Local ==
  ASSUME NEW r \in SessionIds, Kept(r), Same(r), call[r].stage # "idle" => queue[r] # <<>>
  PROVE  Kept(r)'
  <1>1. CASE call[r].stage = "idle"
    BY <1>1 DEF Same, Kept, Done, Agree
  <1>2. CASE call[r].stage # "idle"
    <2>1. Head(queue'[r]) = Head(queue[r])
      BY <1>2 DEF Same
    <2> QED BY <2>1 DEF Same, Kept, Done, Agree
  <1> QED BY <1>1, <1>2

\* RecordInv says the same of every session.
LEMMA EachKept ==
  /\ RecordInv <=> \A s \in SessionIds : Kept(s)
  /\ RecordInv' <=> \A s \in SessionIds : Kept(s)'
  BY DEF RecordInv, AgreeInv, AcknowledgedInv, Kept

\* An operation that fails, or reads, leaves the session as it is.
LEMMA Unchanged ==
  ASSUME NEW s \in SessionIds, Agree(s), records'[s] = records[s], runtimes'[s] = runtimes[s],
         call'[s].stage = "settled" /\ call'[s].ok
           => Head(queue'[s]).kind \notin {"create", "delete", "submit"}
  PROVE  Kept(s)'
  <1>1. ~Done(s, "create")' /\ ~Done(s, "delete")' /\ ~Done(s, "submit")'
    BY DEF Done
  <1> QED BY <1>1 DEF Kept, Agree

\* A call of the store keeps record and tracker of its session together.
LEMMA StoreKept ==
  ASSUME StoreFaults = {}, BaseInv, NEW s \in SessionIds, Kept(s), StoreEffect(s),
         \/ ResolveCorpus(s) \/ StoreCreate(s) \/ StoreReset(s)
         \/ StoreSubmit(s) \/ StoreGet(s) \/ StoreDelete(s)
  PROVE  Kept(s)'
  <1>0. /\ TypeOK /\ queue[s] # <<>> /\ call[s].stage # "settled" /\ queue' = queue
        /\ records[s] \in Histories \cup {None} /\ runtimes[s] \in Trackers \cup {None}
        /\ call \in [SessionIds -> Outcomes \cup {Idle, Resolved}]
    BY DEF BaseInv, TypeOK, StoreEffect
  <1>1. Agree(s)
    BY <1>0 DEF Kept, Done
  <1>2. ASSUME UNCHANGED records, runtimes'[s] = runtimes[s], Settle(s, Rejected)
        PROVE  Kept(s)'
    <2>1. call'[s] = Rejected
      BY <1>0, <1>2 DEF Settle
    <2>2. ~call'[s].ok
      BY <2>1 DEF Rejected, Settled
    <2> QED BY <1>1, <1>2, <2>2, Unchanged
  <1>3. CASE ResolveCorpus(s)
    <2>1. UNCHANGED <<records, runtimes>>
      BY <1>3 DEF ResolveCorpus
    <2>2. CASE Settle(s, Resolved)
      <3>1. call'[s].stage = "resolved"
        BY <1>0, <2>2 DEF Settle, Resolved
      <3> QED BY <1>1, <2>1, <3>1, Unchanged
    <2>3. CASE Settle(s, Rejected)
      BY <1>2, <2>1, <2>3
    <2> QED BY <1>3, <2>2, <2>3 DEF ResolveCorpus
  <1>4. CASE StoreCreate(s)
    <2>1. Head(queue[s]).kind = "create" /\ UNCHANGED runtimes
      BY <1>4 DEF StoreCreate, Running
    <2>2. CASE records[s] # None
      BY <1>2, <1>4, <2>1, <2>2 DEF StoreCreate
    <2>3. CASE records[s] = None
      <3>1. PICK fault \in Faults :
              records' = [records EXCEPT ![s] = IF Effective(fault) THEN NewRecord ELSE @]
        BY <1>4, <2>3 DEF StoreCreate
      <3>2. records'[s] = NewRecord
        BY <1>0, <3>1, NoFaults DEF TypeOK
      <3>3. runtimes'[s] = None
        BY <1>1, <2>1, <2>3 DEF Agree
      <3>4. Done(s, "create")' /\ ~Done(s, "submit")'
        <4>1. call'[s].stage = "settled" /\ call'[s].ok
          <5>1. PICK fault2 \in Faults : Settle(s, Settled(Acknowledged(fault2), NewRecord, TRUE))
            BY <1>4, <2>3 DEF StoreCreate
          <5>2. call'[s] = Settled(Acknowledged(fault2), NewRecord, TRUE) /\ Acknowledged(fault2)
            BY <1>0, <5>1, NoFaults DEF Settle
          <5> QED BY <5>2 DEF Settled
        <4> QED BY <1>0, <2>1, <4>1 DEF Done
      <3> QED BY <3>2, <3>3, <3>4 DEF Kept
    <2> QED BY <2>2, <2>3
  <1>5. CASE StoreReset(s)
    <2>1. Head(queue[s]).kind = "reset"
      BY <1>5 DEF StoreReset, Running
    <2>2. CASE RejectUpdate(s)
      BY <1>2, <2>2 DEF RejectUpdate
    <2>3. CASE /\ runtimes[s] # None /\ records[s] # None
               /\ Update(s, TrackerReset(runtimes[s]),
                         ResetRecord(records[s], TrackerReset(runtimes[s])), TRUE)
      <3>1. /\ runtimes[s] \in Trackers /\ records[s] \in Histories
            /\ records[s].revision = runtimes[s].revision /\ Consecutive(records[s].snapshots)
        BY <1>0, <1>1, <2>3 DEF Agree
      <3> DEFINE u   == TrackerReset(runtimes[s])
                 new == ResetRecord(records[s], u)
      <3>2. /\ u \in Trackers /\ new.revision = u.revision /\ new.observationIds = u.ids
            /\ new.latest = u.latest /\ Consecutive(new.snapshots) /\ new \in Histories
        BY <3>1, ResetAgrees
      <3>3. runtimes'[s] = u /\ records'[s] = new
        BY <1>0, <2>3, ExactUpdate
      <3> HIDE DEF u, new
      <3>4. runtimes'[s] # None /\ records'[s] # None
        BY <3>2, <3>3, NewTypes
      <3>5. Agree(s)'
        BY <3>2, <3>3, <3>4 DEF Agree
      <3>6. ~Done(s, "create")' /\ ~Done(s, "delete")' /\ ~Done(s, "submit")'
        BY <1>0, <2>1 DEF Done
      <3> QED BY <3>5, <3>6 DEF Kept
    <2> QED BY <1>5, <2>2, <2>3 DEF StoreReset
  <1>6. CASE StoreSubmit(s)
    <2> DEFINE op == Head(queue[s])
               t  == TrackerSubmit(runtimes[s], op)
               changed == t.revision # runtimes[s].revision
    <2>1. op \in Submits /\ op.kind = "submit"
      <3>1. op \in Operations /\ op.kind \in {"submit"}
        BY <1>0, <1>6, RunningHead DEF StoreSubmit
      <3> QED BY <3>1, SubmitOperation
    <2>2. ~Done(s, "create")' /\ ~Done(s, "delete")'
      BY <1>0, <2>1 DEF Done
    <2>3. CASE RejectUpdate(s)
      BY <1>2, <2>3 DEF RejectUpdate
    <2>4. CASE /\ records[s] # None /\ op.observationId \in Entries(records[s].observationIds)
               /\ Update(s, runtimes[s], records[s], FALSE)
      <3>1. /\ runtimes'[s] = runtimes[s] /\ records'[s] = records[s]
            /\ call'[s] = Settled(TRUE, records[s], FALSE)
        BY <1>0, <2>4, ExactUpdate
      <3>2. call'[s].record = records[s]
        BY <3>1 DEF Settled
      <3> QED BY <1>0, <1>1, <2>2, <2>4, <3>1, <3>2 DEF Kept, Agree
    <2>5. CASE /\ records[s] # None /\ op.observationId \notin Entries(records[s].observationIds)
               /\ ~Stale(records[s], op) /\ runtimes[s] # None
               /\ Update(s, t, IF changed THEN SubmitRecord(records[s], t, op) ELSE records[s],
                         changed)
      <3> DEFINE new == SubmitRecord(records[s], t, op)
      <3>1. /\ runtimes[s] \in Trackers /\ records[s] \in Histories
            /\ records[s].revision = runtimes[s].revision /\ Consecutive(records[s].snapshots)
            /\ records[s].observationIds = runtimes[s].ids
            /\ records[s].latest = runtimes[s].latest
        BY <1>0, <1>1, <2>5 DEF Agree
      <3>2. /\ t \in Trackers /\ t.revision = runtimes[s].revision + 1
            /\ new.revision = t.revision /\ new.observationIds = t.ids /\ new.latest = t.latest
            /\ new \in Histories /\ Consecutive(new.snapshots)
            /\ op.observationId \in Entries(new.observationIds)
        BY <2>1, <2>5, <3>1, SubmitAgrees
      <3>3. Update(s, t, IF changed THEN new ELSE records[s], changed)
        BY <2>5
      <3> HIDE DEF t, new, op
      <3>4. changed
        <4>1. runtimes[s].revision \in Nat
          BY <3>1 DEF Trackers
        <4> QED BY <3>2, <4>1
      <3>5. Update(s, t, new, TRUE)
        <4>1. changed = TRUE
          BY <3>4
        <4> QED BY <3>3, <4>1
      <3>6. runtimes'[s] = t /\ records'[s] = new /\ call'[s] = Settled(TRUE, new, TRUE)
        BY <1>0, <3>5, ExactUpdate
      <3>7. call'[s].record = new
        BY <3>6 DEF Settled
      <3>8. t # None /\ new # None
        BY <3>2, NewTypes
      <3>9. Agree(s)'
        BY <3>2, <3>6, <3>8 DEF Agree
      <3>10. op.observationId = Head(queue'[s]).observationId
        BY <1>0 DEF op
      <3> QED BY <2>2, <3>2, <3>6, <3>7, <3>9, <3>10 DEF Kept
    <2> QED BY <1>6, <2>3, <2>4, <2>5 DEF StoreSubmit
  <1>7. CASE StoreGet(s)
    <2>1. /\ Head(queue[s]).kind \in {"read", "subscribe"} /\ UNCHANGED <<records, runtimes>>
      BY <1>7 DEF StoreGet, Running
    <2> QED BY <1>0, <1>1, <2>1, Unchanged
  <1>8. CASE StoreDelete(s)
    <2>1. Head(queue[s]).kind = "delete" /\ UNCHANGED runtimes
      BY <1>8 DEF StoreDelete, Running
    <2>2. PICK fault \in Faults :
            /\ Settle(s, Settled(Acknowledged(fault) /\ records[s] # None, None, TRUE))
            /\ records' = [records EXCEPT ![s] = IF Effective(fault) THEN None ELSE @]
      BY <1>8 DEF StoreDelete
    <2>3. records'[s] = None
      BY <1>0, <2>2, NoFaults DEF TypeOK
    <2>4. ~Done(s, "create")' /\ ~Done(s, "submit")'
      BY <1>0, <2>1 DEF Done
    <2>5. CASE records[s] = None
      <3>1. Agree(s)'
        BY <1>1, <2>1, <2>3, <2>5 DEF Agree
      <3> QED BY <2>3, <2>4, <3>1 DEF Kept
    <2>6. CASE records[s] # None
      <3>1. call'[s] = Settled(TRUE, None, TRUE)
        <4>1. (Acknowledged(fault) /\ records[s] # None) = TRUE
          BY <2>6, NoFaults
        <4> QED BY <1>0, <2>2, <4>1 DEF Settle
      <3>2. Done(s, "delete")'
        <4>1. call'[s].stage = "settled" /\ call'[s].ok
          BY <3>1 DEF Settled
        <4> QED BY <1>0, <2>1, <4>1 DEF Done
      <3>3. ~Done(s, "create")'
        BY <2>4
      <3> QED BY <2>3, <2>4, <3>2 DEF Kept
    <2> QED BY <2>5, <2>6
  <1> QED BY <1>3, <1>4, <1>5, <1>6, <1>7, <1>8

\* The session of an operation that settles.
LEMMA FinishKept ==
  ASSUME BaseInv, NEW s \in SessionIds, Kept(s),
         \/ FinishCreate(s) \/ FinishUpdate(s) \/ FinishRead(s)
         \/ FinishSubscribe(s) \/ FinishDelete(s)
  PROVE  Kept(s)'
  <1>1. /\ TypeOK /\ queue[s] # <<>> /\ Dequeue(s) /\ call[s].stage = "settled"
        /\ UNCHANGED records /\ runtimes \in [SessionIds -> Trackers \cup {None}]
    BY FinishKeepsBase DEF BaseInv, TypeOK
  <1>2. call'[s].stage = "idle"
    BY <1>1, DequeueType DEF Idle
  <1>3. Agree(s)'
    <2>1. CASE FinishCreate(s)
      <3>1. Head(queue[s]).kind = "create"
        BY <2>1 DEF FinishCreate, Running
      <3>2. CASE call[s].ok
        <4>1. records[s] = NewRecord /\ runtimes'[s] = NewTracker
          BY <1>1, <2>1, <3>1, <3>2 DEF Kept, Done, FinishCreate
        <4>2. NewTracker # None /\ NewRecord # None
          BY NewTypes
        <4>3. /\ NewRecord.revision = NewTracker.revision
              /\ NewRecord.observationIds = NewTracker.ids
              /\ NewRecord.latest = NewTracker.latest
          BY DEF NewRecord, NewTracker
        <4>4. Consecutive(NewRecord.snapshots)
          <5>1. NewRecord.snapshots = <<0>> /\ Len(<<0>>) = 1
            BY DEF NewRecord
          <5>2. 1 .. Len(<<0>>) - 1 = {}
            BY <5>1
          <5> QED BY <5>1, <5>2 DEF Consecutive
        <4> QED BY <1>1, <4>1, <4>2, <4>3, <4>4 DEF Agree
      <3>3. CASE ~call[s].ok
        <4>1. Agree(s) /\ runtimes'[s] = runtimes[s]
          BY <1>1, <2>1, <3>1, <3>3 DEF Kept, Done, FinishCreate
        <4> QED BY <1>1, <4>1 DEF Agree
      <3> QED BY <3>2, <3>3
    <2>2. CASE FinishUpdate(s) \/ FinishRead(s) \/ FinishSubscribe(s)
      <3>1. Head(queue[s]).kind \notin {"create", "delete"} /\ UNCHANGED runtimes
        BY <2>2 DEF FinishUpdate, FinishRead, FinishSubscribe, Running
      <3>2. Agree(s)
        BY <3>1 DEF Kept, Done
      <3> QED BY <1>1, <3>1, <3>2 DEF Agree
    <2>3. CASE FinishDelete(s)
      <3>1. Head(queue[s]).kind = "delete"
        BY <2>3 DEF FinishDelete, Running
      <3>2. CASE call[s].ok
        <4>1. records[s] = None /\ runtimes'[s] = None
          BY <1>1, <2>3, <3>1, <3>2 DEF Kept, Done, FinishDelete
        <4> QED BY <1>1, <4>1 DEF Agree
      <3>3. CASE ~call[s].ok
        <4>1. Agree(s) /\ runtimes'[s] = runtimes[s]
          BY <1>1, <2>3, <3>1, <3>3 DEF Kept, Done, FinishDelete
        <4> QED BY <1>1, <4>1 DEF Agree
      <3> QED BY <3>2, <3>3
    <2> QED BY <2>1, <2>2, <2>3
  <1>4. ~Done(s, "create")' /\ ~Done(s, "delete")' /\ ~Done(s, "submit")'
    BY <1>2 DEF Done
  <1> QED BY <1>3, <1>4 DEF Kept

\* A continuation changes the tracker of its own session only.
LEMMA FinishLocal ==
  ASSUME TypeOK, NEW s \in SessionIds, NEW r \in SessionIds \ {s},
         \/ FinishCreate(s) \/ FinishUpdate(s) \/ FinishRead(s)
         \/ FinishSubscribe(s) \/ FinishDelete(s)
  PROVE  runtimes'[r] = runtimes[r]
  BY DEF TypeOK, FinishCreate, FinishUpdate, FinishRead, FinishSubscribe, FinishDelete

\* Every step leaves a session as it is, or is of the operation that holds its
\* chain.
LEMMA SessionSteps ==
  ASSUME BaseInv, [Next]_vars, NEW r \in SessionIds
  PROVE  Same(r) \/ (StoreEffect(r) /\ Calls(r)) \/ Continues(r)
  <1>0. TypeOK
    BY DEF BaseInv
  <1>1. ASSUME NEW s \in SessionIds,
               \/ Create(s) \/ \E op \in Requests : Request(s, op)
               \/ \E c \in Connections, since \in 0 .. 1 : Connect(c, s, since)
        PROVE  Same(r)
    <2>1. PICK op \in Operations : Enqueue(s, op) /\ UNCHANGED <<records, runtimes, call>>
      BY <1>1, EnqueuedOperation
    <2>2. /\ queue'[s] = Append(queue[s], op) /\ queue[s] \in Seq(Operations)
          /\ \A o \in SessionIds \ {s} : queue'[o] = queue[o]
      BY <1>0, <2>1, EnqueueType DEF TypeOK
    <2>3. queue[s] # <<>> => queue'[s] # <<>> /\ Head(queue'[s]) = Head(queue[s])
      BY <2>2, HeadAppend
    <2>4. queue[r] # <<>> => queue'[r] # <<>> /\ Head(queue'[r]) = Head(queue[r])
      BY <2>2, <2>3
    <2> QED BY <2>1, <2>4 DEF Same
  <1>2. ASSUME NEW s \in SessionIds \ {r}, StoreEffect(s)
        PROVE  Same(r)
    <2>1. /\ records'[r] = records[r] /\ runtimes'[r] = runtimes[r] /\ call'[r] = call[r]
          /\ queue'[r] = queue[r]
      BY <1>2 DEF StoreEffect
    <2> QED BY <2>1 DEF Same
  <1>3. ASSUME NEW s \in SessionIds \ {r}, Continues(s)
        PROVE  Same(r)
    <2>1. UNCHANGED records /\ queue[s] # <<>> /\ Dequeue(s)
      BY <1>3, FinishKeepsBase DEF Continues
    <2>2. call'[r] = call[r] /\ queue'[r] = queue[r]
      BY <1>0, <2>1, DequeueType
    <2>3. runtimes'[r] = runtimes[r]
      BY <1>0, <1>3, FinishLocal DEF Continues
    <2> QED BY <2>1, <2>2, <2>3 DEF Same
  <1>4. ASSUME UNCHANGED <<records, runtimes, call, queue>>
        PROVE  Same(r)
    BY <1>4 DEF Same
  <1>5. ASSUME NEW c \in Connections, StreamReady(c) \/ SocketClose(c)
        PROVE  Same(r)
    BY <1>4, <1>5 DEF StreamReady, SocketClose
  <1>6. CASE UNCHANGED vars
    BY <1>4, <1>6 DEF vars
  <1> QED BY <1>1, <1>2, <1>3, <1>5, <1>6, Steps DEF Calls, Continues

\* With a store that does not fail, every step keeps record and tracker together.
LEMMA NextRecord ==
  ASSUME StoreFaults = {}, BaseInv, RecordInv, [Next]_vars
  PROVE  RecordInv'
  <1> SUFFICES ASSUME NEW r \in SessionIds PROVE Kept(r)'
    BY EachKept
  <1>1. Kept(r) /\ (call[r].stage # "idle" => queue[r] # <<>>)
    BY EachKept DEF BaseInv, ChainInv
  <1>2. ASSUME StoreEffect(r), Calls(r) PROVE Kept(r)'
    BY <1>1, <1>2, StoreKept DEF Calls
  <1>3. ASSUME Continues(r) PROVE Kept(r)'
    BY <1>1, <1>3, FinishKept DEF Continues
  <1> QED BY <1>1, <1>2, <1>3, SessionSteps, Local

\* At the start no session has a record or a tracker.
LEMMA InitRecord ==
  ASSUME Init PROVE RecordInv
  <1>1. \A s \in SessionIds : Kept(s)
    BY DEF Init, Kept, Done, Agree, Idle
  <1> QED BY <1>1, EachKept

\* With a store that does not fail, record and tracker agree whenever no
\* operation is between its store call and its continuation.
THEOREM RecordsAgree ==
  ASSUME StoreFaults = {}
  PROVE  Spec => []RecordAgreesWithTracker
  <1>1. Init => RecordInv
    BY InitRecord
  <1>2. BaseInv /\ RecordInv /\ [Next]_vars => RecordInv'
    BY NextRecord
  <1>3. BaseInv /\ RecordInv => RecordAgreesWithTracker
    <2> SUFFICES ASSUME BaseInv, RecordInv, NEW s \in SessionIds, call[s].stage # "settled"
                 PROVE  IF records[s] = None THEN runtimes[s] = None
                        ELSE /\ runtimes[s] # None
                             /\ records[s].revision = runtimes[s].revision
                             /\ records[s].observationIds = runtimes[s].ids
                             /\ records[s].latest = runtimes[s].latest
                             /\ Consecutive(records[s].snapshots)
                             /\ Len(records[s].snapshots) <= SnapshotLimit
                             /\ records[s].snapshots[Len(records[s].snapshots)] = records[s].revision
      BY DEF RecordAgreesWithTracker
    <2>1. Agree(s)
      BY DEF RecordInv, AgreeInv, Done
    <2>2. records[s] # None => /\ Len(records[s].snapshots) <= SnapshotLimit
                               /\ records[s].snapshots[Len(records[s].snapshots)] = records[s].revision
      BY Limits DEF BaseInv, TypeOK, Histories
    <2> QED BY <2>1, <2>2 DEF Agree
  <1> QED BY <1>1, <1>2, <1>3, Typing, PTL DEF Spec

\* With a store that does not fail, an observation that is answered without an
\* error is in the session's record, and the answer is that record.
THEOREM AcknowledgedIsRecorded ==
  ASSUME StoreFaults = {}
  PROVE  Spec => []AcknowledgedMeansRecorded
  <1>1. Init => RecordInv
    BY InitRecord
  <1>2. BaseInv /\ RecordInv /\ [Next]_vars => RecordInv'
    BY NextRecord
  <1>3. RecordInv => AcknowledgedMeansRecorded
    BY DEF RecordInv, AcknowledgedInv, AcknowledgedMeansRecorded, Done, Running
  <1> QED BY <1>1, <1>2, <1>3, Typing, PTL DEF Spec

-----------------------------------------------------------------------------
(***************************************************************************)
(* What the peer of a stream sees of its session: no revision twice, and,  *)
(* with a store that does not fail, every one.                             *)
(***************************************************************************)

\* A change was acknowledged and is not yet published.
Changing(s) ==
  /\ call[s].stage = "settled" /\ call[s].ok /\ call[s].changed
  /\ Head(queue[s]).kind \in {"submit", "reset"}

\* What an operation is about to deliver is the session's record.
Delivers(s) ==
  /\ Done(s, "subscribe") => call[s].record = records[s]
  /\ Changing(s) => /\ call[s].record = records[s] /\ records[s] # None /\ runtimes[s] # None
                    /\ records[s].revision = runtimes[s].revision

OutcomeInv == \A s \in SessionIds : Delivers(s)

\* How a call of the store moves the revisions, whatever it fails at.
Moves(s) ==
  /\ runtimes[s] # None => runtimes[s].revision <= runtimes'[s].revision
  /\ records[s] = None /\ records'[s] # None
       => Head(queue[s]).kind = "create" /\ call'[s].stage = "settled"
  /\ Done(s, "subscribe")' => call'[s].record = records'[s]
  /\ Changing(s)' => /\ runtimes[s] # None /\ runtimes'[s].revision = runtimes[s].revision + 1
                     /\ call'[s].record = records'[s] /\ records[s] # None /\ records'[s] # None
                     /\ records'[s].revision = runtimes'[s].revision
  /\ StoreFaults = {} /\ ~Changing(s)' => runtimes'[s] = runtimes[s]

\* store.update moves the tracker, and the record with it or not at all.
LEMMA UpdateMoves ==
  ASSUME BaseInv, NEW s \in SessionIds, StoreEffect(s), Head(queue[s]).kind \in {"submit", "reset"},
         runtimes[s] # None, records[s] # None,
         NEW t \in Trackers, NEW record \in Histories, NEW changed \in BOOLEAN,
         Update(s, t, record, changed),
         IF changed THEN t.revision = runtimes[s].revision + 1 /\ record.revision = t.revision
         ELSE t = runtimes[s]
  PROVE  Moves(s)
  <1>0. /\ TypeOK /\ queue' = queue /\ runtimes[s] \in Trackers /\ runtimes[s].revision \in Nat
        /\ runtimes \in [SessionIds -> Trackers \cup {None}]
        /\ records \in [SessionIds -> Histories \cup {None}]
        /\ call \in [SessionIds -> Outcomes \cup {Idle, Resolved}]
    BY DEF BaseInv, TypeOK, StoreEffect, Trackers
  <1>1. PICK fault \in Faults :
          /\ runtimes' = [runtimes EXCEPT ![s] = IF Mutates(fault) THEN t ELSE @]
          /\ records' = [records EXCEPT ![s] = IF Effective(fault) THEN record ELSE @]
          /\ Settle(s, Settled(Acknowledged(fault), record, changed))
    BY DEF Update
  <1>2. /\ runtimes'[s] = IF Mutates(fault) THEN t ELSE runtimes[s]
        /\ records'[s] = IF Effective(fault) THEN record ELSE records[s]
        /\ call'[s] = Settled(Acknowledged(fault), record, changed)
    BY <1>0, <1>1 DEF Settle
  <1>3. /\ call'[s].ok = Acknowledged(fault) /\ call'[s].record = record
        /\ call'[s].changed = changed /\ call'[s].stage = "settled"
    BY <1>2 DEF Settled
  <1>4. /\ Acknowledged(fault) => Effective(fault) /\ Mutates(fault)
        /\ StoreFaults = {} => Acknowledged(fault)
    BY DEF Acknowledged, Effective, Mutates, Faults
  <1>5. runtimes[s].revision <= runtimes'[s].revision
    BY <1>0, <1>2
  <1>6. Changing(s)' => /\ runtimes'[s].revision = runtimes[s].revision + 1
                        /\ call'[s].record = records'[s] /\ records'[s] # None
                        /\ records'[s].revision = runtimes'[s].revision
    <2>1. Changing(s)' => Acknowledged(fault) /\ changed
      BY <1>3 DEF Changing
    <2> QED BY <1>2, <1>3, <1>4, <2>1, NewTypes
  <1>7. StoreFaults = {} /\ ~Changing(s)' => runtimes'[s] = runtimes[s]
    <2>1. StoreFaults = {} /\ ~Changing(s)' => ~changed
      BY <1>0, <1>3, <1>4 DEF Changing
    <2> QED BY <1>2, <2>1
  <1>8. ~Done(s, "subscribe")'
    BY <1>0 DEF Done
  <1> QED BY <1>5, <1>6, <1>7, <1>8 DEF Moves

\* Every call of the store moves the revisions as Moves says.
LEMMA StoreMoves ==
  ASSUME BaseInv, NEW s \in SessionIds, StoreEffect(s),
         \/ ResolveCorpus(s) \/ StoreCreate(s) \/ StoreReset(s)
         \/ StoreSubmit(s) \/ StoreGet(s) \/ StoreDelete(s)
  PROVE  Moves(s)
  <1>0. /\ TypeOK /\ queue[s] # <<>> /\ queue' = queue
        /\ records[s] \in Histories \cup {None} /\ runtimes[s] \in Trackers \cup {None}
        /\ runtimes \in [SessionIds -> Trackers \cup {None}]
        /\ records \in [SessionIds -> Histories \cup {None}]
        /\ call \in [SessionIds -> Outcomes \cup {Idle, Resolved}]
        /\ runtimes[s] # None => runtimes[s].revision \in Nat
    BY DEF BaseInv, TypeOK, StoreEffect, Trackers
  <1>1. ASSUME UNCHANGED <<records, runtimes>>, Settle(s, Rejected) \/ Settle(s, Resolved)
        PROVE  Moves(s)
    <2>1. call'[s] \in {Rejected, Resolved}
      BY <1>0, <1>1 DEF Settle
    <2>2. ~Done(s, "subscribe")' /\ ~Changing(s)'
      BY <2>1 DEF Done, Changing, Rejected, Settled, Resolved
    <2> QED BY <1>0, <1>1, <2>2 DEF Moves
  <1>2. CASE ResolveCorpus(s)
    BY <1>1, <1>2 DEF ResolveCorpus
  <1>3. CASE StoreCreate(s)
    <2>1. Head(queue[s]).kind = "create" /\ UNCHANGED runtimes
      BY <1>3 DEF StoreCreate, Running
    <2>2. CASE records[s] # None
      BY <1>1, <1>3, <2>1, <2>2 DEF StoreCreate
    <2>3. CASE records[s] = None
      <3>1. PICK fault \in Faults : Settle(s, Settled(Acknowledged(fault), NewRecord, TRUE))
        BY <1>3, <2>3 DEF StoreCreate
      <3>2. call'[s].stage = "settled"
        BY <1>0, <3>1 DEF Settle, Settled
      <3>3. ~Done(s, "subscribe")' /\ ~Changing(s)'
        BY <1>0, <2>1 DEF Done, Changing
      <3> QED BY <1>0, <2>1, <3>2, <3>3 DEF Moves
    <2> QED BY <2>2, <2>3
  <1>4. CASE StoreReset(s)
    <2>1. Head(queue[s]).kind \in {"submit", "reset"}
      BY <1>4 DEF StoreReset, Running
    <2>2. CASE RejectUpdate(s)
      BY <1>1, <2>2 DEF RejectUpdate
    <2>3. CASE /\ runtimes[s] # None /\ records[s] # None
               /\ Update(s, TrackerReset(runtimes[s]),
                         ResetRecord(records[s], TrackerReset(runtimes[s])), TRUE)
      <3> DEFINE u   == TrackerReset(runtimes[s])
                 new == ResetRecord(records[s], u)
      <3>1. /\ runtimes[s] \in Trackers /\ records[s] \in Histories
            /\ records[s].revision <= runtimes[s].revision
            /\ records[s].revision \in Nat /\ runtimes[s].revision \in Nat
        BY <1>0, <2>3 DEF BaseInv, BehindInv, Histories, Records, Trackers
      <3>2. u \in Trackers /\ u.revision = runtimes[s].revision + 1
        BY <3>1, ResetTypes
      <3>3. records[s].revision < u.revision
        BY <3>1, <3>2
      <3>4. new \in Histories /\ new.revision = u.revision
        BY <3>1, <3>2, <3>3, ResetTypes
      <3>5. Update(s, u, new, TRUE)
        BY <2>3
      <3> HIDE DEF u, new
      <3>6. TRUE \in BOOLEAN
        OBVIOUS
      <3> QED BY <2>1, <2>3, <3>2, <3>4, <3>5, <3>6, UpdateMoves
    <2> QED BY <1>4, <2>2, <2>3 DEF StoreReset
  <1>5. CASE StoreSubmit(s)
    <2> DEFINE op == Head(queue[s])
               t  == TrackerSubmit(runtimes[s], op)
               changed == t.revision # runtimes[s].revision
    <2>1. op \in Submits /\ op.kind \in {"submit", "reset"}
      <3>1. op \in Operations /\ op.kind \in {"submit"}
        BY <1>0, <1>5, RunningHead DEF StoreSubmit
      <3> QED BY <3>1, SubmitOperation
    <2>2. CASE RejectUpdate(s)
      BY <1>1, <2>2 DEF RejectUpdate
    <2>3. CASE records[s] # None /\ Update(s, runtimes[s], records[s], FALSE)
      <3>1. PICK fault \in Faults :
              /\ runtimes' = [runtimes EXCEPT ![s] = IF Mutates(fault) THEN runtimes[s] ELSE @]
              /\ records' = [records EXCEPT ![s] = IF Effective(fault) THEN records[s] ELSE @]
              /\ Settle(s, Settled(Acknowledged(fault), records[s], FALSE))
        BY <2>3 DEF Update
      <3>2. runtimes'[s] = runtimes[s] /\ records'[s] = records[s]
        BY <1>0, <3>1
      <3>3. ~call'[s].changed
        BY <1>0, <3>1 DEF Settle, Settled
      <3>4. ~Done(s, "subscribe")' /\ ~Changing(s)'
        BY <1>0, <2>1, <3>3 DEF Done, Changing
      <3> QED BY <1>0, <3>2, <3>4 DEF Moves
    <2>4. CASE /\ records[s] # None /\ runtimes[s] # None
               /\ Update(s, t, IF changed THEN SubmitRecord(records[s], t, op) ELSE records[s],
                         changed)
      <3> DEFINE record == IF changed THEN SubmitRecord(records[s], t, op) ELSE records[s]
      <3>1. /\ runtimes[s] \in Trackers /\ records[s] \in Histories
            /\ records[s].revision <= runtimes[s].revision
            /\ records[s].revision \in Nat /\ runtimes[s].revision \in Nat
        BY <1>0, <2>4 DEF BaseInv, BehindInv, Histories, Records, Trackers
      <3>2. /\ t \in Trackers /\ t.revision \in {runtimes[s].revision, runtimes[s].revision + 1}
            /\ ~changed => t = runtimes[s]
        BY <2>1, <3>1, SubmitTypes DEF TrackerSubmit
      <3>3. changed \in BOOLEAN /\ Update(s, t, record, changed)
        BY <2>4
      <3> HIDE DEF t, op
      <3>4. changed => t.revision = runtimes[s].revision + 1 /\ records[s].revision < t.revision
        BY <3>1, <3>2
      <3> HIDE DEF changed
      <3>5. record \in Histories /\ (changed => record.revision = t.revision)
        <4>1. CASE changed
          BY <2>1, <3>1, <3>2, <3>4, <4>1, RecordTypes
        <4>2. CASE ~changed
          BY <3>1, <4>2
        <4> QED BY <4>1, <4>2
      <3>6. Head(queue[s]).kind \in {"submit", "reset"}
        BY <2>1 DEF op
      <3> HIDE DEF record
      <3> QED BY <2>4, <3>2, <3>3, <3>4, <3>5, <3>6, UpdateMoves
    <2> QED BY <1>5, <2>2, <2>3, <2>4 DEF StoreSubmit
  <1>6. CASE StoreGet(s)
    <2>1. Head(queue[s]).kind \in {"read", "subscribe"} /\ UNCHANGED <<records, runtimes>>
      BY <1>6 DEF StoreGet, Running
    <2>2. CASE Settle(s, Rejected)
      BY <1>1, <2>1, <2>2
    <2>3. CASE Settle(s, Settled(records[s] # None, records[s], FALSE))
      <3>1. call'[s].record = records[s]
        BY <1>0, <2>3 DEF Settle, Settled
      <3>2. ~Changing(s)'
        BY <1>0, <2>1 DEF Changing
      <3> QED BY <1>0, <2>1, <3>1, <3>2 DEF Moves
    <2> QED BY <1>6, <2>2, <2>3 DEF StoreGet
  <1>7. CASE StoreDelete(s)
    <2>1. Head(queue[s]).kind = "delete" /\ UNCHANGED runtimes
      BY <1>7 DEF StoreDelete, Running
    <2>2. records[s] = None => records'[s] = None
      BY <1>0, <1>7 DEF StoreDelete
    <2>3. ~Done(s, "subscribe")' /\ ~Changing(s)'
      BY <1>0, <2>1 DEF Done, Changing
    <2> QED BY <1>0, <2>1, <2>2, <2>3 DEF Moves
  <1> QED BY <1>2, <1>3, <1>4, <1>5, <1>6, <1>7

\* A session that a step leaves as it is has the same change under way.
LEMMA SameChanging ==
  ASSUME BaseInv, NEW s \in SessionIds, Same(s)
  PROVE  /\ Changing(s)' <=> Changing(s)
         /\ \A kind : Done(s, kind)' <=> Done(s, kind)
  <1>1. call[s].stage = "settled" => queue[s] # <<>>
    BY DEF BaseInv, ChainInv
  <1>2. CASE call[s].stage = "settled"
    <2>1. Head(queue'[s]) = Head(queue[s]) /\ call'[s] = call[s]
      BY <1>1, <1>2 DEF Same
    <2> QED BY <2>1 DEF Changing, Done
  <1>3. CASE call[s].stage # "settled"
    BY <1>3 DEF Same, Changing, Done
  <1> QED BY <1>2, <1>3

\* Once an operation has settled nothing of it is under way.
LEMMA ContinuedIsIdle ==
  ASSUME BaseInv, NEW s \in SessionIds, Continues(s)
  PROVE  /\ UNCHANGED records /\ call[s].stage = "settled" /\ queue[s] # <<>>
         /\ queue'[s] = Tail(queue[s]) /\ call'[s] = Idle
         /\ ~Changing(s)' /\ \A kind : ~Done(s, kind)'
  <1>1. /\ UNCHANGED records /\ call[s].stage = "settled" /\ queue[s] # <<>> /\ Dequeue(s)
    BY FinishKeepsBase DEF Continues
  <1>2. queue'[s] = Tail(queue[s]) /\ call'[s] = Idle
    BY <1>1, DequeueType DEF BaseInv
  <1>3. call'[s].stage # "settled"
    BY <1>2 DEF Idle
  <1> QED BY <1>1, <1>2, <1>3 DEF Changing, Done

\* Every step keeps what is about to be delivered the session's record.
LEMMA NextOutcome ==
  ASSUME BaseInv, OutcomeInv, [Next]_vars
  PROVE  OutcomeInv'
  <1> SUFFICES ASSUME NEW s \in SessionIds PROVE Delivers(s)'
    BY DEF OutcomeInv
  <1>0. Delivers(s)
    BY DEF OutcomeInv
  <1>1. ASSUME Same(s) PROVE Delivers(s)'
    <2>1. /\ Changing(s)' <=> Changing(s)
          /\ Done(s, "subscribe")' <=> Done(s, "subscribe")
      BY <1>1, SameChanging
    <2>2. /\ records'[s] = records[s] /\ runtimes'[s] = runtimes[s] /\ call'[s] = call[s]
      BY <1>1 DEF Same
    <2> QED BY <1>0, <2>1, <2>2 DEF Delivers
  <1>2. ASSUME StoreEffect(s), Calls(s) PROVE Delivers(s)'
    <2>1. Moves(s)
      BY <1>2, StoreMoves DEF Calls
    <2>2. runtimes'[s] = None <=> runtimes[s] = None
      BY <1>2 DEF StoreEffect
    <2> QED BY <2>1, <2>2 DEF Moves, Delivers
  <1>3. ASSUME Continues(s) PROVE Delivers(s)'
    BY <1>3, ContinuedIsIdle DEF Delivers
  <1> QED BY <1>1, <1>2, <1>3, SessionSteps

-----------------------------------------------------------------------------
\* What a step does to a stream: its peer gets nothing, it is opened, its
\* subscribe is done, or a change is published to it.
Subscribed(s, c) == <<s, c>> \in subscriptions

Fewer(c) == \A s \in SessionIds : Subscribed(s, c)' => Subscribed(s, c)

Opened(c) == sockets'[c].delivered = <<>> /\ \A s \in SessionIds : ~Subscribed(s, c)'

Silent(c) ==
  /\ sockets'[c].delivered = sockets[c].delivered /\ sockets'[c].since = sockets[c].since
  /\ sockets'[c].state = "open" => sockets[c].state = "open"
  /\ Fewer(c)
  /\ \A s \in SessionIds :
       Subscribed(s, c)' /\ sockets'[c].state = "open" /\ Changing(s) => Changing(s)'

Receives(s, c) ==
  /\ Continues(s) /\ Changing(s) /\ Subscribed(s, c) /\ sockets[c].state = "open"
  /\ UNCHANGED runtimes
  /\ BecomesSocket(c, "open", sockets[c].stream,
                   Append(sockets[c].delivered, call[s].record.revision))
  /\ \A r \in SessionIds : Subscribed(r, c)' => r = s

Subscribes(s, c) ==
  /\ Continues(s) /\ Head(queue[s]).kind = "subscribe" /\ call[s].stage = "settled"
  /\ UNCHANGED runtimes
  /\ \A r \in SessionIds : Subscribed(r, c)' => r = s
  /\ \E delivered \in Seq(Nat) :
       /\ \/ delivered = <<>>
          \/ call[s].ok /\ Prefixes(delivered, Replay(call[s].record, sockets[c].since))
       /\ Granted(s, c, delivered) \/ (Refused(s, c, delivered) /\ ~Subscribed(s, c)')

\* Every step does one of these to a stream.
LEMMA StreamSteps ==
  ASSUME BaseInv, StreamsInv, [Next]_vars, NEW c \in Connections
  PROVE  \/ Opened(c) \/ Silent(c)
         \/ \E s \in SessionIds : Receives(s, c) \/ Subscribes(s, c)
  <1>0. TypeOK /\ ChainInv /\ sockets[c] \in Sockets
    BY DEF BaseInv, TypeOK
  <1>1. ASSUME NEW s \in SessionIds, Changing(s), call'[s] = call[s]
        PROVE  Changing(s)'
    <2>1. CASE Same(s)
      BY <1>1, <2>1, SameChanging
    <2>2. CASE StoreEffect(s)
      BY <1>1, <2>2 DEF StoreEffect, Changing
    <2>3. CASE Continues(s)
      <3>1. call'[s].stage # call[s].stage
        BY <2>3, ContinuedIsIdle DEF Idle
      <3> QED BY <1>1, <3>1
    <2> QED BY <2>1, <2>2, <2>3, SessionSteps
  <1>2. ASSUME sockets'[c] = sockets[c], Fewer(c),
               \A s \in SessionIds : Subscribed(s, c)' /\ sockets[c].state = "open" /\ Changing(s)
                 => call'[s] = call[s]
        PROVE  Silent(c)
    BY <1>1, <1>2 DEF Silent
  <1>3. ASSUME NEW s \in SessionIds, Create(s) \/ \E op \in Requests : Request(s, op)
        PROVE  Silent(c)
    <2>1. UNCHANGED <<sockets, subscriptions, call>>
      BY <1>3 DEF Create, Request
    <2> QED BY <1>2, <2>1 DEF Fewer, Subscribed
  <1>4. ASSUME NEW s \in SessionIds, NEW d \in Connections, NEW since \in 0 .. 1,
               Connect(d, s, since)
        PROVE  Opened(c) \/ Silent(c)
    <2> DEFINE new == [state |-> "open", session |-> s, since |-> since,
                       stream |-> "pending", delivered |-> <<>>]
    <2>1. /\ UNCHANGED <<subscriptions, call>> /\ sockets[d] = Unused
          /\ sockets' = [sockets EXCEPT ![d] = new]
      BY <1>4 DEF Connect
    <2>2. CASE d = c
      <3>1. sockets'[c] = new
        BY <1>0, <2>1, <2>2 DEF TypeOK
      <3>2. \A r \in SessionIds : <<r, c>> \notin subscriptions
        BY <2>1, <2>2 DEF StreamsInv, RegisteredInv, Unused
      <3> QED BY <2>1, <3>1, <3>2 DEF Opened, Subscribed
    <2>3. CASE d # c
      <3>1. sockets'[c] = sockets[c]
        BY <1>0, <2>1, <2>3 DEF TypeOK
      <3> QED BY <1>2, <2>1, <3>1 DEF Fewer, Subscribed
    <2> QED BY <2>2, <2>3
  <1>5. ASSUME NEW s \in SessionIds, StoreEffect(s) PROVE Silent(c)
    <2>1. UNCHANGED <<sockets, subscriptions>> /\ ~Changing(s)
      BY <1>5 DEF StoreEffect, Changing
    <2>2. \A r \in SessionIds \ {s} : call'[r] = call[r]
      BY <1>5 DEF StoreEffect
    <2> QED BY <1>2, <2>1, <2>2 DEF Fewer, Subscribed
  <1>6. ASSUME NEW s \in SessionIds, Continues(s)
        PROVE  Silent(c) \/ Receives(s, c) \/ Subscribes(s, c)
    <2>0. /\ queue[s] # <<>> /\ Dequeue(s) /\ call[s].stage = "settled"
          /\ \A r \in SessionIds \ {s} : call'[r] = call[r]
      BY <1>0, <1>6, FinishKeepsBase, DequeueType DEF Continues
    <2>1. ASSUME sockets'[c] = sockets[c], Fewer(c),
                 Subscribed(s, c)' /\ sockets[c].state = "open" => ~Changing(s)
          PROVE  Silent(c)
      BY <1>2, <2>0, <2>1
    <2>2. CASE FinishCreate(s) \/ FinishRead(s) \/ FinishDelete(s)
      <3>1. UNCHANGED sockets /\ subscriptions' \subseteq subscriptions
        BY <2>2 DEF FinishCreate, FinishRead, FinishDelete
      <3>2. ~Changing(s)
        BY <2>2 DEF FinishCreate, FinishRead, FinishDelete, Running, Changing
      <3> QED BY <2>1, <3>1, <3>2 DEF Fewer, Subscribed
    <2>3. CASE FinishUpdate(s)
      <3>1. Published(call[s]) <=> Changing(s)
        BY <2>0, <2>3 DEF FinishUpdate, Running, Published, Changing
      <3>2. CASE ~Changing(s)
        <4>1. UNCHANGED <<sockets, subscriptions>>
          BY <2>3, <3>1, <3>2 DEF FinishUpdate
        <4> QED BY <2>1, <3>2, <4>1 DEF Fewer, Subscribed
      <3>3. CASE Changing(s)
        <4>1. call[s].record \in Histories
          BY <1>0, <3>3 DEF ChainInv, Changing
        <4>2. Publish(s, call[s].record.revision) /\ call[s].record.revision \in Nat
          BY <2>3, <3>1, <3>3, <4>1 DEF FinishUpdate, Histories, Records
        <4>3. PICK failing \in SUBSET {d \in SubscribersOf(s) : sockets[d].state = "open"} :
                /\ subscriptions' = subscriptions \ {<<s, d>> : d \in failing}
                /\ \A d \in Connections :
                     IF d \in SubscribersOf(s) \ failing /\ sockets[d].state = "open"
                     THEN BecomesSocket(d, "open", sockets[d].stream,
                                        Append(sockets[d].delivered, call[s].record.revision))
                     ELSE sockets'[d] = sockets[d]
          BY <1>0, <4>2, PublishEffect
        <4>4. CASE c \in SubscribersOf(s) \ failing /\ sockets[c].state = "open"
          <5>1. BecomesSocket(c, "open", sockets[c].stream,
                              Append(sockets[c].delivered, call[s].record.revision))
            BY <4>3, <4>4
          <5>2. Subscribed(s, c) /\ sockets[c].session = s
            BY <4>4 DEF SubscribersOf, Subscribed, StreamsInv, RegisteredInv
          <5>3. \A r \in SessionIds : Subscribed(r, c)' => r = s
            BY <4>3, <5>2 DEF Subscribed, StreamsInv, RegisteredInv
          <5>4. UNCHANGED runtimes
            BY <2>3 DEF FinishUpdate
          <5> QED BY <1>6, <3>3, <4>4, <5>1, <5>2, <5>3, <5>4 DEF Receives
        <4>5. CASE ~(c \in SubscribersOf(s) \ failing /\ sockets[c].state = "open")
          <5>1. sockets'[c] = sockets[c]
            BY <4>3, <4>5
          <5>2. Fewer(c)
            BY <4>3 DEF Fewer, Subscribed
          <5>3. Subscribed(s, c)' => c \in SubscribersOf(s) \ failing
            BY <4>3 DEF Subscribed, SubscribersOf
          <5> QED BY <2>1, <4>5, <5>1, <5>2, <5>3
        <4> QED BY <4>4, <4>5
      <3> QED BY <3>2, <3>3
    <2>4. CASE FinishSubscribe(s)
      <3> DEFINE d == Head(queue[s]).connection
      <3>1. /\ d \in Connections /\ \A e \in Connections \ {d} : sockets'[e] = sockets[e]
            /\ \E delivered \in Seq(Nat) :
                  /\ \/ delivered = <<>>
                     \/ /\ call[s].ok /\ sockets[d].state = "open"
                        /\ Prefixes(delivered, Replay(call[s].record, sockets[d].since))
                  /\ Granted(s, d, delivered) \/ Refused(s, d, delivered)
        BY <1>0, <2>4, SubscribeEffect
      <3>2. \A r \in SessionIds : <<r, d>> \notin subscriptions
        BY <1>0, <2>4, SubscribeStreams
      <3>3. Head(queue[s]).kind = "subscribe" /\ UNCHANGED runtimes
        BY <2>4 DEF FinishSubscribe, Running
      <3> HIDE DEF d
      <3>4. subscriptions' = subscriptions \cup {<<s, d>>} \/ UNCHANGED subscriptions
        BY <3>1 DEF Granted, Refused
      <3>5. CASE c = d
        <4>1. \A r \in SessionIds : Subscribed(r, c)' => r = s
          BY <3>2, <3>4, <3>5 DEF Subscribed
        <4>2. UNCHANGED subscriptions => ~Subscribed(s, c)'
          BY <3>2, <3>5 DEF Subscribed
        <4>3. PICK delivered \in Seq(Nat) :
                /\ \/ delivered = <<>>
                   \/ call[s].ok /\ Prefixes(delivered, Replay(call[s].record, sockets[c].since))
                /\ Granted(s, c, delivered) \/ Refused(s, c, delivered)
          BY <3>1, <3>5
        <4>4. Granted(s, c, delivered) \/ (Refused(s, c, delivered) /\ ~Subscribed(s, c)')
          BY <4>2, <4>3 DEF Refused
        <4>5. \E new \in Seq(Nat) :
                /\ \/ new = <<>>
                   \/ call[s].ok /\ Prefixes(new, Replay(call[s].record, sockets[c].since))
                /\ Granted(s, c, new) \/ (Refused(s, c, new) /\ ~Subscribed(s, c)')
          BY <4>3, <4>4
        <4>6. Continues(s) /\ call[s].stage = "settled"
          BY <1>6, <2>0
        <4> QED BY <3>3, <4>1, <4>5, <4>6 DEF Subscribes
      <3>6. CASE c # d
        <4>1. Fewer(c)
          BY <3>4, <3>6 DEF Fewer, Subscribed
        <4>2. sockets'[c] = sockets[c] /\ ~Changing(s)
          BY <3>1, <3>3, <3>6 DEF Changing
        <4> QED BY <2>1, <4>1, <4>2
      <3> QED BY <3>5, <3>6
    <2> QED BY <1>6, <2>2, <2>3, <2>4 DEF Continues
  <1>7. ASSUME NEW d \in Connections, StreamReady(d) \/ SocketClose(d) PROVE Silent(c)
    <2>1. /\ \A e \in Connections \ {d} : sockets'[e] = sockets[e]
          /\ \/ BecomesSocket(d, sockets[d].state, "ready", sockets[d].delivered)
             \/ BecomesSocket(d, "closed", sockets[d].stream, sockets[d].delivered)
          /\ ReleaseSubscriber(sockets[d].session, d) \/ UNCHANGED subscriptions
          /\ UNCHANGED call
      BY <1>0, <1>7, SocketEffect
    <2>2. Fewer(c)
      BY <2>1 DEF Fewer, Subscribed, ReleaseSubscriber
    <2>3. /\ sockets'[c].delivered = sockets[c].delivered /\ sockets'[c].since = sockets[c].since
          /\ sockets'[c].state = "open" => sockets[c].state = "open"
      BY <2>1 DEF BecomesSocket
    <2> QED BY <1>1, <2>1, <2>2, <2>3 DEF Silent
  <1>8. CASE UNCHANGED vars
    BY <1>2, <1>8 DEF vars, Fewer, Subscribed
  <1> QED BY <1>3, <1>4, <1>5, <1>6, <1>7, <1>8, Steps DEF Continues

-----------------------------------------------------------------------------
\* The creations in a chain: none, or one.
Creates(list) == \E i \in DOMAIN list : list[i].kind = "create"

CreatesOnce(list) ==
  \A i, j \in DOMAIN list : list[i].kind = "create" /\ list[j].kind = "create" => i = j

\* The creations of a chain that an operation joins.
LEMMA CreatesAppend ==
  ASSUME NEW list \in Seq(Operations), NEW op \in Operations
  PROVE  /\ Creates(Append(list, op)) <=> Creates(list) \/ op.kind = "create"
         /\ CreatesOnce(list) /\ (op.kind = "create" => ~Creates(list))
              => CreatesOnce(Append(list, op))
  <1> DEFINE longer == Append(list, op)
  <1>1. /\ DOMAIN list = 1 .. Len(list) /\ DOMAIN longer = 1 .. (Len(list) + 1)
        /\ longer[Len(list) + 1] = op /\ \A i \in 1 .. Len(list) : longer[i] = list[i]
        /\ Len(list) \in Nat
    OBVIOUS
  <1> HIDE DEF longer
  <1>2. DOMAIN longer = DOMAIN list \cup {Len(list) + 1}
    BY <1>1
  <1>3. \A i \in DOMAIN list : longer[i] = list[i]
    BY <1>1
  <1>4. Creates(longer) <=> Creates(list) \/ op.kind = "create"
    BY <1>1, <1>2, <1>3 DEF Creates
  <1>5. CreatesOnce(list) /\ (op.kind = "create" => ~Creates(list)) => CreatesOnce(longer)
    BY <1>1, <1>2, <1>3 DEF Creates, CreatesOnce
  <1> QED BY <1>4, <1>5 DEF longer

\* The creations of a chain that its first operation leaves.
LEMMA CreatesTail ==
  ASSUME NEW list \in Seq(Operations), list # <<>>
  PROVE  /\ Creates(Tail(list)) => Creates(list)
         /\ CreatesOnce(list) => CreatesOnce(Tail(list))
         /\ Head(list).kind = "create" => Creates(list)
         /\ CreatesOnce(list) /\ Head(list).kind = "create" => ~Creates(Tail(list))
  <1> DEFINE rest == Tail(list)
  <1>1. /\ Len(list) \in Nat \ {0} /\ DOMAIN list = 1 .. Len(list)
        /\ DOMAIN rest = 1 .. (Len(list) - 1) /\ Head(list) = list[1]
    OBVIOUS
  <1>2. \A i \in DOMAIN rest : rest[i] = list[i + 1]
    OBVIOUS
  <1> HIDE DEF rest
  <1>3. \A i \in DOMAIN rest : i + 1 \in DOMAIN list /\ i + 1 # 1 /\ i \in Int
    BY <1>1
  <1>4. 1 \in DOMAIN list
    BY <1>1
  <1>5. Creates(rest) => Creates(list)
    BY <1>2, <1>3 DEF Creates
  <1>6. CreatesOnce(list) => CreatesOnce(rest)
    <2> SUFFICES ASSUME CreatesOnce(list), NEW i \in DOMAIN rest, NEW j \in DOMAIN rest,
                        rest[i].kind = "create", rest[j].kind = "create"
                 PROVE  i = j
      BY DEF CreatesOnce
    <2>1. i + 1 = j + 1
      BY <1>2, <1>3 DEF CreatesOnce
    <2> QED BY <1>3, <2>1
  <1>7. Head(list).kind = "create" => Creates(list)
    BY <1>1, <1>4 DEF Creates
  <1>8. CreatesOnce(list) /\ Head(list).kind = "create" => ~Creates(rest)
    BY <1>1, <1>2, <1>3, <1>4 DEF Creates, CreatesOnce
  <1> QED BY <1>5, <1>6, <1>7, <1>8 DEF rest

\* When an id is not given twice, a session that is not created yet has no
\* record and no stream, and it is created once.
Creating(s) == call[s].stage = "settled" /\ Head(queue[s]).kind = "create"

Fresh(s) ==
  /\ CreatesOnce(queue[s])
  /\ s \notin usedIds => ~Creates(queue[s])
  /\ s \notin usedIds \/ Creates(queue[s]) =>
       (records[s] = None \/ Creating(s)) /\ \A c \in Connections : ~Subscribed(s, c)

FreshInv == \A s \in SessionIds : Fresh(s)

\* Every step keeps a session that is not created yet without record and streams.
LEMMA NextFresh ==
  ASSUME ReuseIds = FALSE, BaseInv, OutcomeInv, FreshInv, [Next]_vars
  PROVE  FreshInv'
  <1> SUFFICES ASSUME NEW s \in SessionIds PROVE Fresh(s)'
    BY DEF FreshInv
  <1>0. /\ TypeOK /\ ChainInv /\ Fresh(s) /\ Delivers(s) /\ queue[s] \in Seq(Operations)
    BY DEF BaseInv, TypeOK, FreshInv, OutcomeInv
  <1>1. ASSUME queue'[s] = queue[s], usedIds' = usedIds, records'[s] = records[s],
               call'[s] = call[s], \A c \in Connections : Subscribed(s, c)' => Subscribed(s, c)
        PROVE  Fresh(s)'
    BY <1>0, <1>1 DEF Fresh, Creating
  <1>2. ASSUME NEW r \in SessionIds,
               \/ Create(r) \/ \E op \in Requests : Request(r, op)
               \/ \E c \in Connections, since \in 0 .. 1 : Connect(c, r, since)
        PROVE  Fresh(s)'
    <2>1. UNCHANGED <<records, call, subscriptions>>
      BY <1>2, EnqueuedOperation
    <2>2. \A c \in Connections : Subscribed(s, c)' <=> Subscribed(s, c)
      BY <2>1 DEF Subscribed
    <2>3. Creating(s) => Creating(s)'
      <3>1. PICK op \in Operations : Enqueue(r, op)
        BY <1>2, EnqueuedOperation
      <3>5. /\ queue'[r] = Append(queue[r], op) /\ queue[r] \in Seq(Operations)
            /\ \A o \in SessionIds \ {r} : queue'[o] = queue[o]
        BY <1>0, <3>1, EnqueueType DEF TypeOK
      <3>6. queue[r] # <<>> => Head(queue'[r]) = Head(queue[r])
        BY <3>5, HeadAppend
      <3>2. queue[s] # <<>> => Head(queue'[s]) = Head(queue[s])
        BY <3>5, <3>6
      <3>3. call[s].stage = "settled" => queue[s] # <<>>
        BY <1>0 DEF ChainInv
      <3>4. call' = call
        BY <2>1
      <3> QED BY <3>2, <3>3, <3>4 DEF Creating
    <2>4. CASE Create(r)
      <3>1. /\ Enqueue(r, [kind |-> "create"]) /\ r \notin usedIds /\ usedIds' = usedIds \cup {r}
            /\ [kind |-> "create"] \in Operations
        BY <2>4 DEF Create, Operations
      <3>2. /\ queue'[r] = Append(queue[r], [kind |-> "create"])
            /\ \A o \in SessionIds \ {r} : queue'[o] = queue[o]
        BY <1>0, <3>1, EnqueueType
      <3>3. CASE s = r
        <4>1. ~Creates(queue[s]) /\ CreatesOnce(queue[s])
          BY <1>0, <3>1, <3>3 DEF Fresh
        <4>2. CreatesOnce(queue'[s])
          BY <1>0, <3>1, <3>2, <3>3, <4>1, CreatesAppend
        <4>3. records'[s] = None \/ Creating(s)'
          BY <1>0, <2>1, <2>3, <3>1, <3>3 DEF Fresh
        <4>4. \A c \in Connections : ~Subscribed(s, c)'
          BY <1>0, <2>2, <3>1, <3>3 DEF Fresh
        <4> QED BY <3>1, <3>3, <4>2, <4>3, <4>4 DEF Fresh
      <3>4. CASE s # r
        BY <1>0, <2>1, <2>2, <2>3, <3>1, <3>2, <3>4 DEF Fresh
      <3> QED BY <3>3, <3>4
    <2>5. CASE \/ \E op \in Requests : Request(r, op)
               \/ \E c \in Connections, since \in 0 .. 1 : Connect(c, r, since)
      <3>1. UNCHANGED usedIds
        BY <2>5 DEF Request, Connect
      <3>2. PICK op \in Operations : Enqueue(r, op) /\ op.kind # "create"
        <4>1. CASE \E op \in Requests : Request(r, op)
          <5>1. PICK op \in Requests : Request(r, op)
            BY <4>1
          <5>2. op \in Operations /\ op.kind # "create"
            BY DEF Requests, Submits, Operations
          <5> QED BY <5>1, <5>2 DEF Request
        <4>2. CASE \E c \in Connections, since \in 0 .. 1 : Connect(c, r, since)
          <5>1. PICK c \in Connections, since \in 0 .. 1 : Connect(c, r, since)
            BY <4>2
          <5>2. [kind |-> "subscribe", connection |-> c] \in Operations
            BY DEF Operations
          <5> QED BY <5>1, <5>2 DEF Connect
        <4> QED BY <2>5, <4>1, <4>2
      <3>3. /\ queue'[r] = Append(queue[r], op)
            /\ \A o \in SessionIds \ {r} : queue'[o] = queue[o]
        BY <1>0, <3>2, EnqueueType
      <3>4. /\ CreatesOnce(queue[s]) => CreatesOnce(queue'[s])
            /\ Creates(queue'[s]) <=> Creates(queue[s])
        <4>1. CASE s = r
          <5>1. /\ Creates(Append(queue[s], op)) <=> Creates(queue[s])
                /\ CreatesOnce(queue[s]) => CreatesOnce(Append(queue[s], op))
            <6>1. op.kind # "create" /\ op \in Operations
              BY <3>2
            <6> QED BY <1>0, <6>1, CreatesAppend
          <5>2. queue'[s] = Append(queue[s], op)
            BY <3>3, <4>1
          <5> QED BY <5>1, <5>2
        <4>2. CASE s # r
          BY <3>3, <4>2
        <4> QED BY <4>1, <4>2
      <3>5. ASSUME s \notin usedIds \/ Creates(queue[s])
            PROVE  (records'[s] = None \/ Creating(s)') /\ \A c \in Connections : ~Subscribed(s, c)'
        BY <1>0, <2>1, <2>2, <2>3, <3>5 DEF Fresh
      <3> QED BY <1>0, <3>1, <3>4, <3>5 DEF Fresh
    <2> QED BY <1>2, <2>4, <2>5
  <1>3. ASSUME NEW r \in SessionIds, StoreEffect(r), Calls(r)
        PROVE  Fresh(s)'
    <2>1. UNCHANGED <<queue, usedIds, subscriptions>>
      BY <1>3 DEF StoreEffect
    <2>2. CASE s # r
      <3>1. records'[s] = records[s] /\ call'[s] = call[s]
        BY <1>3, <2>2 DEF StoreEffect
      <3> QED BY <1>1, <2>1, <3>1 DEF Subscribed
    <2>3. CASE s = r
      <3>1. records[s] = None /\ records'[s] # None => Creating(s)'
        BY <1>3, <2>1, <2>3, StoreMoves DEF Calls, Moves, Creating
      <3>2. ~Creating(s)
        BY <1>3, <2>3 DEF StoreEffect, Creating
      <3> QED BY <1>0, <2>1, <3>1, <3>2 DEF Fresh, Subscribed
    <2> QED BY <2>2, <2>3
  <1>4. ASSUME NEW r \in SessionIds, Continues(r)
        PROVE  Fresh(s)'
    <2>1. /\ UNCHANGED <<records, usedIds>> /\ Dequeue(r) /\ queue[r] # <<>>
          /\ queue'[r] = Tail(queue[r]) /\ call[r].stage = "settled"
          /\ \A o \in SessionIds \ {r} : queue'[o] = queue[o] /\ call'[o] = call[o]
      BY <1>0, <1>4, FinishKeepsBase, DequeueType DEF Continues
    <2>2. ASSUME NEW c \in Connections, Subscribed(s, c)', ~Subscribed(s, c)
          PROVE  s = r /\ Head(queue[s]).kind = "subscribe" /\ records[s] # None
      <3>1. FinishSubscribe(r)
        <4>1. ASSUME subscriptions' \subseteq subscriptions PROVE FALSE
          BY <2>2, <4>1 DEF Subscribed
        <4>2. CASE FinishCreate(r) \/ FinishRead(r) \/ FinishDelete(r)
          BY <4>1, <4>2 DEF FinishCreate, FinishRead, FinishDelete
        <4>3. CASE FinishUpdate(r)
          BY <4>1, <4>3 DEF FinishUpdate, Publish
        <4> QED BY <1>4, <4>2, <4>3 DEF Continues
      <3>2. Head(queue[r]).kind = "subscribe"
        BY <3>1 DEF FinishSubscribe, Running
      <3>3. <<s, c>> = <<r, Head(queue[r]).connection>> /\ call[r].ok
        BY <2>2, <3>1 DEF FinishSubscribe, Subscribed
      <3>4. s = r /\ Done(s, "subscribe")
        BY <2>1, <3>2, <3>3 DEF Done
      <3>5. call[s].record = records[s] /\ call[s].record \in Histories
        BY <1>0, <3>4 DEF Delivers, ChainInv, Done
      <3> QED BY <3>2, <3>4, <3>5, NewTypes
    <2>3. CASE s # r
      BY <1>1, <2>1, <2>2, <2>3
    <2>4. CASE s = r
      <3>1. /\ Creates(queue'[s]) => Creates(queue[s])
            /\ Creates(queue'[s]) => Head(queue[s]).kind # "create"
            /\ CreatesOnce(queue'[s])
            /\ Head(queue[s]).kind = "create" => Creates(queue[s])
        BY <1>0, <2>1, <2>4, CreatesTail DEF Fresh
      <3>2. ASSUME s \notin usedIds \/ Creates(queue'[s])
            PROVE  records[s] = None /\ \A c \in Connections : ~Subscribed(s, c)
        BY <1>0, <3>1, <3>2 DEF Fresh, Creating
      <3> QED BY <1>0, <2>1, <2>2, <3>1, <3>2 DEF Fresh
    <2> QED BY <2>3, <2>4
  <1>5. ASSUME NEW c \in Connections, StreamReady(c) \/ SocketClose(c) PROVE Fresh(s)'
    <2>1. /\ UNCHANGED <<records, queue, call, usedIds>>
          /\ ReleaseSubscriber(sockets[c].session, c) \/ UNCHANGED subscriptions
      BY <1>0, <1>5, SocketEffect
    <2>2. subscriptions' \subseteq subscriptions
      BY <2>1 DEF ReleaseSubscriber
    <2> QED BY <1>1, <2>1, <2>2 DEF Subscribed
  <1>6. CASE UNCHANGED vars
    BY <1>1, <1>6 DEF vars, Subscribed
  <1> QED BY <1>2, <1>3, <1>4, <1>5, <1>6, Steps DEF Calls, Continues

-----------------------------------------------------------------------------
Climbs(list) == \A i \in 1 .. Len(list) - 1 : list[i] < list[i + 1]

EndOf(list) == list[Len(list)]

\* A list that one more revision is delivered to.
LEMMA AppendFacts ==
  ASSUME NEW list \in Seq(Nat), NEW x \in Nat
  PROVE  LET longer == Append(list, x)
         IN  /\ longer \in Seq(Nat) /\ longer # <<>> /\ EndOf(longer) = x
             /\ \A i \in 1 .. Len(longer) - 1 :
                  /\ i \in 1 .. Len(list) /\ longer[i] = list[i]
                  /\ longer[i + 1] = IF i = Len(list) THEN x ELSE list[i + 1]
                  /\ i # Len(list) => i \in 1 .. Len(list) - 1
  <1> DEFINE longer == Append(list, x)
  <1>1. /\ longer \in Seq(Nat) /\ Len(longer) = Len(list) + 1 /\ Len(list) \in Nat
        /\ longer[Len(list) + 1] = x /\ \A i \in 1 .. Len(list) : longer[i] = list[i]
    OBVIOUS
  <1> HIDE DEF longer
  <1>2. longer # <<>>
    BY <1>1
  <1>3. ASSUME NEW i \in 1 .. Len(longer) - 1
        PROVE  /\ i \in 1 .. Len(list) /\ longer[i] = list[i]
               /\ longer[i + 1] = IF i = Len(list) THEN x ELSE list[i + 1]
               /\ i # Len(list) => i \in 1 .. Len(list) - 1
    <2>1. /\ i \in 1 .. Len(list)
          /\ i # Len(list) => i \in 1 .. Len(list) - 1 /\ i + 1 \in 1 .. Len(list)
      BY <1>1
    <2> QED BY <1>1, <2>1
  <1> QED BY <1>1, <1>2, <1>3 DEF longer, EndOf

\* A list that ascends, and a newer revision at its end.
LEMMA ClimbsAppend ==
  ASSUME NEW list \in Seq(Nat), NEW x \in Nat, Climbs(list), list # <<>> => EndOf(list) < x
  PROVE  Climbs(Append(list, x))
  <1> DEFINE longer == Append(list, x)
  <1>1. \A i \in 1 .. Len(longer) - 1 :
                  /\ i \in 1 .. Len(list) /\ longer[i] = list[i]
                  /\ longer[i + 1] = IF i = Len(list) THEN x ELSE list[i + 1]
                  /\ i # Len(list) => i \in 1 .. Len(list) - 1
    BY AppendFacts
  <1> HIDE DEF longer
  <1>2. ASSUME NEW i \in 1 .. Len(longer) - 1 PROVE longer[i] < longer[i + 1]
    <2>1. CASE i = Len(list)
      <3>1. list # <<>>
        BY <1>1
      <3> QED BY <1>1, <2>1, <3>1 DEF EndOf
    <2>2. CASE i # Len(list)
      BY <1>1, <2>2 DEF Climbs
    <2> QED BY <2>1, <2>2
  <1> QED BY <1>2 DEF Climbs, longer

\* What a replay delivers, and any beginning of it.
LEMMA PrefixClimbs ==
  ASSUME NEW r \in Histories, NEW since \in Nat, NEW list \in Seq(Nat),
         Prefixes(list, Replay(r, since))
  PROVE  /\ Climbs(list)
         /\ list # <<>> => EndOf(list) <= r.revision
  <1> DEFINE whole == Replay(r, since)
             all   == r.snapshots
  <1>1. PICK n \in 0 .. Len(all) :
          /\ whole \in Seq(Nat) /\ Len(whole) = Len(all) - n
          /\ \A i \in 1 .. Len(whole) : whole[i] = all[n + i]
    BY ReplayProperties DEF Replays
  <1>2. /\ all \in Seq(Nat) /\ Len(all) \in Nat \ {0} /\ Ascending(all)
        /\ all[Len(all)] = r.revision /\ r.revision \in Nat
    BY Limits DEF Histories, Records
  <1>3. Len(list) \in 0 .. Len(whole) /\ \A i \in 1 .. Len(list) : list[i] = whole[i]
    BY DEF Prefixes
  <1> HIDE DEF whole, all
  <1>4. ASSUME NEW i \in 1 .. Len(list)
        PROVE  n + i \in 1 .. Len(all) /\ list[i] = all[n + i]
    <2>1. Len(list) \in Nat /\ Len(whole) \in Nat
      OBVIOUS
    <2>2. i \in 1 .. Len(whole) /\ n + i \in 1 .. Len(all)
      BY <1>1, <1>2, <1>3, <2>1
    <2> QED BY <1>1, <1>3, <2>2
  <1>5. ASSUME NEW i \in 1 .. Len(list) - 1 PROVE list[i] < list[i + 1]
    <2>1. /\ i \in 1 .. Len(list) /\ i + 1 \in 1 .. Len(list) /\ n + i < n + (i + 1)
      BY <1>1, <1>2, <1>3
    <2> QED BY <1>2, <1>4, <2>1 DEF Ascending
  <1>6. ASSUME list # <<>> PROVE EndOf(list) <= r.revision
    <2>1. Len(list) \in 1 .. Len(list)
      BY <1>6
    <2>2. n + Len(list) \in 1 .. Len(all) /\ EndOf(list) = all[n + Len(list)]
      BY <1>4, <2>1 DEF EndOf
    <2>3. n + Len(list) = Len(all) \/ n + Len(list) < Len(all)
      BY <1>2, <2>2
    <2>4. Len(all) \in 1 .. Len(all) /\ EndOf(list) \in Nat
      BY <1>2, <2>2
    <2>5. n + Len(list) < Len(all) => all[n + Len(list)] < all[Len(all)]
      BY <1>2, <2>2, <2>4 DEF Ascending
    <2> QED BY <1>2, <2>2, <2>3, <2>4, <2>5
  <1> QED BY <1>5, <1>6 DEF Climbs

\* A peer has revisions in ascending order, and none that its session's
\* tracker has yet to give.
Orderly(c) ==
  /\ Climbs(sockets[c].delivered)
  /\ \A s \in SessionIds :
       Subscribed(s, c) /\ sockets[c].state = "open" /\ sockets[c].delivered # <<>>
         /\ runtimes[s] # None =>
       EndOf(sockets[c].delivered) <= IF Changing(s) THEN runtimes[s].revision - 1
                                      ELSE runtimes[s].revision

OrderInv == \A c \in Connections : Orderly(c)

\* A session's tracker when nothing was published to a stream it has.
LEMMA BoundMoves ==
  ASSUME BaseInv, OutcomeInv, FreshInv, [Next]_vars, NEW s \in SessionIds, NEW c \in Connections,
         Subscribed(s, c), Changing(s) => Changing(s)', runtimes'[s] # None, NEW x \in Nat,
         runtimes[s] # None =>
           x <= IF Changing(s) THEN runtimes[s].revision - 1 ELSE runtimes[s].revision
  PROVE  x <= IF Changing(s)' THEN runtimes'[s].revision - 1 ELSE runtimes'[s].revision
  <1>0. /\ TypeOK /\ Fresh(s)
        /\ runtimes[s] # None => runtimes[s].revision \in Nat
        /\ runtimes'[s].revision \in Nat
    <2>1. runtimes[s] \in Trackers \cup {None} /\ runtimes'[s] \in Trackers \cup {None}
      BY NextBase DEF BaseInv, TypeOK
    <2> QED BY <2>1 DEF Trackers, BaseInv, FreshInv
  <1>1. CASE Same(s)
    <2>1. (Changing(s)' <=> Changing(s)) /\ runtimes'[s] = runtimes[s]
      BY <1>1, SameChanging DEF Same
    <2> QED BY <2>1
  <1>2. CASE StoreEffect(s) /\ Calls(s)
    <2>1. Moves(s) /\ runtimes[s] # None /\ ~Changing(s)
      BY <1>2, StoreMoves DEF Calls, StoreEffect, Changing
    <2>2. /\ runtimes[s].revision <= runtimes'[s].revision
          /\ Changing(s)' => runtimes'[s].revision = runtimes[s].revision + 1
      BY <2>1 DEF Moves
    <2> QED BY <1>0, <2>1, <2>2
  <1>3. CASE Continues(s)
    <2>1. ~Changing(s)' /\ ~Changing(s)
      BY <1>3, ContinuedIsIdle
    <2>2. runtimes'[s] = runtimes[s]
      <3>1. CASE FinishCreate(s)
        <4>1. Head(queue[s]).kind = "create" /\ queue[s] # <<>> /\ queue[s] \in Seq(Operations)
          BY <1>0, <3>1 DEF FinishCreate, Running, TypeOK
        <4>2. Creates(queue[s])
          BY <4>1, CreatesTail
        <4> QED BY <1>0, <4>2 DEF Fresh
      <3>2. CASE FinishDelete(s)
        <4>1. call[s].ok => runtimes'[s] = None
          BY <1>0, <3>2 DEF FinishDelete, TypeOK
        <4> QED BY <3>2, <4>1 DEF FinishDelete
      <3>3. CASE FinishUpdate(s) \/ FinishRead(s) \/ FinishSubscribe(s)
        BY <3>3 DEF FinishUpdate, FinishRead, FinishSubscribe
      <3> QED BY <1>3, <3>1, <3>2, <3>3 DEF Continues
    <2> QED BY <2>1, <2>2
  <1> QED BY <1>1, <1>2, <1>3, SessionSteps

\* Every step keeps what the peers have in ascending order.
LEMMA NextOrder ==
  ASSUME BaseInv, OutcomeInv, FreshInv, StreamsInv, OrderInv, [Next]_vars
  PROVE  OrderInv'
  <1> SUFFICES ASSUME NEW c \in Connections PROVE Orderly(c)'
    BY DEF OrderInv
  <1>0. /\ Orderly(c) /\ TypeOK /\ BehindInv /\ ChainInv
        /\ sockets[c].delivered \in Seq(Nat) /\ sockets[c].since \in Nat
    BY DEF OrderInv, BaseInv, TypeOK, Sockets
  <1>1. CASE Opened(c)
    <2>1. Climbs(<<>>)
      BY DEF Climbs
    <2> QED BY <1>1, <2>1 DEF Opened, Orderly
  <1>2. CASE Silent(c)
    <2> SUFFICES ASSUME NEW s \in SessionIds, Subscribed(s, c)', sockets'[c].state = "open",
                        sockets[c].delivered # <<>>, runtimes'[s] # None
                 PROVE  EndOf(sockets[c].delivered) <=
                          IF Changing(s)' THEN runtimes'[s].revision - 1
                          ELSE runtimes'[s].revision
      BY <1>0, <1>2 DEF Silent, Orderly
    <2>1. /\ Subscribed(s, c) /\ sockets[c].state = "open" /\ (Changing(s) => Changing(s)')
      BY <1>2 DEF Silent, Fewer
    <2>2. runtimes[s] # None => EndOf(sockets[c].delivered) <=
            IF Changing(s) THEN runtimes[s].revision - 1 ELSE runtimes[s].revision
      BY <1>0, <2>1 DEF Orderly
    <2>3. EndOf(sockets[c].delivered) \in Nat
      BY <1>0 DEF EndOf
    <2> QED BY <2>1, <2>2, <2>3, BoundMoves
  <1>3. ASSUME NEW s \in SessionIds, Receives(s, c) PROVE Orderly(c)'
    <2> DEFINE x    == call[s].record.revision
               list == sockets[c].delivered
    <2>1. /\ call[s].record = records[s] /\ records[s] # None /\ runtimes[s] # None
          /\ records[s].revision = runtimes[s].revision /\ Changing(s)
      BY <1>3 DEF Receives, OutcomeInv, Delivers
    <2>2. x = runtimes[s].revision /\ x \in Nat
      <3>1. runtimes[s] \in Trackers
        BY <1>0, <2>1 DEF TypeOK
      <3> QED BY <2>1, <3>1 DEF Trackers
    <2>3. list # <<>> => EndOf(list) < x
      <3>1. list # <<>> => EndOf(list) <= runtimes[s].revision - 1 /\ EndOf(list) \in Nat
        BY <1>0, <1>3, <2>1 DEF Orderly, Receives, EndOf
      <3> QED BY <2>2, <3>1
    <2>4. sockets'[c].delivered = Append(list, x) /\ ~Changing(s)' /\ UNCHANGED runtimes
      BY <1>3, ContinuedIsIdle DEF Receives, BecomesSocket
    <2> HIDE DEF x, list
    <2>5. Climbs(Append(list, x)) /\ EndOf(Append(list, x)) = x
      <3>1. list \in Seq(Nat) /\ Climbs(list)
        BY <1>0 DEF list, Orderly
      <3> QED BY <2>2, <2>3, <3>1, ClimbsAppend, AppendFacts
    <2>6. \A r \in SessionIds : Subscribed(r, c)' => r = s
      BY <1>3 DEF Receives
    <2> QED BY <2>2, <2>4, <2>5, <2>6 DEF Orderly
  <1>4. ASSUME NEW s \in SessionIds, Subscribes(s, c) PROVE Orderly(c)'
    <2>1. PICK delivered \in Seq(Nat) :
            /\ \/ delivered = <<>>
               \/ call[s].ok /\ Prefixes(delivered, Replay(call[s].record, sockets[c].since))
            /\ Granted(s, c, delivered) \/ Refused(s, c, delivered)
      BY <1>4 DEF Subscribes
    <2>2. sockets'[c].delivered = delivered
      BY <2>1 DEF Granted, Refused, BecomesSocket
    <2>3. /\ UNCHANGED <<runtimes, records>> /\ ~Changing(s)'
          /\ \A r \in SessionIds : Subscribed(r, c)' => r = s
      BY <1>4, ContinuedIsIdle DEF Subscribes
    <2>4. Climbs(<<>>)
      BY DEF Climbs
    <2>5. call[s].ok => call[s].record = records[s] /\ records[s] \in Histories
      BY <1>0, <1>4 DEF Subscribes, OutcomeInv, Delivers, Done, ChainInv
    <2>6. call[s].ok /\ delivered # <<>> =>
            Climbs(delivered) /\ EndOf(delivered) <= records[s].revision
      BY <1>0, <2>1, <2>5, PrefixClimbs
    <2>7. Climbs(delivered)
      BY <2>1, <2>4, <2>6
    <2>8. ASSUME delivered # <<>>, runtimes[s] # None
          PROVE  EndOf(delivered) <= runtimes[s].revision
      <3>1. records[s] # None /\ records[s].revision <= runtimes[s].revision
        BY <1>0, <2>1, <2>5, <2>8, NewTypes DEF BehindInv
      <3>2. /\ EndOf(delivered) <= records[s].revision /\ EndOf(delivered) \in Nat
            /\ records[s].revision \in Nat /\ runtimes[s].revision \in Nat
        <4>1. runtimes[s] \in Trackers
          BY <1>0, <2>8 DEF TypeOK
        <4> QED BY <2>1, <2>5, <2>6, <2>8, <4>1 DEF EndOf, Trackers, Histories, Records
      <3> QED BY <3>1, <3>2
    <2> QED BY <2>2, <2>3, <2>7, <2>8 DEF Orderly
  <1> QED BY <1>1, <1>2, <1>3, <1>4, StreamSteps

\* In the first state nothing is under way.
LEMMA InitStreams ==
  ASSUME Init
  PROVE  OutcomeInv /\ FreshInv /\ StreamsInv /\ OrderInv
  <1>1. OutcomeInv
    BY DEF Init, OutcomeInv, Delivers, Done, Changing, Idle
  <1>2. FreshInv
    BY DEF Init, FreshInv, Fresh, Creates, CreatesOnce, Subscribed
  <1>3. StreamsInv
    BY InitCapacity
  <1>4. OrderInv
    BY DEF Init, OrderInv, Orderly, Climbs, Subscribed, Unused
  <1> QED BY <1>1, <1>2, <1>3, <1>4

\* Whatever the store does, and as long as ids are not reused, no revision is
\* used twice and no stream repeats one or goes back.
THEOREM NoRevisionTwice ==
  ASSUME ReuseIds = FALSE
  PROVE  Spec => []RevisionsAreNotReused
  <1> DEFINE Inv == OutcomeInv /\ FreshInv /\ OrderInv
  <1>1. Init => Inv /\ StreamsInv
    BY InitStreams
  <1>2. BaseInv /\ StreamsInv /\ Inv /\ [Next]_vars => Inv'
    BY NextOutcome, NextFresh, NextOrder
  <1>3. BaseInv /\ Inv => RevisionsAreNotReused
    BY DEF BaseInv, BehindInv, OrderInv, Orderly, Climbs, RevisionsAreNotReused
  <1> HIDE DEF Inv
  <1> QED BY <1>1, <1>2, <1>3, CapacityKept, PTL DEF Spec

-----------------------------------------------------------------------------
\* A list of consecutive revisions, and the next one at its end.
LEMMA ConsecutiveAppend ==
  ASSUME NEW list \in Seq(Nat), NEW x \in Nat, Consecutive(list),
         list # <<>> => EndOf(list) = x - 1
  PROVE  Consecutive(Append(list, x))
  <1> DEFINE longer == Append(list, x)
  <1>1. \A i \in 1 .. Len(longer) - 1 :
                  /\ i \in 1 .. Len(list) /\ longer[i] = list[i]
                  /\ longer[i + 1] = IF i = Len(list) THEN x ELSE list[i + 1]
                  /\ i # Len(list) => i \in 1 .. Len(list) - 1
    BY AppendFacts
  <1> HIDE DEF longer
  <1>2. ASSUME NEW i \in 1 .. Len(longer) - 1 PROVE longer[i + 1] = longer[i] + 1
    <2>1. CASE i = Len(list)
      <3>1. list # <<>>
        BY <1>1
      <3>2. longer[i] = x - 1 /\ longer[i + 1] = x
        BY <1>1, <2>1, <3>1 DEF EndOf
      <3> QED BY <3>2
    <2>2. CASE i # Len(list)
      BY <1>1, <2>2 DEF Consecutive
    <2> QED BY <2>1, <2>2
  <1> QED BY <1>2 DEF Consecutive, longer

\* The peer of a stream that has this revision, and nothing after it.
Knows(since, delivered, revision) ==
  IF delivered = <<>> THEN since >= revision ELSE EndOf(delivered) = revision

\* What a replay of consecutive revisions delivers.
LEMMA ReplayConsecutive ==
  ASSUME NEW r \in Histories, Consecutive(r.snapshots), NEW since \in Nat, NEW list \in Seq(Nat)
  PROVE  /\ Prefixes(list, Replay(r, since)) => Consecutive(list)
         /\ Replays(list, r, since) => Knows(since, list, r.revision)
  <1> DEFINE all == r.snapshots
  <1>0. /\ all \in Seq(Nat) /\ Len(all) \in Nat \ {0} /\ Consecutive(all)
        /\ all[Len(all)] = r.revision /\ r.revision \in Nat
    BY Limits DEF Histories, Records
  <1>1. ASSUME Prefixes(list, Replay(r, since)) PROVE Consecutive(list)
    <2> DEFINE whole == Replay(r, since)
    <2>1. PICK n \in 0 .. Len(all) :
            /\ whole \in Seq(Nat) /\ Len(whole) = Len(all) - n
            /\ \A i \in 1 .. Len(whole) : whole[i] = all[n + i]
      BY ReplayProperties DEF Replays
    <2>2. Len(list) \in 0 .. Len(whole) /\ \A i \in 1 .. Len(list) : list[i] = whole[i]
      BY <1>1 DEF Prefixes
    <2> HIDE DEF whole, all
    <2>3. ASSUME NEW i \in 1 .. Len(list) - 1 PROVE list[i + 1] = list[i] + 1
      <3>1. Len(list) \in Nat /\ Len(whole) \in Nat /\ Len(all) \in Nat
        BY <1>0, <2>1
      <3>2. i \in 1 .. Len(list) /\ i + 1 \in 1 .. Len(list)
        BY <3>1
      <3>3. i \in 1 .. Len(whole) /\ i + 1 \in 1 .. Len(whole) /\ n + i \in 1 .. Len(all) - 1
        BY <2>1, <2>2, <3>1, <3>2
      <3>4. list[i] = all[n + i] /\ list[i + 1] = all[n + (i + 1)] /\ n + (i + 1) = (n + i) + 1
        BY <2>1, <2>2, <3>2, <3>3
      <3>5. all[(n + i) + 1] = all[n + i] + 1
        BY <1>0, <3>3 DEF Consecutive
      <3> QED BY <3>4, <3>5
    <2> QED BY <2>3 DEF Consecutive
  <1>2. ASSUME Replays(list, r, since) PROVE Knows(since, list, r.revision)
    <2>1. PICK n \in 0 .. Len(all) :
            /\ \A i \in 1 .. Len(all) : all[i] > since <=> i > n
            /\ Len(list) = Len(all) - n /\ \A i \in 1 .. Len(list) : list[i] = all[n + i]
      BY <1>2 DEF Replays
    <2> HIDE DEF all
    <2>2. CASE list = <<>>
      <3>1. n = Len(all)
        BY <1>0, <2>1, <2>2
      <3>2. Len(all) \in 1 .. Len(all) /\ ~(Len(all) > n)
        BY <1>0, <3>1
      <3>3. ~(all[Len(all)] > since)
        BY <2>1, <3>2
      <3> QED BY <1>0, <2>2, <3>3 DEF Knows
    <2>3. CASE list # <<>>
      <3>1. Len(list) \in 1 .. Len(list) /\ n + Len(list) = Len(all)
        BY <1>0, <2>1, <2>3
      <3>2. EndOf(list) = r.revision
        BY <1>0, <2>1, <3>1 DEF EndOf
      <3> QED BY <2>3, <3>2 DEF Knows
    <2> QED BY <2>2, <2>3
  <1> QED BY <1>1, <1>2

-----------------------------------------------------------------------------
\* A session that has streams has a record, until it is deleted with them.
Held(s) == ~Done(s, "create") /\ (Done(s, "delete") \/ records[s] # None)

\* The revision that was published last.
PublishedRevision(s) == IF Changing(s) THEN records[s].revision - 1 ELSE records[s].revision

\* A call of the store changes the published revision only by what it leaves to
\* publish.
LEMMA StoreHolds ==
  ASSUME StoreFaults = {}, BaseInv, RecordInv, NEW s \in SessionIds, StoreEffect(s), Calls(s),
         records[s] # None
  PROVE  /\ Held(s)'
         /\ records'[s] # None => PublishedRevision(s)' = PublishedRevision(s)
  <1>1. Kept(s) /\ ~Changing(s) /\ ~Done(s, "create") /\ ~Done(s, "delete")
    BY EachKept DEF StoreEffect, Changing, Done
  <1>2. runtimes[s] # None /\ records[s].revision = runtimes[s].revision
    BY <1>1 DEF Kept, Agree
  <1>3. runtimes[s] \in Trackers /\ runtimes[s].revision \in Nat /\ runtimes'[s] # None
    <2>1. runtimes[s] \in Trackers
      BY <1>2 DEF BaseInv, TypeOK
    <2> QED BY <1>2, <2>1 DEF Trackers, StoreEffect
  <1>4. Kept(s)' /\ Moves(s)
    BY <1>1, StoreKept, StoreMoves DEF Calls
  <1>5. ~Done(s, "create")'
    BY <1>3, <1>4 DEF Kept
  <1>6. ~Done(s, "delete")' => Agree(s)'
    BY <1>4, <1>5 DEF Kept
  <1>7. Held(s)'
    BY <1>3, <1>5, <1>6 DEF Held, Agree
  <1>8. ASSUME records'[s] # None PROVE PublishedRevision(s)' = PublishedRevision(s)
    <2>1. records'[s].revision = runtimes'[s].revision
      BY <1>4, <1>5, <1>8 DEF Kept, Agree
    <2>2. Changing(s)' => runtimes'[s].revision = runtimes[s].revision + 1
      BY <1>4 DEF Moves
    <2>3. ~Changing(s)' => runtimes'[s] = runtimes[s]
      BY <1>4 DEF Moves
    <2> QED BY <1>1, <1>2, <1>3, <2>1, <2>2, <2>3 DEF PublishedRevision
  <1> QED BY <1>7, <1>8

\* A step that publishes nothing to a stream leaves its session's published
\* revision as it was.
LEMMA HeldMoves ==
  ASSUME StoreFaults = {}, BaseInv, RecordInv, [Next]_vars, NEW s \in SessionIds,
         NEW c \in Connections, Subscribed(s, c)', Held(s)
  PROVE  /\ Held(s)'
         /\ records'[s] # None => records[s] # None
         /\ records'[s] # None /\ (Changing(s) => Changing(s)')
              => PublishedRevision(s)' = PublishedRevision(s)
  <1>1. CASE Same(s)
    <2>1. /\ Changing(s)' <=> Changing(s)
          /\ \A kind : Done(s, kind)' <=> Done(s, kind)
          /\ records'[s] = records[s]
      BY <1>1, SameChanging DEF Same
    <2> QED BY <2>1 DEF Held, PublishedRevision
  <1>2. CASE StoreEffect(s) /\ Calls(s)
    <2>1. records[s] # None
      BY <1>2 DEF Held, StoreEffect, Done
    <2> QED BY <1>2, <2>1, StoreHolds
  <1>3. CASE Continues(s)
    <2>1. /\ UNCHANGED records /\ call[s].stage = "settled" /\ ~Changing(s)'
          /\ \A kind : ~Done(s, kind)'
      BY <1>3, ContinuedIsIdle
    <2>2. ~Done(s, "delete")
      <3>1. CASE FinishDelete(s)
        <4>1. call[s].ok => ~Subscribed(s, c)'
          BY <3>1 DEF FinishDelete, Subscribed
        <4> QED BY <4>1 DEF Done
      <3>2. CASE FinishCreate(s) \/ FinishUpdate(s) \/ FinishRead(s) \/ FinishSubscribe(s)
        BY <3>2 DEF FinishCreate, FinishUpdate, FinishRead, FinishSubscribe, Running, Done
      <3> QED BY <1>3, <3>1, <3>2 DEF Continues
    <2>3. records[s] # None
      BY <2>2 DEF Held
    <2> QED BY <2>1, <2>3 DEF Held, PublishedRevision
  <1> QED BY <1>1, <1>2, <1>3, SessionSteps

\* A peer has consecutive revisions up to the one that was published last.
Gapless(c) ==
  /\ Consecutive(sockets[c].delivered)
  /\ \A s \in SessionIds : Subscribed(s, c) =>
       /\ Held(s)
       /\ sockets[c].state = "open" /\ records[s] # None =>
            Knows(sockets[c].since, sockets[c].delivered, PublishedRevision(s))

GaplessInv == \A c \in Connections : Gapless(c)

\* Every step keeps what the peers have without gaps.
LEMMA NextGapless ==
  ASSUME StoreFaults = {}, BaseInv, RecordInv, OutcomeInv, StreamsInv, GaplessInv, [Next]_vars
  PROVE  GaplessInv'
  <1> SUFFICES ASSUME NEW c \in Connections PROVE Gapless(c)'
    BY DEF GaplessInv
  <1>0. /\ Gapless(c) /\ TypeOK /\ ChainInv
        /\ sockets[c].delivered \in Seq(Nat) /\ sockets[c].since \in Nat
    BY DEF GaplessInv, BaseInv, TypeOK, Sockets
  <1>1. Consecutive(<<>>)
    BY DEF Consecutive
  <1>2. CASE Opened(c)
    BY <1>1, <1>2 DEF Opened, Gapless
  <1>3. CASE Silent(c)
    <2>1. /\ sockets'[c].delivered = sockets[c].delivered /\ sockets'[c].since = sockets[c].since
          /\ sockets'[c].state = "open" => sockets[c].state = "open"
      BY <1>3 DEF Silent
    <2>2. ASSUME NEW s \in SessionIds, Subscribed(s, c)'
          PROVE  /\ Held(s)'
                 /\ sockets'[c].state = "open" /\ records'[s] # None =>
                      Knows(sockets[c].since, sockets[c].delivered, PublishedRevision(s)')
      <3>1. /\ Subscribed(s, c) /\ Held(s)
            /\ sockets'[c].state = "open" => (Changing(s) => Changing(s)')
        BY <1>0, <1>3, <2>2 DEF Silent, Fewer, Gapless
      <3>2. /\ Held(s)'
            /\ records'[s] # None => records[s] # None
            /\ records'[s] # None /\ (Changing(s) => Changing(s)')
                 => PublishedRevision(s)' = PublishedRevision(s)
        BY <2>2, <3>1, HeldMoves
      <3>3. sockets[c].state = "open" /\ records[s] # None =>
              Knows(sockets[c].since, sockets[c].delivered, PublishedRevision(s))
        BY <1>0, <3>1 DEF Gapless
      <3> QED BY <2>1, <3>1, <3>2, <3>3
    <2> QED BY <1>0, <2>1, <2>2 DEF Gapless
  <1>4. ASSUME NEW s \in SessionIds, Receives(s, c) PROVE Gapless(c)'
    <2> DEFINE x    == call[s].record.revision
               list == sockets[c].delivered
    <2>1. /\ call[s].record = records[s] /\ records[s] # None /\ Changing(s)
          /\ Subscribed(s, c) /\ sockets[c].state = "open"
      BY <1>4 DEF Receives, OutcomeInv, Delivers
    <2>2. x = records[s].revision /\ x \in Nat
      <3>1. records[s] \in Histories
        BY <1>0, <2>1 DEF TypeOK
      <3> QED BY <2>1, <3>1 DEF Histories, Records
    <2>3. list # <<>> => EndOf(list) = x - 1
      <3>1. Knows(sockets[c].since, list, PublishedRevision(s))
        BY <1>0, <2>1 DEF Gapless
      <3> QED BY <2>1, <2>2, <3>1 DEF Knows, PublishedRevision
    <2>4. /\ sockets'[c].delivered = Append(list, x) /\ UNCHANGED records
          /\ ~Changing(s)' /\ \A kind : ~Done(s, kind)'
          /\ \A r \in SessionIds : Subscribed(r, c)' => r = s
      BY <1>4, ContinuedIsIdle DEF Receives, BecomesSocket
    <2> HIDE DEF x
    <2>5. /\ Consecutive(Append(list, x)) /\ EndOf(Append(list, x)) = x
          /\ Append(list, x) # <<>>
      <3>1. list \in Seq(Nat) /\ Consecutive(list)
        BY <1>0 DEF Gapless
      <3> HIDE DEF list
      <3> QED BY <2>2, <2>3, <3>1, ConsecutiveAppend, AppendFacts
    <2> HIDE DEF list
    <2>6. Held(s)' /\ PublishedRevision(s)' = x
      BY <2>1, <2>2, <2>4 DEF Held, PublishedRevision
    <2>7. Knows(sockets'[c].since, Append(list, x), x)
      BY <2>5 DEF Knows
    <2> QED BY <2>4, <2>5, <2>6, <2>7 DEF Gapless
  <1>5. ASSUME NEW s \in SessionIds, Subscribes(s, c) PROVE Gapless(c)'
    <2>1. PICK delivered \in Seq(Nat) :
            /\ \/ delivered = <<>>
               \/ call[s].ok /\ Prefixes(delivered, Replay(call[s].record, sockets[c].since))
            /\ Granted(s, c, delivered) \/ (Refused(s, c, delivered) /\ ~Subscribed(s, c)')
      BY <1>5 DEF Subscribes
    <2>2. sockets'[c].delivered = delivered /\ sockets'[c].since = sockets[c].since
      BY <2>1 DEF Granted, Refused, BecomesSocket
    <2>3. /\ UNCHANGED records /\ ~Changing(s)' /\ \A kind : ~Done(s, kind)'
          /\ \A r \in SessionIds : Subscribed(r, c)' => r = s
          /\ call[s].stage = "settled" /\ Head(queue[s]).kind = "subscribe"
      BY <1>5, ContinuedIsIdle DEF Subscribes
    <2>4. call[s].ok => call[s].record = records[s] /\ records[s] \in Histories
      BY <1>0, <2>3 DEF OutcomeInv, Delivers, Done, ChainInv
    <2>5. call[s].ok => Consecutive(records[s].snapshots)
      <3>1. Kept(s)
        BY EachKept
      <3>2. Agree(s)
        BY <2>3, <3>1 DEF Kept, Done
      <3> QED BY <2>4, <3>2, NewTypes DEF Agree
    <2>6. Consecutive(delivered)
      BY <1>0, <1>1, <2>1, <2>4, <2>5, ReplayConsecutive
    <2>7. ASSUME Granted(s, c, delivered)
          PROVE  /\ Held(s)'
                 /\ sockets'[c].state = "open" =>
                      Knows(sockets[c].since, delivered, PublishedRevision(s)')
      <3>1. call[s].ok /\ records[s] \in Histories /\ records[s] # None
        BY <2>4, <2>7, NewTypes DEF Granted
      <3>2. Held(s)' /\ PublishedRevision(s)' = records[s].revision
        BY <2>3, <3>1 DEF Held, PublishedRevision
      <3>3. sockets'[c].state = "open" => Replays(delivered, records[s], sockets[c].since)
        BY <2>4, <2>7, <3>1 DEF Granted, BecomesSocket
      <3> QED BY <1>0, <2>5, <3>1, <3>2, <3>3, ReplayConsecutive
    <2> QED BY <2>1, <2>2, <2>3, <2>6, <2>7 DEF Gapless
  <1> QED BY <1>2, <1>3, <1>4, <1>5, StreamSteps

\* With a store that does not fail, a stream delivers consecutive revisions,
\* each once, and is current between operations.
THEOREM StreamsAreGapless ==
  ASSUME StoreFaults = {}
  PROVE  Spec => []StreamIsGapless
  <1> DEFINE Inv == OutcomeInv /\ GaplessInv
  <1>1. Init => RecordInv /\ Inv
    <2>1. ASSUME Init PROVE GaplessInv
      BY <2>1 DEF Init, GaplessInv, Gapless, Consecutive, Subscribed, Unused
    <2> QED BY <2>1, InitRecord, InitStreams
  <1>2. BaseInv /\ StreamsInv /\ (RecordInv /\ Inv) /\ [Next]_vars => (RecordInv /\ Inv)'
    BY NextRecord, NextOutcome, NextGapless
  <1>3. BaseInv /\ Inv => StreamIsGapless
    <2> SUFFICES ASSUME BaseInv, GaplessInv, NEW c \in Connections
                 PROVE  /\ Consecutive(sockets[c].delivered)
                        /\ \A s \in SessionIds :
                             <<s, c>> \in subscriptions /\ sockets[c].state = "open"
                               /\ call[s].stage # "settled"
                             => Position(c) >= records[s].revision
      BY DEF StreamIsGapless
    <2>1. Gapless(c)
      BY DEF GaplessInv
    <2>2. ASSUME NEW s \in SessionIds, <<s, c>> \in subscriptions, sockets[c].state = "open",
                 call[s].stage # "settled"
          PROVE  Position(c) >= records[s].revision
      <3>1. Held(s) /\ ~Done(s, "delete") /\ ~Changing(s)
        BY <2>1, <2>2 DEF Gapless, Subscribed, Done, Changing
      <3>2. records[s] \in Histories /\ records[s] # None
        BY <3>1 DEF Held, BaseInv, TypeOK
      <3>3. Knows(sockets[c].since, sockets[c].delivered, records[s].revision)
        BY <2>1, <2>2, <3>1, <3>2 DEF Gapless, Subscribed, PublishedRevision
      <3>4. records[s].revision \in Nat
        BY <3>2 DEF Histories, Records
      <3> QED BY <3>3, <3>4 DEF Knows, Position, EndOf
    <2> QED BY <2>1, <2>2 DEF Gapless
  <1> HIDE DEF Inv
  <1> QED BY <1>1, <1>2, <1>3, CapacityKept, PTL DEF Spec
=============================================================================
