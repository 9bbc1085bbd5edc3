------------------------ MODULE FrameworkAdaptersProofs -----------------------
(***************************************************************************)
(* Proofs about a component and everyone else who uses one local session,  *)
(* for any number of controllers, listeners and calls: subscriptions have  *)
(* one owner, a mounted component shows the controller it uses, results    *)
(* come after the snapshots they stand for, listeners end up current, and  *)
(* nothing is applied after a release.                                     *)
(*                                                                         *)
(* Every action is shown once to be Sound: it keeps the types and the      *)
(* roster, changes the stack at its top, takes jobs from the front of the  *)
(* queue and adds them at its end, never moves a controller back, and      *)
(* leaves no listener behind.  The other invariants are proved from that.  *)
(***************************************************************************)
EXTENDS FrameworkAdapters, TLAPS

Status == {"idle", "ready", "submitting", "closed"}

State == [snapshot : Nat, status : Status, failed : BOOLEAN]

Publication ==
  [kind : {"publish"}, controller : Controllers \cup {None}, next : Nat,
   rest : Seq(Controllers \cup Listeners), inCallback : BOOLEAN, attached : BOOLEAN, since : Nat]

Frame == Publication \cup [kind : {"begin"}, controller : Controllers, inCallback : {TRUE}]

Arrival    == [kind : {"snapshot"}, controller : Controllers, revision : Nat, acceptedAt : Nat]
Settlement == [kind : {"settled"}, controller : Controllers, ok : BOOLEAN, revision : Nat,
               attached : BOOLEAN, since : Nat]
Closing    == [kind : {"close", "closed"}, controller : Controllers]
Job        == Arrival \cup Settlement \cup Closing

\* The session, its controllers, the calls that are suspended and the jobs.
TypeOK ==
  /\ snapshot \in Nat /\ sessionClosed \in BOOLEAN
  /\ subscribers \in Seq(Controllers \cup Listeners)
  /\ heard \in [Listeners -> Nat]
  /\ created \subseteq Controllers
  /\ state \in [Controllers -> State]
  /\ connected \in [Controllers -> BOOLEAN]
  /\ closed \in [Controllers -> BOOLEAN]
  /\ lifecycleRevision \in [Controllers -> Nat]
  /\ stack \in Seq(Frame)
  /\ jobs \in Seq(Job)

\* The component.
ComponentTypeOK ==
  /\ lifecycle \in {"hook", "service", "store"}
  /\ own \subseteq Controllers
  /\ rendered \in Controllers \cup {None}
  /\ mounted \in Controllers \cup {None}
  /\ published \in [controller : Controllers \cup {None}, state : State]

\* The session holds each listener once, and a controller's while it is connected.
RosterInv ==
  /\ IsInjective(subscribers)
  /\ sessionClosed => subscribers = <<>>
  /\ \A c \in Controllers :
       /\ connected[c] => c \in created /\ ~closed[c]
       /\ ~sessionClosed => (Subscribed(c) <=> connected[c])

\* The publications under way, and the jobs of two kinds.
Publications == {i \in DOMAIN stack : stack[i].kind = "publish"}
Arrivals     == {i \in DOMAIN jobs : jobs[i].kind = "snapshot"}
Attached     == {i \in DOMAIN jobs : jobs[i].kind = "settled" /\ jobs[i].attached}

\* Nothing is newer than the session's snapshot.
BoundsInv ==
  /\ \A c \in Controllers : state[c].snapshot <= snapshot
  /\ \A i \in Publications : stack[i].next <= snapshot
  /\ \A i \in Arrivals : jobs[i].revision <= snapshot

\* A publication that began inside another one publishes a newer snapshot.
NestingInv == \A i, j \in Publications : i < j => stack[i].next > stack[j].next

\* Only controllers that exist are under way.
CreatedInv ==
  /\ \A i \in DOMAIN jobs : jobs[i].controller \in created
  /\ \A i \in DOMAIN stack : stack[i].controller \in created \cup {None}

\* A lifecycle revision that c had: if it still has it, c is still connected.
Since(c, revision) ==
  /\ revision <= lifecycleRevision[c]
  /\ revision = lifecycleRevision[c] => connected[c]

\* What was accepted or begun while c was connected carries such a revision.
LifecycleInv ==
  /\ \A i \in Arrivals : Since(jobs[i].controller, jobs[i].acceptedAt)
  /\ \A i \in Attached : Since(jobs[i].controller, jobs[i].since)
  /\ \A i \in Publications :
       stack[i].attached => stack[i].controller # None /\ Since(stack[i].controller, stack[i].since)

\* Only the mounted controller of a component is connected, the component shows
\* its state, and outside a hook it is the one in use.
ComponentInv ==
  /\ own \subseteq created
  /\ {rendered, mounted} \subseteq own \cup {None}
  /\ mounted # None => rendered # None
  /\ lifecycle # "hook" => mounted \in {None, rendered}
  /\ \A c \in own : connected[c] => c = mounted
  /\ mounted # None =>
       /\ published = [controller |-> mounted, state |-> state[mounted]]
       /\ closed[mounted] \/ sessionClosed \/ connected[mounted]

\* The newest publication still has x before it.
Pending(x) == \E i \in Publications : stack[i].next = snapshot /\ x \in ToSet(stack[i].rest)

\* A listener has heard the current snapshot or is going to.
HeardInv == \A l \in Listeners : Subscribed(l) => heard[l] = snapshot \/ Pending(l)

\* So has a connected controller, which applies it in a job.
CurrentInv ==
  ~sessionClosed =>
    \A c \in Controllers : connected[c] => state[c].snapshot = snapshot \/ Waiting(c) \/ Pending(c)

\* A result in the queue is behind a snapshot as new, or that is applied already.
SettledInv ==
  ~sessionClosed =>
    \A i \in Attached :
      LET c == jobs[i].controller
      IN  jobs[i].since = lifecycleRevision[c] =>
            \/ state[c].snapshot >= jobs[i].revision
            \/ \E j \in Arrivals : /\ j < i /\ jobs[j].controller = c
                                   /\ jobs[j].acceptedAt = lifecycleRevision[c]
                                   /\ jobs[j].revision >= jobs[i].revision


-----------------------------------------------------------------------------
\* Who can listen to the session.
Party == Controllers \cup Listeners

\* The elements of a concatenation.
LEMMA ConcatAt ==
  ASSUME NEW s \in Seq(Party), NEW u \in Seq(Party)
  PROVE  /\ s \o u \in Seq(Party) /\ Len(s \o u) = Len(s) + Len(u)
         /\ \A i \in 1..(Len(s) + Len(u)) : (s \o u)[i] = IF i <= Len(s) THEN s[i] ELSE u[i - Len(s)]
OBVIOUS

\* Deleting a listener from the set takes that one out (subscribe of the local session).
LEMMA WithoutParty ==
  ASSUME NEW s \in Seq(Party), IsInjective(s), NEW x
  PROVE  /\ Without(s, x) \in Seq(Party)
         /\ IsInjective(Without(s, x))
         /\ ToSet(Without(s, x)) = ToSet(s) \ {x}
<1>1. CASE x \notin ToSet(s)
  BY <1>1 DEF Without
<1>2. CASE x \in ToSet(s)
  <2> DEFINE k == CHOOSE i \in DOMAIN s : s[i] = x
             t == Without(s, x)
  <2>1. k \in 1..Len(s) /\ s[k] = x
    BY <1>2 DEF ToSet
  <2>2. t = SubSeq(s, 1, k - 1) \o SubSeq(s, k + 1, Len(s))
    BY <1>2 DEF Without, RemoveAt
  <2> HIDE DEF k, t
  <2>3. /\ t \in Seq(Party) /\ Len(t) = Len(s) - 1
        /\ \A i \in 1..Len(t) : t[i] = IF i < k THEN s[i] ELSE s[i + 1]
    <3> DEFINE before == SubSeq(s, 1, k - 1)
               after  == SubSeq(s, k + 1, Len(s))
    <3>1. /\ before \in Seq(Party) /\ Len(before) = k - 1
          /\ \A i \in 1..(k - 1) : before[i] = s[i]
      BY <2>1
    <3>2. /\ after \in Seq(Party) /\ Len(after) = Len(s) - k
          /\ \A i \in 1..(Len(s) - k) : after[i] = s[k + i]
      BY <2>1
    <3>3. t = before \o after
      BY <2>2
    <3> HIDE DEF before, after
    <3>4. /\ t \in Seq(Party) /\ Len(t) = Len(before) + Len(after)
          /\ \A i \in 1..Len(t) : i <= Len(before) => t[i] = before[i]
          /\ \A i \in 1..Len(t) : ~(i <= Len(before)) => t[i] = after[i - Len(before)]
      <4>1. Len(before) \in Nat /\ Len(after) \in Nat
        BY <3>1, <3>2
      <4>2. t \in Seq(Party) /\ Len(t) = Len(before) + Len(after)
        <5>1. before \in Seq(Party) /\ after \in Seq(Party)
          BY <3>1, <3>2
        <5>2. before \o after \in Seq(Party) /\ Len(before \o after) = Len(before) + Len(after)
          BY <5>1, ConcatAt
        <5> QED
          BY <5>2, <3>3, Zenon
      <4>3. \A i \in 1..(Len(before) + Len(after)) :
               t[i] = IF i <= Len(before) THEN before[i] ELSE after[i - Len(before)]
        <5>1. before \in Seq(Party) /\ after \in Seq(Party)
          BY <3>1, <3>2
        <5>2. \A i \in 1..(Len(before) + Len(after)) :
                (before \o after)[i] = IF i <= Len(before) THEN before[i] ELSE after[i - Len(before)]
          BY <5>1, ConcatAt
        <5> QED
          BY <5>2, <3>3, Zenon
      <4> QED
        BY <4>1, <4>2, <4>3
    <3>5. ASSUME NEW i \in 1..Len(t)
          PROVE  t[i] = IF i < k THEN s[i] ELSE s[i + 1]
      <4>1. CASE i < k
        BY <4>1, <3>1, <3>4, <2>1
      <4>2. CASE i >= k
        <5>1. i - (k - 1) \in 1..(Len(s) - k) /\ k + (i - (k - 1)) = i + 1 /\ ~(i <= Len(before))
          BY <4>2, <3>1, <3>2, <3>4, <2>1
        <5>2. t[i] = after[i - (k - 1)]
          BY <5>1, <3>1, <3>4
        <5>3. after[i - (k - 1)] = s[k + (i - (k - 1))]
          BY <5>1, <3>2
        <5> QED
          BY <5>1, <5>2, <5>3, <4>2, <2>1
      <4> QED
        BY <4>1, <4>2, <2>1
    <3> QED
      BY <2>1, <3>1, <3>2, <3>4, <3>5
  <2>4. DOMAIN t = 1..Len(t) /\ DOMAIN s = 1..Len(s)
    BY <2>3
  <2>5. IsInjective(t)
    <3> SUFFICES ASSUME NEW i \in 1..Len(t), NEW j \in 1..Len(t), t[i] = t[j] PROVE i = j
      BY <2>4 DEF IsInjective
    <3> DEFINE From(n) == IF n < k THEN n ELSE n + 1
    <3>1. From(i) \in 1..Len(s) /\ From(j) \in 1..Len(s) /\ (From(i) = From(j) => i = j)
      BY <2>1, <2>3
    <3>2. t[i] = s[From(i)] /\ t[j] = s[From(j)]
      BY <2>3
    <3> HIDE DEF From
    <3>3. From(i) = From(j)
      BY <3>1, <3>2, <2>4 DEF IsInjective
    <3> QED
      BY <3>1, <3>3
  <2>6. \A y \in ToSet(t) : y \in ToSet(s) \ {x}
    BY <2>1, <2>3, <2>4 DEF IsInjective, ToSet
  <2>7. \A y \in ToSet(s) \ {x} : y \in ToSet(t)
    <3> SUFFICES ASSUME NEW i \in 1..Len(s), s[i] # x PROVE s[i] \in ToSet(t)
      BY <2>4 DEF ToSet
    <3>1. CASE i < k
      BY <3>1, <2>1, <2>3, <2>4 DEF ToSet
    <3>2. CASE i > k
      <4>1. i - 1 \in DOMAIN t /\ t[i - 1] = s[i]
        BY <3>2, <2>1, <2>3, <2>4
      <4> QED
        BY <4>1 DEF ToSet
    <3> QED
      BY <3>1, <3>2, <2>1
  <2> QED
    BY <2>3, <2>5, <2>6, <2>7 DEF t
<1> QED
  BY <1>1, <1>2

\* A listener that is not in the set joins it at the end.
LEMMA AppendParty ==
  ASSUME NEW s \in Seq(Party), IsInjective(s), NEW x \in Party, x \notin ToSet(s)
  PROVE  /\ Append(s, x) \in Seq(Party)
         /\ IsInjective(Append(s, x))
         /\ ToSet(Append(s, x)) = ToSet(s) \cup {x}
<1> DEFINE t == Append(s, x)
<1>1. /\ t \in Seq(Party) /\ Len(t) = Len(s) + 1 /\ t[Len(s) + 1] = x
      /\ \A i \in 1..Len(s) : t[i] = s[i]
  OBVIOUS
<1>2. DOMAIN t = 1..(Len(s) + 1) /\ DOMAIN s = 1..Len(s)
  BY <1>1
<1> HIDE DEF t
<1>3. IsInjective(t)
  BY <1>1, <1>2 DEF IsInjective, ToSet
<1>4. ToSet(t) = ToSet(s) \cup {x}
  BY <1>1, <1>2 DEF ToSet
<1> QED
  BY <1>1, <1>3, <1>4 DEF t

-----------------------------------------------------------------------------
\* The queue of jobs.
\* A job that joins the queue: a snapshot belongs to a connection, and a result to
\* be seen on a connected controller is already there or already on its way.
NewJob(job) ==
  /\ job.controller \in created
  /\ job.kind = "snapshot" =>
       /\ job.revision <= snapshot'
       /\ job.acceptedAt = lifecycleRevision'[job.controller] /\ connected'[job.controller]
  /\ job.kind = "settled" /\ job.attached =>
       /\ Since(job.controller, job.since)
       /\ ~sessionClosed /\ job.since = lifecycleRevision[job.controller] =>
            \/ state[job.controller].snapshot >= job.revision
            \/ \E j \in Arrivals : /\ jobs[j].controller = job.controller
                                   /\ jobs[j].acceptedAt = lifecycleRevision[job.controller]
                                   /\ jobs[j].revision >= job.revision

\* A job that leaves the queue: a snapshot accepted by this lifecycle is applied.
Spent(job) ==
  job.kind = "snapshot" /\ job.acceptedAt = lifecycleRevision[job.controller] =>
    state'[job.controller].snapshot >= job.revision

\* d jobs leave in front and at most one joins at the end.
Queued(d) ==
  /\ d <= Len(jobs) /\ (d = 1 => Spent(jobs[1]))
  /\ \A i \in 1..(Len(jobs) - d) : i \in DOMAIN jobs' /\ jobs'[i] = jobs[i + d]
  /\ \A i \in DOMAIN jobs' : i > Len(jobs) - d => i = Len(jobs) - d + 1 /\ NewJob(jobs'[i])

JobStep == jobs' \in Seq(Job) /\ \E d \in {0, 1} : Queued(d)

\* The queue is left alone.
LEMMA JobsKept ==
  ASSUME jobs \in Seq(Job), jobs' = jobs
  PROVE  JobStep
<1>1. Queued(0)
  BY DEF Queued
<1> QED
  BY <1>1 DEF JobStep

\* A job joins the queue (queueMicrotask).
LEMMA JobAppended ==
  ASSUME jobs \in Seq(Job), NEW job \in Job, NewJob(job), jobs' = Append(jobs, job)
  PROVE  JobStep /\ Len(jobs) + 1 \in DOMAIN jobs' /\ jobs'[Len(jobs) + 1] = job
<1>1. /\ jobs' \in Seq(Job) /\ DOMAIN jobs' = 1..(Len(jobs) + 1) /\ jobs'[Len(jobs) + 1] = job
      /\ \A i \in 1..Len(jobs) : jobs'[i] = jobs[i]
  OBVIOUS
<1>2. Queued(0)
  BY <1>1 DEF Queued
<1> QED
  BY <1>1, <1>2 DEF JobStep

\* The first job runs.
LEMMA JobTaken ==
  ASSUME jobs \in Seq(Job), jobs # <<>>, Spent(Head(jobs)), jobs' = Tail(jobs)
  PROVE  JobStep
<1>1. /\ jobs' \in Seq(Job) /\ DOMAIN jobs' = 1..(Len(jobs) - 1) /\ Len(jobs) >= 1
      /\ jobs[1] = Head(jobs)
      /\ \A i \in 1..(Len(jobs) - 1) : jobs'[i] = jobs[i + 1]
  OBVIOUS
<1>2. Queued(1)
  BY <1>1 DEF Queued
<1> QED
  BY <1>1, <1>2 DEF JobStep

\* The first job runs and the rest of its call joins the queue (close).
LEMMA JobContinued ==
  ASSUME jobs \in Seq(Job), jobs # <<>>, Spent(Head(jobs)), NEW job \in Job, NewJob(job),
         jobs' = Append(Tail(jobs), job)
  PROVE  JobStep
<1> DEFINE t == Tail(jobs)
<1>1. /\ t \in Seq(Job) /\ Len(t) = Len(jobs) - 1 /\ Len(jobs) >= 1 /\ jobs[1] = Head(jobs)
      /\ \A i \in 1..(Len(jobs) - 1) : t[i] = jobs[i + 1]
  OBVIOUS
<1> HIDE DEF t
<1>2. /\ jobs' \in Seq(Job) /\ DOMAIN jobs' = 1..Len(jobs) /\ jobs'[Len(jobs)] = job
      /\ \A i \in 1..(Len(jobs) - 1) : jobs'[i] = t[i]
  BY <1>1 DEF t
<1>3. Queued(1)
  BY <1>1, <1>2 DEF Queued
<1> QED
  BY <1>2, <1>3 DEF JobStep

-----------------------------------------------------------------------------
\* The stack of calls.
\* A frame keeps what its publication began with.
Kept(new, old) ==
  /\ new.kind = old.kind /\ new.controller = old.controller
  /\ new.kind = "publish" =>
       new.next = old.next /\ new.attached = old.attached /\ new.since = old.since

\* A frame that is pushed: a publication makes the snapshot newer.
NewFrame(frame) ==
  /\ frame.controller \in created \cup {None}
  /\ frame.kind = "publish" =>
       /\ snapshot' = snapshot + 1 /\ frame.next = snapshot'
       /\ frame.attached => /\ frame.controller # None /\ connected[frame.controller]
                            /\ frame.since = lifecycleRevision[frame.controller]

\* Below the top, frame i is what frame i + d was.
Suspended(d) ==
  \A i \in DOMAIN stack' : \/ i + d \in DOMAIN stack /\ Kept(stack'[i], stack[i + d])
                           \/ i = 1 /\ NewFrame(stack'[i])

StackStep == stack' \in Seq(Frame) /\ \E d \in {-1, 0, 1} : Suspended(d)

\* The stack is left alone.
LEMMA StackKept ==
  ASSUME stack \in Seq(Frame), stack' = stack
  PROVE  StackStep
<1>1. Suspended(0)
  BY DEF Suspended, Kept
<1> QED
  BY <1>1 DEF StackStep

\* A call is suspended in a callback.
LEMMA StackPushed ==
  ASSUME stack \in Seq(Frame), NEW frame \in Frame, NewFrame(frame), stack' = <<frame>> \o stack
  PROVE  /\ StackStep /\ 1 \in DOMAIN stack' /\ stack'[1] = frame
         /\ \A i \in DOMAIN stack : i + 1 \in DOMAIN stack' /\ stack'[i + 1] = stack[i]
<1>1. /\ stack' \in Seq(Frame) /\ DOMAIN stack' = 1..(Len(stack) + 1) /\ DOMAIN stack = 1..Len(stack)
      /\ stack'[1] = frame
      /\ \A i \in 2..(Len(stack) + 1) : stack'[i] = stack[i - 1]
  OBVIOUS
<1>2. Suspended(-1)
  <2> SUFFICES ASSUME NEW i \in DOMAIN stack', i # 1
               PROVE  i + (-1) \in DOMAIN stack /\ Kept(stack'[i], stack[i + (-1)])
    BY <1>1 DEF Suspended
  <2>1. i - 1 \in DOMAIN stack /\ stack'[i] = stack[i - 1] /\ i + (-1) = i - 1
    BY <1>1
  <2> QED
    BY <2>1 DEF Kept
<1>3. \A i \in DOMAIN stack : i + 1 \in DOMAIN stack' /\ stack'[i + 1] = stack[i]
  BY <1>1
<1> QED
  BY <1>1, <1>2, <1>3 DEF StackStep

\* The top call goes on and is suspended again.
LEMMA StackReplaced ==
  ASSUME stack \in Seq(Frame), stack # <<>>, NEW frame \in Frame, NewFrame(frame),
         stack' = <<frame>> \o Tail(stack)
  PROVE  /\ StackStep /\ 1 \in DOMAIN stack' /\ stack'[1] = frame
         /\ \A i \in DOMAIN stack : i # 1 => i \in DOMAIN stack' /\ stack'[i] = stack[i]
<1> DEFINE t == Tail(stack)
<1>1. /\ t \in Seq(Frame) /\ Len(t) = Len(stack) - 1 /\ Len(stack) >= 1 /\ DOMAIN stack = 1..Len(stack)
      /\ \A i \in 1..(Len(stack) - 1) : t[i] = stack[i + 1]
  OBVIOUS
<1> HIDE DEF t
<1>2. /\ stack' \in Seq(Frame) /\ DOMAIN stack' = 1..Len(stack) /\ stack'[1] = frame
      /\ \A i \in 2..Len(stack) : stack'[i] = t[i - 1]
  BY <1>1 DEF t
<1>3. \A i \in 2..Len(stack) : stack'[i] = stack[i]
  BY <1>1, <1>2
<1>4. Suspended(0)
  <2> SUFFICES ASSUME NEW i \in DOMAIN stack', i # 1
               PROVE  i + 0 \in DOMAIN stack /\ Kept(stack'[i], stack[i + 0])
    BY <1>2 DEF Suspended
  <2>1. i \in DOMAIN stack /\ stack'[i] = stack[i] /\ i + 0 = i
    BY <1>1, <1>2, <1>3
  <2> QED
    BY <2>1 DEF Kept
<1>5. \A i \in DOMAIN stack : i # 1 => i \in DOMAIN stack' /\ stack'[i] = stack[i]
  BY <1>1, <1>2, <1>3
<1> QED
  BY <1>1, <1>2, <1>4, <1>5 DEF StackStep

\* The top call returns.
LEMMA StackPopped ==
  ASSUME stack \in Seq(Frame), stack # <<>>, stack' = Tail(stack)
  PROVE  /\ StackStep
         /\ \A i \in DOMAIN stack : i # 1 => i - 1 \in DOMAIN stack' /\ stack'[i - 1] = stack[i]
<1>1. /\ stack' \in Seq(Frame) /\ DOMAIN stack' = 1..(Len(stack) - 1) /\ Len(stack) >= 1
      /\ DOMAIN stack = 1..Len(stack)
      /\ \A i \in 1..(Len(stack) - 1) : stack'[i] = stack[i + 1]
  OBVIOUS
<1>2. Suspended(1)
  BY <1>1 DEF Suspended, Kept
<1>3. \A i \in DOMAIN stack : i # 1 => i - 1 \in DOMAIN stack' /\ stack'[i - 1] = stack[i]
  BY <1>1
<1> QED
  BY <1>1, <1>2, <1>3 DEF StackStep

\* A publication passes a listener.
LEMMA StackAdvanced ==
  ASSUME stack \in Seq(Frame), stack # <<>>, Head(stack).kind = "publish",
         Head(stack).rest # <<>>, NEW inCallback \in BOOLEAN,
         stack' = [stack EXCEPT ![1].rest = Tail(@), ![1].inCallback = inCallback]
  PROVE  /\ StackStep /\ DOMAIN stack' = DOMAIN stack /\ 1 \in DOMAIN stack
         /\ Head(stack) = stack[1]
         /\ stack'[1].kind = "publish" /\ stack'[1].next = stack[1].next
         /\ stack'[1].rest = Tail(stack[1].rest)
         /\ \A i \in DOMAIN stack : i # 1 => stack'[i] = stack[i]
<1>1. 1 \in DOMAIN stack /\ Head(stack) = stack[1] /\ stack[1] \in Frame
  OBVIOUS
<1>2. stack[1] \in Publication
  BY <1>1 DEF Frame, Publication
<1>0. /\ stack[1].rest \in Seq(Controllers \cup Listeners) /\ stack[1].rest # <<>>
      /\ Tail(stack[1].rest) \in Seq(Controllers \cup Listeners)
  BY <1>1, <1>2 DEF Publication
<1> DEFINE f1 == [stack[1] EXCEPT !.rest = Tail(@)]
           f2 == [f1 EXCEPT !.inCallback = inCallback]
<1>3. stack' = [stack EXCEPT ![1] = f2]
  BY <1>1, <1>2 DEF Publication
<1>4. /\ f1 \in Publication /\ f1.kind = "publish" /\ f1.next = stack[1].next
      /\ f1.controller = stack[1].controller /\ f1.attached = stack[1].attached
      /\ f1.since = stack[1].since /\ f1.rest = Tail(stack[1].rest)
  BY <1>0, <1>1, <1>2 DEF Publication
<1> HIDE DEF f1
<1>5. /\ f2 \in Publication /\ f2.kind = "publish" /\ f2.next = stack[1].next
      /\ f2.controller = stack[1].controller /\ f2.attached = stack[1].attached
      /\ f2.since = stack[1].since /\ f2.rest = Tail(stack[1].rest)
  BY <1>4 DEF Publication
<1> HIDE DEF f2
<1>6. f2 \in Frame
  BY <1>5 DEF Frame
<1>7. /\ stack' \in Seq(Frame) /\ DOMAIN stack' = DOMAIN stack /\ stack'[1] = f2
      /\ \A i \in DOMAIN stack : i # 1 => stack'[i] = stack[i]
  BY <1>1, <1>3, <1>6
<1>8. Suspended(0)
  <2> SUFFICES ASSUME NEW i \in DOMAIN stack'
               PROVE  i + 0 \in DOMAIN stack /\ Kept(stack'[i], stack[i + 0])
    BY DEF Suspended
  <2>1. i + 0 = i /\ i \in DOMAIN stack
    BY <1>7
  <2> QED
    BY <2>1, <1>1, <1>2, <1>5, <1>7 DEF Kept, Publication
<1> QED
  BY <1>1, <1>2, <1>5, <1>7, <1>8 DEF StackStep, Publication

-----------------------------------------------------------------------------
\* The fields of a frame.
LEMMA FrameTypes ==
  ASSUME NEW s \in Seq(Frame), NEW i \in DOMAIN s
  PROVE  /\ s[i].kind \in {"publish", "begin"} /\ s[i].controller \in Controllers \cup {None}
         /\ s[i].kind = "publish" =>
              /\ s[i].next \in Nat /\ s[i].since \in Nat
              /\ s[i].attached \in BOOLEAN /\ s[i].rest \in Seq(Party)
<1>1. s[i] \in Frame
  OBVIOUS
<1> QED
  BY <1>1 DEF Frame, Publication, Party

\* The fields of a job.
LEMMA JobTypes ==
  ASSUME NEW s \in Seq(Job), NEW i \in DOMAIN s
  PROVE  /\ s[i].controller \in Controllers
         /\ s[i].kind = "snapshot" => s[i].revision \in Nat /\ s[i].acceptedAt \in Nat
         /\ s[i].kind = "settled" =>
              s[i].revision \in Nat /\ s[i].attached \in BOOLEAN /\ s[i].since \in Nat
<1>1. s[i] \in Job
  OBVIOUS
<1> QED
  BY <1>1 DEF Job, Arrival, Settlement, Closing

\* The fields of a controller.
LEMMA StateTypes ==
  ASSUME TypeOK, NEW c \in Controllers
  PROVE  /\ state[c] \in State /\ state[c].snapshot \in Nat
         /\ connected[c] \in BOOLEAN /\ closed[c] \in BOOLEAN /\ lifecycleRevision[c] \in Nat
<1>1. /\ state[c] \in State /\ lifecycleRevision[c] \in Nat
      /\ connected[c] \in BOOLEAN /\ closed[c] \in BOOLEAN
  BY DEF TypeOK
<1> QED
  BY <1>1 DEF State

-----------------------------------------------------------------------------
\* No controller goes back, and a connection lasts until its lifecycle ends.
ControllerStep ==
  /\ created \subseteq created' /\ (sessionClosed => sessionClosed')
  /\ snapshot' \in {snapshot, snapshot + 1}
  /\ \A c \in Controllers :
       /\ lifecycleRevision[c] <= lifecycleRevision'[c]
       /\ connected[c] /\ lifecycleRevision'[c] = lifecycleRevision[c] => connected'[c]
       /\ connected[c] /\ connected'[c] => lifecycleRevision'[c] = lifecycleRevision[c]
       /\ state[c].snapshot <= state'[c].snapshot /\ state'[c].snapshot <= snapshot'

\* After the step x has the current snapshot or is going to.
Reached(x) ==
  \/ Pending(x)'
  \/ x \in Listeners /\ heard'[x] = snapshot'
  \/ x \in Controllers /\ (state'[x].snapshot = snapshot' \/ Waiting(x)')

\* Whoever is subscribed after the step is reached, or nothing happened to it.
ToldStep ==
  /\ snapshot' = snapshot => \A l \in Listeners : heard'[l] \in {heard[l], snapshot}
  /\ \A x \in Party :
       x \in ToSet(subscribers') =>
         \/ Reached(x)
         \/ snapshot' = snapshot /\ x \in ToSet(subscribers) /\ (Pending(x) => Pending(x)')

Step == StackStep /\ JobStep /\ ControllerStep /\ ToldStep

\* Since, after the step.
StillSince(c, revision) ==
  /\ revision <= lifecycleRevision'[c]
  /\ revision = lifecycleRevision'[c] => connected'[c]

\* Snapshots that are under way stay behind the session's.
LEMMA BoundsStep ==
  ASSUME TypeOK, TypeOK', BoundsInv, Step
  PROVE  BoundsInv'
<1> USE DEF Step
<1>1. snapshot \in Nat /\ snapshot' \in Nat /\ snapshot <= snapshot' /\ jobs \in Seq(Job)
      /\ stack \in Seq(Frame)
  BY DEF TypeOK, ControllerStep
<1>2. \A c \in Controllers : state'[c].snapshot <= snapshot'
  BY DEF ControllerStep
<1>3. ASSUME NEW i \in Publications' PROVE stack'[i].next <= snapshot'
  <2>1. PICK d \in {-1, 0, 1} : Suspended(d)
    BY DEF StackStep
  <2>2. i \in DOMAIN stack' /\ stack'[i].kind = "publish"
    BY <1>3 DEF Publications
  <2>3. CASE i + d \in DOMAIN stack /\ Kept(stack'[i], stack[i + d])
    <3>1. i + d \in Publications /\ stack'[i].next = stack[i + d].next
      BY <2>2, <2>3 DEF Kept, Publications
    <3>2. stack[i + d].next \in Nat
      BY <1>1, <2>2, <2>3, FrameTypes DEF Kept
    <3> QED
      BY <1>1, <3>1, <3>2 DEF BoundsInv
  <2>4. CASE NewFrame(stack'[i])
    BY <2>2, <2>4, <1>1 DEF NewFrame
  <2> QED
    BY <2>1, <2>2, <2>3, <2>4 DEF Suspended
<1>4. ASSUME NEW i \in Arrivals' PROVE jobs'[i].revision <= snapshot'
  <2>1. PICK d \in {0, 1} : Queued(d)
    BY DEF JobStep
  <2>2. i \in DOMAIN jobs' /\ jobs'[i].kind = "snapshot" /\ jobs' \in Seq(Job)
    BY <1>4 DEF Arrivals, JobStep
  <2>3. CASE i <= Len(jobs) - d
    <3>1. i + d \in DOMAIN jobs /\ i \in 1..(Len(jobs) - d)
      BY <1>1, <2>2, <2>3
    <3>2. i + d \in Arrivals /\ jobs'[i] = jobs[i + d]
      BY <2>1, <2>2, <3>1 DEF Arrivals, Queued
    <3>3. jobs[i + d].revision \in Nat
      BY <1>1, <3>1, <3>2, <2>2, JobTypes
    <3> QED
      BY <1>1, <3>2, <3>3 DEF BoundsInv
  <2>4. CASE i > Len(jobs) - d
    BY <2>1, <2>2, <2>4 DEF Queued, NewJob
  <2> QED
    BY <1>1, <2>2, <2>3, <2>4
<1> QED
  BY <1>2, <1>3, <1>4 DEF BoundsInv

\* Publications stay nested by their snapshots.
LEMMA NestingStep ==
  ASSUME TypeOK, TypeOK', BoundsInv, NestingInv, Step
  PROVE  NestingInv'
<1> SUFFICES ASSUME NEW i \in Publications', NEW j \in Publications', i < j
             PROVE  stack'[i].next > stack'[j].next
  BY DEF NestingInv
<1>1. snapshot \in Nat /\ stack \in Seq(Frame) /\ stack' \in Seq(Frame)
  BY DEF TypeOK
<1>2. PICK d \in {-1, 0, 1} : Suspended(d)
  BY DEF Step, StackStep
<1>3. /\ i \in DOMAIN stack' /\ stack'[i].kind = "publish"
      /\ j \in DOMAIN stack' /\ stack'[j].kind = "publish"
      /\ i \in Nat /\ j \in Nat /\ i >= 1
  BY <1>1 DEF Publications
<1>4. /\ j + d \in Publications /\ stack'[j].next = stack[j + d].next
      /\ stack[j + d].next \in Nat /\ stack[j + d].next <= snapshot
  <2>1. j + d \in DOMAIN stack /\ Kept(stack'[j], stack[j + d])
    BY <1>2, <1>3 DEF Suspended
  <2>2. stack[j + d].kind = "publish"
    BY <1>3, <2>1 DEF Kept
  <2>3. stack[j + d].next \in Nat
    BY <1>1, <2>1, <2>2, FrameTypes
  <2> QED
    BY <1>3, <2>1, <2>2, <2>3 DEF Kept, Publications, BoundsInv
<1>5. CASE i + d \in DOMAIN stack /\ Kept(stack'[i], stack[i + d])
  <2>1. i + d \in Publications /\ stack'[i].next = stack[i + d].next
    BY <1>3, <1>5 DEF Kept, Publications
  <2>2. i + d < j + d
    BY <1>3
  <2> QED
    BY <1>4, <2>1, <2>2 DEF NestingInv
<1>6. CASE NewFrame(stack'[i])
  BY <1>1, <1>3, <1>4, <1>6 DEF NewFrame
<1> QED
  BY <1>2, <1>3, <1>5, <1>6 DEF Suspended

\* Controllers do not cease to exist.
LEMMA CreatedStep ==
  ASSUME TypeOK, TypeOK', CreatedInv, Step
  PROVE  CreatedInv'
<1>1. created \subseteq created' /\ jobs \in Seq(Job) /\ jobs' \in Seq(Job)
  BY DEF TypeOK, Step, ControllerStep
<1>2. ASSUME NEW i \in DOMAIN stack' PROVE stack'[i].controller \in created' \cup {None}
  BY <1>1 DEF Step, StackStep, Suspended, Kept, NewFrame, CreatedInv
<1>3. ASSUME NEW i \in DOMAIN jobs' PROVE jobs'[i].controller \in created'
  <2>1. PICK d \in {0, 1} : Queued(d)
    BY DEF Step, JobStep
  <2>2. CASE i <= Len(jobs) - d
    <3>1. i + d \in DOMAIN jobs /\ i \in 1..(Len(jobs) - d)
      BY <1>1, <2>2
    <3> QED
      BY <1>1, <2>1, <3>1 DEF CreatedInv, Queued
  <2>3. CASE i > Len(jobs) - d
    BY <1>1, <2>1, <2>3 DEF Queued, NewJob
  <2> QED
    BY <1>1, <2>2, <2>3
<1> QED
  BY <1>2, <1>3 DEF CreatedInv

\* A lifecycle that ended does not come back.
LEMMA LifecycleStep ==
  ASSUME TypeOK, TypeOK', CreatedInv, LifecycleInv, Step
  PROVE  LifecycleInv'
<1>1. /\ jobs \in Seq(Job) /\ jobs' \in Seq(Job) /\ stack \in Seq(Frame) /\ stack' \in Seq(Frame)
      /\ ControllerStep /\ created \subseteq Controllers
      /\ \A c \in Controllers : lifecycleRevision[c] \in Nat /\ lifecycleRevision'[c] \in Nat
  BY DEF TypeOK, Step
<1>2. ASSUME NEW i \in DOMAIN jobs', jobs'[i].kind = "snapshot"
      PROVE  StillSince(jobs'[i].controller, jobs'[i].acceptedAt)
  <2>1. PICK d \in {0, 1} : Queued(d)
    BY DEF Step, JobStep
  <2>2. CASE i <= Len(jobs) - d
    <3>1. i + d \in DOMAIN jobs /\ i \in 1..(Len(jobs) - d)
      BY <1>1, <2>2
    <3>2. i + d \in Arrivals /\ jobs'[i] = jobs[i + d]
      BY <1>2, <2>1, <3>1 DEF Queued, Arrivals
    <3>3. Since(jobs[i + d].controller, jobs[i + d].acceptedAt)
      BY <3>2 DEF LifecycleInv
    <3>4. jobs'[i].controller \in Controllers /\ jobs'[i].acceptedAt \in Nat
      BY <1>1, <1>2, JobTypes
    <3> DEFINE c == jobs'[i].controller
               r == jobs'[i].acceptedAt
    <3>5. Since(c, r)
      BY <3>2, <3>3
    <3> HIDE DEF c, r
    <3>6. c \in Controllers /\ r \in Nat
      BY <3>4 DEF c, r
    <3>7. r <= lifecycleRevision'[c] /\ (r = lifecycleRevision'[c] => connected'[c])
      BY <3>5, <3>6, <1>1 DEF Since, ControllerStep
    <3> QED
      BY <3>7 DEF StillSince, c, r
  <2>3. CASE i > Len(jobs) - d
    <3>1. NewJob(jobs'[i])
      BY <2>1, <2>3 DEF Queued
    <3>2. jobs'[i].controller \in Controllers
      BY <1>1, JobTypes
    <3> QED
      BY <1>1, <1>2, <3>1, <3>2 DEF NewJob, StillSince
  <2> QED
    BY <1>1, <2>2, <2>3
<1>3. ASSUME NEW i \in DOMAIN jobs', jobs'[i].kind = "settled", jobs'[i].attached
      PROVE  StillSince(jobs'[i].controller, jobs'[i].since)
  <2>1. PICK d \in {0, 1} : Queued(d)
    BY DEF Step, JobStep
  <2> DEFINE c == jobs'[i].controller
             r == jobs'[i].since
  <2>2. c \in Controllers /\ r \in Nat
    BY <1>1, <1>3, JobTypes
  <2>3. Since(c, r)
    <3>1. CASE i <= Len(jobs) - d
      <4>1. i + d \in DOMAIN jobs /\ i \in 1..(Len(jobs) - d)
        BY <1>1, <3>1
      <4>2. i + d \in Attached /\ jobs'[i] = jobs[i + d]
        BY <1>3, <2>1, <4>1 DEF Queued, Attached
      <4> QED
        BY <4>2 DEF LifecycleInv
    <3>2. CASE i > Len(jobs) - d
      BY <1>3, <2>1, <3>2 DEF Queued, NewJob
    <3> QED
      BY <1>1, <3>1, <3>2
  <2> HIDE DEF c, r
  <2>4. r <= lifecycleRevision'[c] /\ (r = lifecycleRevision'[c] => connected'[c])
    BY <2>2, <2>3, <1>1 DEF Since, ControllerStep
  <2> QED
    BY <2>4 DEF StillSince, c, r
<1>4. ASSUME NEW i \in DOMAIN stack', stack'[i].kind = "publish", stack'[i].attached
      PROVE  stack'[i].controller # None /\ StillSince(stack'[i].controller, stack'[i].since)
  <2>1. PICK d \in {-1, 0, 1} : Suspended(d)
    BY DEF Step, StackStep
  <2> DEFINE c == stack'[i].controller
             r == stack'[i].since
  <2>2. c \in Controllers \cup {None} /\ r \in Nat
    BY <1>1, <1>4, FrameTypes
  <2>3. c # None /\ Since(c, r)
    <3>1. CASE i + d \in DOMAIN stack /\ Kept(stack'[i], stack[i + d])
      <4>1. i + d \in Publications /\ stack[i + d].attached
        BY <1>4, <3>1 DEF Kept, Publications
      <4> QED
        BY <1>4, <3>1, <4>1 DEF Kept, LifecycleInv
    <3>2. CASE NewFrame(stack'[i])
      <4>1. c # None /\ connected[c] /\ r = lifecycleRevision[c]
        BY <1>4, <3>2 DEF NewFrame
      <4> QED
        BY <1>1, <2>2, <4>1 DEF Since
    <3> QED
      BY <2>1, <3>1, <3>2 DEF Suspended
  <2> HIDE DEF c, r
  <2>4. r <= lifecycleRevision'[c] /\ (r = lifecycleRevision'[c] => connected'[c])
    BY <2>2, <2>3, <1>1 DEF Since, ControllerStep
  <2> QED
    BY <2>3, <2>4 DEF StillSince, c, r
<1> QED
  BY <1>2, <1>3, <1>4 DEF LifecycleInv, Arrivals, Attached, Publications, Since, StillSince

\* A listener that heard the current snapshot hears the next (publish).
LEMMA HeardStep ==
  ASSUME TypeOK, HeardInv, Step
  PROVE  HeardInv'
<1> SUFFICES ASSUME NEW l \in Listeners, l \in ToSet(subscribers')
             PROVE  heard'[l] = snapshot' \/ Pending(l)'
  BY DEF HeardInv, Subscribed
<1>1. l \in Party /\ l \notin Controllers
  BY ControllerAssumption DEF Party
<1>2. CASE Reached(l)
  BY <1>1, <1>2 DEF Reached
<1>3. CASE snapshot' = snapshot /\ l \in ToSet(subscribers) /\ (Pending(l) => Pending(l)')
  <2>1. heard'[l] \in {heard[l], snapshot}
    BY <1>3 DEF Step, ToldStep
  <2>2. heard[l] = snapshot \/ Pending(l)
    BY <1>3 DEF HeardInv, Subscribed
  <2> QED
    BY <1>3, <2>1, <2>2
<1> QED
  BY <1>1, <1>2, <1>3 DEF Step, ToldStep

\* A job of the queue moves forward or has run.
LEMMA JobMoves ==
  ASSUME jobs \in Seq(Job), NEW d \in {0, 1}, Queued(d), NEW i \in DOMAIN jobs
  PROVE  \/ /\ i - d \in DOMAIN jobs' /\ i - d <= Len(jobs) - d
            /\ jobs'[i - d] = jobs[i]
         \/ i = 1 /\ d = 1 /\ Spent(jobs[i])
<1>1. CASE i = 1 /\ d = 1
  BY <1>1 DEF Queued
<1>2. CASE ~(i = 1 /\ d = 1)
  <2>1. i - d \in 1..(Len(jobs) - d) /\ (i - d) + d = i
    BY <1>2
  <2>2. i - d \in DOMAIN jobs' /\ jobs'[i - d] = jobs[(i - d) + d]
    BY <2>1 DEF Queued
  <2> QED
    BY <2>1, <2>2
<1> QED
  BY <1>1, <1>2

\* A connected controller stays current or on its way to be (acceptSnapshot).
LEMMA CurrentStep ==
  ASSUME TypeOK, TypeOK', RosterInv, RosterInv', CurrentInv, Step
  PROVE  CurrentInv'
<1> SUFFICES ASSUME NEW c \in Controllers, ~sessionClosed', connected'[c]
             PROVE  state'[c].snapshot = snapshot' \/ Waiting(c)' \/ Pending(c)'
  BY DEF CurrentInv
<1>1. /\ c \in Party /\ c \notin Listeners /\ ~sessionClosed
      /\ jobs \in Seq(Job) /\ jobs' \in Seq(Job) /\ snapshot \in Nat
      /\ c \in ToSet(subscribers') /\ ControllerStep
  BY ControllerAssumption DEF Party, TypeOK, Step, ControllerStep, RosterInv, Subscribed
<1>2. CASE Reached(c)
  BY <1>1, <1>2 DEF Reached
<1>3. CASE snapshot' = snapshot /\ c \in ToSet(subscribers) /\ (Pending(c) => Pending(c)')
  <2>1. connected[c] /\ lifecycleRevision'[c] = lifecycleRevision[c]
    BY <1>1, <1>3 DEF RosterInv, Subscribed, ControllerStep
  <2>2. state[c].snapshot \in Nat /\ state'[c].snapshot \in Nat
        /\ state[c].snapshot <= state'[c].snapshot /\ state'[c].snapshot <= snapshot
    <3>1. state[c].snapshot \in Nat /\ state'[c].snapshot \in Nat
      BY DEF TypeOK, State
    <3> QED
      BY <3>1, <1>1, <1>3 DEF ControllerStep
  <2>3. CASE Waiting(c)
    <3>1. PICK i \in DOMAIN jobs : /\ jobs[i].kind = "snapshot" /\ jobs[i].controller = c
                                   /\ jobs[i].revision = snapshot
                                   /\ jobs[i].acceptedAt = lifecycleRevision[c]
      BY <2>3 DEF Waiting
    <3>2. PICK d \in {0, 1} : Queued(d)
      BY DEF Step, JobStep
    <3>3. CASE i - d \in DOMAIN jobs' /\ jobs'[i - d] = jobs[i]
      BY <1>3, <2>1, <3>1, <3>3 DEF Waiting
    <3>4. CASE Spent(jobs[i])
      <4>1. state'[c].snapshot >= snapshot
        BY <3>1, <3>4 DEF Spent
      <4> QED
        BY <1>1, <1>3, <2>2, <4>1
    <3> QED
      BY <1>1, <3>2, <3>3, <3>4, JobMoves
  <2>4. CASE state[c].snapshot = snapshot
    BY <1>1, <1>3, <2>2, <2>4
  <2> QED
    BY <1>1, <1>3, <2>1, <2>3, <2>4 DEF CurrentInv
<1> QED
  BY <1>1, <1>2, <1>3 DEF Step, ToldStep

\* A snapshot at least as new as a result is shown already or comes before it.
LEMMA OvertakenStep ==
  ASSUME TypeOK, TypeOK', Step, NEW d \in {0, 1}, Queued(d), NEW c \in Controllers,
         lifecycleRevision'[c] = lifecycleRevision[c], NEW r \in Nat, NEW i \in Nat,
         \/ state[c].snapshot >= r
         \/ \E j \in Arrivals : /\ j - d < i /\ jobs[j].controller = c
                                /\ jobs[j].acceptedAt = lifecycleRevision[c]
                                /\ jobs[j].revision >= r
  PROVE  \/ state'[c].snapshot >= r
         \/ \E j \in Arrivals' : /\ j < i /\ jobs'[j].controller = c
                                 /\ jobs'[j].acceptedAt = lifecycleRevision'[c]
                                 /\ jobs'[j].revision >= r
<1>1. /\ state[c].snapshot \in Nat /\ state'[c].snapshot \in Nat
      /\ state[c].snapshot <= state'[c].snapshot /\ jobs \in Seq(Job)
  <2>1. state[c].snapshot \in Nat /\ state'[c].snapshot \in Nat
    BY DEF TypeOK, State
  <2> QED
    BY <2>1 DEF TypeOK, Step, ControllerStep
<1>2. CASE state[c].snapshot >= r
  BY <1>1, <1>2
<1>3. CASE \E j \in Arrivals : /\ j - d < i /\ jobs[j].controller = c
                               /\ jobs[j].acceptedAt = lifecycleRevision[c]
                               /\ jobs[j].revision >= r
  <2>1. PICK j \in Arrivals : /\ j - d < i /\ jobs[j].controller = c
                              /\ jobs[j].acceptedAt = lifecycleRevision[c]
                              /\ jobs[j].revision >= r
    BY <1>3
  <2>2. j \in DOMAIN jobs /\ jobs[j].kind = "snapshot" /\ jobs[j].revision \in Nat
    BY <1>1, JobTypes DEF Arrivals
  <2>3. CASE j - d \in DOMAIN jobs' /\ jobs'[j - d] = jobs[j]
    <3>1. j - d \in Arrivals'
      BY <2>2, <2>3 DEF Arrivals
    <3> QED
      BY <2>1, <2>3, <3>1
  <2>4. CASE Spent(jobs[j])
    BY <1>1, <2>1, <2>2, <2>4 DEF Spent
  <2> QED
    BY <1>1, <2>2, <2>3, <2>4, JobMoves
<1> QED
  BY <1>2, <1>3

\* No result overtakes the snapshot it stands for (action, acceptSnapshot).
LEMMA SettledStep ==
  ASSUME TypeOK, TypeOK', LifecycleInv, SettledInv, Step
  PROVE  SettledInv'
<1> SUFFICES ASSUME NEW i \in Attached', NEW c, c = jobs'[i].controller, ~sessionClosed',
                    jobs'[i].since = lifecycleRevision'[c]
             PROVE  \/ state'[c].snapshot >= jobs'[i].revision
                    \/ \E j \in Arrivals' : /\ j < i /\ jobs'[j].controller = c
                                            /\ jobs'[j].acceptedAt = lifecycleRevision'[c]
                                            /\ jobs'[j].revision >= jobs'[i].revision
  BY DEF SettledInv
<1>1. /\ jobs \in Seq(Job) /\ jobs' \in Seq(Job) /\ ControllerStep /\ ~sessionClosed
      /\ \A x \in Controllers : lifecycleRevision[x] \in Nat /\ lifecycleRevision'[x] \in Nat
  BY DEF TypeOK, Step, ControllerStep
<1>2. i \in DOMAIN jobs' /\ jobs'[i].kind = "settled" /\ jobs'[i].attached /\ i \in Nat
  BY <1>1 DEF Attached
<1>3. c \in Controllers /\ jobs'[i].since \in Nat /\ jobs'[i].revision \in Nat
  BY <1>1, <1>2, JobTypes
<1>4. PICK d \in {0, 1} : Queued(d)
  BY DEF Step, JobStep
<1>5. CASE i <= Len(jobs) - d
  <2>1. i + d \in DOMAIN jobs /\ i \in 1..(Len(jobs) - d)
    BY <1>1, <1>2, <1>5
  <2>2. i + d \in Attached /\ jobs'[i] = jobs[i + d]
    BY <1>2, <1>4, <2>1 DEF Queued, Attached
  <2>3. Since(c, jobs'[i].since)
    BY <2>2 DEF LifecycleInv
  <2>4. lifecycleRevision'[c] = lifecycleRevision[c]
    BY <1>1, <1>3, <2>3 DEF Since, ControllerStep
  <2>5. \/ state[c].snapshot >= jobs'[i].revision
        \/ \E j \in Arrivals : /\ j < i + d /\ jobs[j].controller = c
                               /\ jobs[j].acceptedAt = lifecycleRevision[c]
                               /\ jobs[j].revision >= jobs'[i].revision
    BY <1>1, <2>2, <2>4 DEF SettledInv
  <2>6. \A j \in Arrivals : j < i + d => j - d < i
    BY <1>1, <1>2 DEF Arrivals
  <2>7. \/ state[c].snapshot >= jobs'[i].revision
        \/ \E j \in Arrivals : /\ j - d < i /\ jobs[j].controller = c
                               /\ jobs[j].acceptedAt = lifecycleRevision[c]
                               /\ jobs[j].revision >= jobs'[i].revision
    BY <2>5, <2>6
  <2> QED
    BY <1>2, <1>3, <1>4, <2>4, <2>7, OvertakenStep
<1>6. CASE i > Len(jobs) - d
  <2>1. NewJob(jobs'[i])
    BY <1>2, <1>4, <1>6 DEF Queued
  <2>2. Since(c, jobs'[i].since)
    BY <1>2, <2>1 DEF NewJob
  <2>3. lifecycleRevision'[c] = lifecycleRevision[c]
    BY <1>1, <1>3, <2>2 DEF Since, ControllerStep
  <2>4. \/ state[c].snapshot >= jobs'[i].revision
        \/ \E j \in Arrivals : /\ jobs[j].controller = c
                               /\ jobs[j].acceptedAt = lifecycleRevision[c]
                               /\ jobs[j].revision >= jobs'[i].revision
    BY <1>1, <1>2, <2>1, <2>3 DEF NewJob
  <2>5. \A j \in Arrivals : j - d < i
    BY <1>1, <1>2, <1>6 DEF Arrivals
  <2>6. \/ state[c].snapshot >= jobs'[i].revision
        \/ \E j \in Arrivals : /\ j - d < i /\ jobs[j].controller = c
                               /\ jobs[j].acceptedAt = lifecycleRevision[c]
                               /\ jobs[j].revision >= jobs'[i].revision
    BY <2>4, <2>5
  <2> QED
    BY <1>2, <1>3, <1>4, <2>3, <2>6, OvertakenStep
<1> QED
  BY <1>1, <1>2, <1>5, <1>6

-----------------------------------------------------------------------------
\* The invariants of the session and its controllers.
CoreInv ==
  /\ TypeOK /\ RosterInv /\ BoundsInv /\ NestingInv /\ CreatedInv /\ LifecycleInv
  /\ HeardInv /\ CurrentInv /\ SettledInv

\* What every action does.
Sound == TypeOK' /\ RosterInv' /\ Step

\* A sound step keeps all the invariants.
LEMMA SoundStep ==
  ASSUME CoreInv, Sound
  PROVE  CoreInv'
BY BoundsStep, NestingStep, CreatedStep, LifecycleStep, HeardStep, CurrentStep, SettledStep
   DEF CoreInv, Sound

\* As long as its frames stay, a publication has the same listeners before it.
LEMMA PendingKept ==
  ASSUME snapshot' = snapshot, stack \in Seq(Frame),
         \A i \in DOMAIN stack : stack[i].kind = "publish" /\ stack[i].rest # <<>> =>
           \E k \in DOMAIN stack' : stack'[k] = stack[i]
  PROVE  \A x : Pending(x) => Pending(x)'
<1> SUFFICES ASSUME NEW x, Pending(x) PROVE Pending(x)'
  OBVIOUS
<1>1. PICK i \in Publications : stack[i].next = snapshot /\ x \in ToSet(stack[i].rest)
  BY DEF Pending
<1>2. i \in DOMAIN stack /\ stack[i].kind = "publish"
  BY DEF Publications
<1>3. stack[i].rest # <<>>
  BY <1>1 DEF ToSet
<1>4. PICK k \in DOMAIN stack' : stack'[k] = stack[i]
  BY <1>2, <1>3
<1>5. k \in Publications'
  BY <1>2, <1>4 DEF Publications
<1> QED
  BY <1>1, <1>4, <1>5 DEF Pending

\* Steps that publish nothing and call nobody.
LEMMA ToldQuietly ==
  ASSUME snapshot' = snapshot, heard' = heard, \A x : Pending(x) => Pending(x)',
         \A x \in Party : x \in ToSet(subscribers') => x \in ToSet(subscribers) \/ Reached(x)
  PROVE  ToldStep
BY DEF ToldStep

\* Steps that leave the controllers alone.
LEMMA SameControllers ==
  ASSUME CoreInv, UNCHANGED controllerVars, snapshot' \in {snapshot, snapshot + 1},
         sessionClosed => sessionClosed'
  PROVE  ControllerStep
<1>1. \A c \in Controllers : lifecycleRevision[c] \in Nat /\ state[c].snapshot \in Nat
                             /\ state[c].snapshot <= snapshot /\ snapshot \in Nat
  BY StateTypes DEF CoreInv, TypeOK, BoundsInv
<1> QED
  BY <1>1 DEF ControllerStep, controllerVars

\* Only the state of c changes.
LEMMA OneState ==
  ASSUME CoreInv, NEW c \in Controllers, NEW changed \in State, SetState(c, changed),
         UNCHANGED <<snapshot, sessionClosed, connected, lifecycleRevision>>,
         created \subseteq created',
         state[c].snapshot <= changed.snapshot, changed.snapshot <= snapshot
  PROVE  ControllerStep /\ state' \in [Controllers -> State] /\ state'[c] = changed
<1>1. \A d \in Controllers : lifecycleRevision[d] \in Nat /\ state[d].snapshot \in Nat
                             /\ state[d].snapshot <= snapshot /\ snapshot \in Nat
  BY StateTypes DEF CoreInv, TypeOK, BoundsInv
<1>2. state' = [state EXCEPT ![c] = changed] /\ state \in [Controllers -> State]
  BY DEF SetState, CoreInv, TypeOK
<1>3. state' \in [Controllers -> State] /\ state'[c] = changed
      /\ \A d \in Controllers : d # c => state'[d] = state[d]
  BY <1>2
<1>4. ASSUME NEW d \in Controllers
      PROVE  state[d].snapshot <= state'[d].snapshot /\ state'[d].snapshot <= snapshot
  BY <1>1, <1>3
<1> QED
  BY <1>1, <1>3, <1>4 DEF ControllerStep

\* The same sessions and listeners.
LEMMA SameRoster ==
  ASSUME RosterInv, UNCHANGED <<sessionClosed, subscribers, connected>>,
         created \subseteq created', \A c \in Controllers : connected[c] => closed'[c] = closed[c]
  PROVE  RosterInv'
BY DEF RosterInv, Subscribed

\* A status is not a snapshot.
LEMMA StatusChange ==
  ASSUME CoreInv, NEW c \in Controllers, NEW status \in Status, NEW failed \in BOOLEAN
  PROVE  LET changed == [state[c] EXCEPT !.status = status, !.failed = failed]
             marked  == [state[c] EXCEPT !.status = status]
         IN  /\ changed \in State /\ changed.snapshot = state[c].snapshot
             /\ marked \in State /\ marked.snapshot = state[c].snapshot
             /\ state[c].snapshot <= state[c].snapshot /\ state[c].snapshot <= snapshot
<1>1. state[c] \in State /\ state[c].snapshot \in Nat /\ state[c].snapshot <= snapshot
  BY StateTypes DEF CoreInv, BoundsInv
<1> DEFINE marked  == [state[c] EXCEPT !.status = status]
           changed == [marked EXCEPT !.failed = failed]
<1>2. marked \in State /\ marked.snapshot = state[c].snapshot
  BY <1>1 DEF State
<1>3. [state[c] EXCEPT !.status = status, !.failed = failed] = changed
  BY <1>1 DEF State
<1> HIDE DEF marked
<1>4. changed \in State /\ changed.snapshot = state[c].snapshot
  BY <1>2 DEF State
<1> QED
  BY <1>1, <1>2, <1>3, <1>4 DEF marked

-----------------------------------------------------------------------------
\* Stuttering, and what only the component or the bound on calls notices.
LEMMA QuietSound ==
  ASSUME CoreInv, UNCHANGED <<sessionVars, controllerVars, stack, jobs>>
  PROVE  Sound
<1> USE DEF sessionVars, controllerVars
<1>1. TypeOK'
  BY DEF CoreInv, TypeOK
<1>2. RosterInv'
  BY DEF CoreInv, RosterInv, Subscribed
<1>3. JobStep /\ StackStep
  BY JobsKept, StackKept DEF CoreInv, TypeOK
<1>4. ControllerStep
  BY SameControllers
<1>5. \A x : Pending(x) => Pending(x)'
  BY PendingKept DEF CoreInv, TypeOK
<1>6. ToldStep
  BY <1>5, ToldQuietly
<1> QED
  BY <1>1, <1>2, <1>3, <1>4, <1>6 DEF Sound, Step

\* createAdapterController.
LEMMA CreateSound ==
  ASSUME CoreInv, NEW c \in Controllers, Create(c)
  PROVE  Sound
<1> USE DEF Create
<1>1. /\ StateAt(snapshot) \in State /\ StateAt(snapshot).snapshot = snapshot
      /\ state[c].snapshot <= snapshot /\ snapshot <= snapshot
  BY DEF CoreInv, TypeOK, BoundsInv, StateAt, State, Status
<1>2. ControllerStep /\ state' \in [Controllers -> State]
  BY <1>1, OneState DEF sessionVars
<1>3. TypeOK'
  BY <1>2 DEF CoreInv, TypeOK, sessionVars
<1>4. RosterInv'
  BY SameRoster DEF CoreInv, sessionVars
<1>5. JobStep /\ StackStep
  BY JobsKept, StackKept DEF CoreInv, TypeOK
<1>6. \A x : Pending(x) => Pending(x)'
  BY PendingKept DEF CoreInv, TypeOK, sessionVars
<1>7. ToldStep
  BY <1>6, ToldQuietly DEF sessionVars
<1> QED
  BY <1>2, <1>3, <1>4, <1>5, <1>7 DEF Sound, Step

\* acceptSnapshot reaches the controller, now or by a job.
LEMMA AcceptFacts ==
  ASSUME CoreInv, NEW c \in created, AcceptSnapshot(c, snapshot), snapshot' = snapshot,
         lifecycleRevision'[c] = lifecycleRevision[c], connected'[c],
         state'[c].snapshot = state[c].snapshot
  PROVE  JobStep /\ (state'[c].snapshot = snapshot' \/ Waiting(c)')
<1>1. /\ c \in Controllers /\ jobs \in Seq(Job) /\ snapshot \in Nat
      /\ state[c].snapshot \in Nat /\ state[c].snapshot <= snapshot /\ lifecycleRevision[c] \in Nat
  BY StateTypes DEF CoreInv, TypeOK, BoundsInv
<1>2. CASE snapshot <= state[c].snapshot
  BY <1>1, <1>2, JobsKept DEF AcceptSnapshot
<1>3. CASE ~(snapshot <= state[c].snapshot)
  <2> DEFINE job == [kind |-> "snapshot", controller |-> c, revision |-> snapshot,
                     acceptedAt |-> lifecycleRevision[c]]
  <2>1. jobs' = Append(jobs, job)
    BY <1>3 DEF AcceptSnapshot
  <2>2. job \in Job /\ job.kind = "snapshot" /\ job.controller = c /\ job.revision = snapshot
        /\ job.acceptedAt = lifecycleRevision[c]
    BY <1>1 DEF Job, Arrival
  <2> HIDE DEF job
  <2>3. NewJob(job)
    BY <1>1, <2>2 DEF NewJob
  <2>4. JobStep /\ Len(jobs) + 1 \in DOMAIN jobs' /\ jobs'[Len(jobs) + 1] = job
    BY <1>1, <2>1, <2>2, <2>3, JobAppended
  <2>5. Waiting(c)'
    BY <2>2, <2>4 DEF Waiting
  <2> QED
    BY <2>4, <2>5
<1> QED
  BY <1>2, <1>3

\* connect.
LEMMA ConnectSound ==
  ASSUME CoreInv, NEW c \in Controllers, Connect(c)
  PROVE  Sound
<1> USE DEF Connect
<1>1. ControllerStep /\ state' \in [Controllers -> State] /\ state'[c].snapshot = state[c].snapshot
  <2> DEFINE changed == [state[c] EXCEPT !.status = "ready"]
  <2>1. changed \in State /\ changed.snapshot = state[c].snapshot
        /\ state[c].snapshot <= state[c].snapshot /\ state[c].snapshot <= snapshot
    BY StatusChange DEF Status
  <2>2. SetState(c, changed)
    OBVIOUS
  <2> HIDE DEF changed
  <2>3. state' = [state EXCEPT ![c] = changed] /\ state \in [Controllers -> State]
    BY <2>2 DEF SetState, CoreInv, TypeOK
  <2>4. state' \in [Controllers -> State] /\ state'[c] = changed
        /\ \A d \in Controllers : d # c => state'[d] = state[d]
    BY <2>1, <2>3
  <2>5. \A d \in Controllers : lifecycleRevision[d] \in Nat /\ state[d].snapshot \in Nat
                               /\ state[d].snapshot <= snapshot
    BY StateTypes DEF CoreInv, BoundsInv
  <2>6. \A d \in Controllers : state'[d].snapshot = state[d].snapshot
    BY <2>1, <2>4
  <2>7. connected \in [Controllers -> BOOLEAN] /\ snapshot \in Nat
    BY DEF CoreInv, TypeOK
  <2> QED
    BY <2>1, <2>4, <2>5, <2>6, <2>7 DEF ControllerStep
<1>2. /\ subscribers \in Seq(Party) /\ IsInjective(subscribers)
      /\ c \in Party /\ c \notin ToSet(subscribers)
  BY DEF CoreInv, TypeOK, RosterInv, Subscribed, Party
<1>3. subscribers' \in Seq(Party) /\ IsInjective(subscribers')
      /\ ToSet(subscribers') = ToSet(subscribers) \cup {c}
  BY <1>2, AppendParty
<1>4. connected' \in [Controllers -> BOOLEAN] /\ connected'[c]
      /\ \A d \in Controllers : d # c => connected'[d] = connected[d]
  BY DEF CoreInv, TypeOK
<1>5. JobStep /\ (state'[c].snapshot = snapshot' \/ Waiting(c)')
  BY <1>1, <1>4, AcceptFacts
<1>6. StackStep
  BY StackKept DEF CoreInv, TypeOK
<1>7. TypeOK'
  BY <1>1, <1>3, <1>4, <1>5 DEF CoreInv, TypeOK, JobStep, Party
<1>8. RosterInv'
  BY <1>3, <1>4 DEF CoreInv, RosterInv, Subscribed
<1>9. \A x : Pending(x) => Pending(x)'
  BY PendingKept DEF CoreInv, TypeOK
<1>10. Reached(c)
  BY <1>5 DEF Reached
<1>11. ToldStep
  BY <1>3, <1>9, <1>10, ToldQuietly
<1> QED
  BY <1>1, <1>5, <1>6, <1>7, <1>8, <1>11 DEF Sound, Step

\* Releasing c takes its listener out, and nobody else's.
LEMMA ReleaseFacts ==
  ASSUME CoreInv, NEW c \in Controllers, Release(c), UNCHANGED <<snapshot, sessionClosed, state>>,
         created \subseteq created'
  PROVE  /\ ControllerStep
         /\ lifecycleRevision' \in [Controllers -> Nat] /\ connected' \in [Controllers -> BOOLEAN]
         /\ \A d \in Controllers : connected'[d] <=> connected[d] /\ d # c
         /\ subscribers' \in Seq(Party) /\ IsInjective(subscribers')
         /\ ToSet(subscribers') = ToSet(subscribers) \ {c}
         /\ sessionClosed => subscribers' = <<>>
<1>1. /\ lifecycleRevision \in [Controllers -> Nat] /\ connected \in [Controllers -> BOOLEAN]
      /\ subscribers \in Seq(Party) /\ IsInjective(subscribers) /\ snapshot \in Nat
      /\ \A d \in Controllers : state[d].snapshot \in Nat /\ state[d].snapshot <= snapshot
  BY StateTypes DEF CoreInv, TypeOK, RosterInv, BoundsInv, Party
<1>2. /\ lifecycleRevision' \in [Controllers -> Nat]
      /\ lifecycleRevision'[c] = lifecycleRevision[c] + 1
      /\ \A d \in Controllers : d # c => lifecycleRevision'[d] = lifecycleRevision[d]
  BY <1>1 DEF Release
<1>3. connected' \in [Controllers -> BOOLEAN] /\ ~connected'[c]
      /\ \A d \in Controllers : d # c => connected'[d] = connected[d]
  BY <1>1 DEF Release
<1>4. ControllerStep
  BY <1>1, <1>2, <1>3 DEF ControllerStep
<1>5. /\ subscribers' \in Seq(Party) /\ IsInjective(subscribers')
      /\ ToSet(subscribers') = ToSet(subscribers) \ {c}
  <2>1. CASE connected[c]
    BY <1>1, <2>1, WithoutParty DEF Release
  <2>2. CASE ~connected[c]
    <3>1. c \notin ToSet(subscribers)
      BY <2>2 DEF CoreInv, RosterInv, Subscribed, ToSet
    <3> QED
      BY <1>1, <2>2, <3>1 DEF Release
  <2> QED
    BY <2>1, <2>2
<1>6. sessionClosed => subscribers' = <<>>
  <2> SUFFICES ASSUME sessionClosed PROVE subscribers' = <<>>
    OBVIOUS
  <2>1. subscribers = <<>> /\ c \notin ToSet(subscribers)
    BY DEF CoreInv, RosterInv, ToSet
  <2> QED
    BY <2>1 DEF Release, Without
<1> QED
  BY <1>2, <1>3, <1>4, <1>5, <1>6

\* dispose.
LEMMA DisposeSound ==
  ASSUME CoreInv, NEW c \in Controllers, Dispose(c)
  PROVE  Sound
<1> USE DEF Dispose
<1>1. /\ ControllerStep
      /\ lifecycleRevision' \in [Controllers -> Nat] /\ connected' \in [Controllers -> BOOLEAN]
      /\ \A d \in Controllers : connected'[d] <=> connected[d] /\ d # c
      /\ subscribers' \in Seq(Party) /\ IsInjective(subscribers')
      /\ ToSet(subscribers') = ToSet(subscribers) \ {c}
      /\ sessionClosed => subscribers' = <<>>
  BY ReleaseFacts
<1>2. TypeOK'
  BY <1>1 DEF CoreInv, TypeOK, Party
<1>3. RosterInv'
  BY <1>1 DEF CoreInv, RosterInv, Subscribed
<1>4. JobStep /\ StackStep
  BY JobsKept, StackKept DEF CoreInv, TypeOK
<1>5. \A x : Pending(x) => Pending(x)'
  BY PendingKept DEF CoreInv, TypeOK
<1>6. ToldStep
  BY <1>1, <1>5, ToldQuietly
<1> QED
  BY <1>1, <1>2, <1>3, <1>4, <1>6 DEF Sound, Step

\* close, up to its job.
LEMMA CloseSound ==
  ASSUME CoreInv, NEW c \in Controllers, Close(c)
  PROVE  Sound
<1> USE DEF Close
<1>1. /\ ControllerStep
      /\ lifecycleRevision' \in [Controllers -> Nat] /\ connected' \in [Controllers -> BOOLEAN]
      /\ \A d \in Controllers : connected'[d] <=> connected[d] /\ d # c
      /\ subscribers' \in Seq(Party) /\ IsInjective(subscribers')
      /\ ToSet(subscribers') = ToSet(subscribers) \ {c}
      /\ sessionClosed => subscribers' = <<>>
  BY ReleaseFacts
<1>2. closed' \in [Controllers -> BOOLEAN]
      /\ \A d \in Controllers : d # c => closed'[d] = closed[d]
  BY DEF CoreInv, TypeOK
<1>3. JobStep
  <2> DEFINE job == [kind |-> "close", controller |-> c]
  <2>1. job \in Job /\ job.kind = "close" /\ job.controller = c /\ jobs' = Append(jobs, job)
    BY DEF Job, Closing
  <2> HIDE DEF job
  <2>2. NewJob(job)
    BY <2>1 DEF NewJob
  <2> QED
    BY <2>1, <2>2, JobAppended DEF CoreInv, TypeOK
<1>4. TypeOK'
  BY <1>1, <1>2, <1>3 DEF CoreInv, TypeOK, Party, JobStep
<1>5. RosterInv'
  BY <1>1, <1>2 DEF CoreInv, RosterInv, Subscribed
<1>6. StackStep
  BY StackKept DEF CoreInv, TypeOK
<1>7. \A x : Pending(x) => Pending(x)'
  BY PendingKept DEF CoreInv, TypeOK
<1>8. ToldStep
  BY <1>1, <1>7, ToldQuietly
<1> QED
  BY <1>1, <1>3, <1>4, <1>5, <1>6, <1>8 DEF Sound, Step

\* action, up to the session's call.
LEMMA BeginSound ==
  ASSUME CoreInv, NEW c \in Controllers, Begin(c)
  PROVE  Sound
<1> USE DEF Begin
<1>1. ControllerStep /\ state' \in [Controllers -> State]
  <2> DEFINE changed == [state[c] EXCEPT !.status = "submitting", !.failed = FALSE]
  <2>1. changed \in State /\ changed.snapshot = state[c].snapshot
        /\ state[c].snapshot <= state[c].snapshot /\ state[c].snapshot <= snapshot
    BY StatusChange DEF Status
  <2>2. SetState(c, changed)
    OBVIOUS
  <2> HIDE DEF changed
  <2> QED
    BY <2>1, <2>2, OneState DEF sessionVars
<1> DEFINE frame == [kind |-> "begin", controller |-> c, inCallback |-> TRUE]
<1>2. frame \in Frame /\ frame.kind = "begin" /\ frame.controller = c /\ stack' = <<frame>> \o stack
  BY DEF Frame
<1> HIDE DEF frame
<1>3. NewFrame(frame)
  BY <1>2 DEF NewFrame
<1>4. /\ StackStep
      /\ \A i \in DOMAIN stack : i + 1 \in DOMAIN stack' /\ stack'[i + 1] = stack[i]
  BY <1>2, <1>3, StackPushed DEF CoreInv, TypeOK
<1>5. JobStep
  BY JobsKept DEF CoreInv, TypeOK
<1>6. TypeOK'
  BY <1>1, <1>4 DEF CoreInv, TypeOK, StackStep, sessionVars
<1>7. RosterInv'
  BY SameRoster DEF CoreInv, sessionVars
<1>8. \A x : Pending(x) => Pending(x)'
  BY <1>4, PendingKept DEF CoreInv, TypeOK, sessionVars
<1>9. ToldStep
  BY <1>8, ToldQuietly DEF sessionVars
<1> QED
  BY <1>1, <1>4, <1>5, <1>6, <1>7, <1>9 DEF Sound, Step

-----------------------------------------------------------------------------
\* subscribe of the local session.
LEMMA SubscribeSound ==
  ASSUME CoreInv, NEW l \in Listeners, Subscribe(l)
  PROVE  Sound
<1> USE DEF Subscribe, controllerVars
<1>1. l \notin ToSet(subscribers) /\ subscribers \in Seq(Party) /\ IsInjective(subscribers)
      /\ l \in Party /\ l \notin Controllers
  BY ControllerAssumption DEF CoreInv, TypeOK, RosterInv, Subscribed, Party
<1>2. subscribers' \in Seq(Party) /\ IsInjective(subscribers')
      /\ ToSet(subscribers') = ToSet(subscribers) \cup {l}
  BY <1>1, AppendParty
<1>3. heard' \in [Listeners -> Nat] /\ heard'[l] = snapshot
      /\ \A x \in Listeners : x # l => heard'[x] = heard[x]
  BY DEF CoreInv, TypeOK
<1>4. TypeOK'
  BY <1>2, <1>3 DEF CoreInv, TypeOK, Party
<1>5. RosterInv'
  BY <1>1, <1>2 DEF CoreInv, RosterInv, Subscribed
<1>6. JobStep /\ StackStep
  BY JobsKept, StackKept DEF CoreInv, TypeOK
<1>7. ControllerStep
  BY SameControllers
<1>8. \A x : Pending(x) => Pending(x)'
  BY PendingKept DEF CoreInv, TypeOK
<1>9. Reached(l)
  BY <1>3 DEF Reached
<1>10. ToldStep
  BY <1>2, <1>3, <1>8, <1>9 DEF ToldStep
<1> QED
  BY <1>4, <1>5, <1>6, <1>7, <1>10 DEF Sound, Step

\* The function that subscribe returned.
LEMMA UnsubscribeSound ==
  ASSUME CoreInv, NEW l \in Listeners, Unsubscribe(l)
  PROVE  Sound
<1> USE DEF Unsubscribe, controllerVars
<1>1. subscribers \in Seq(Party) /\ IsInjective(subscribers) /\ l \notin Controllers
  BY ControllerAssumption DEF CoreInv, TypeOK, RosterInv, Party
<1>2. subscribers' \in Seq(Party) /\ IsInjective(subscribers')
      /\ ToSet(subscribers') = ToSet(subscribers) \ {l}
  BY <1>1, WithoutParty
<1>3. ~sessionClosed
  BY DEF CoreInv, RosterInv, Subscribed, ToSet
<1>4. TypeOK'
  BY <1>2 DEF CoreInv, TypeOK, Party
<1>5. RosterInv'
  BY <1>1, <1>2, <1>3 DEF CoreInv, RosterInv, Subscribed
<1>6. JobStep /\ StackStep
  BY JobsKept, StackKept DEF CoreInv, TypeOK
<1>7. ControllerStep
  BY SameControllers
<1>8. \A x : Pending(x) => Pending(x)'
  BY PendingKept DEF CoreInv, TypeOK
<1>9. ToldStep
  BY <1>2, <1>8, ToldQuietly
<1> QED
  BY <1>4, <1>5, <1>6, <1>7, <1>9 DEF Sound, Step

\* What closing the session means to its listeners.
LEMMA CloseSessionFacts ==
  ASSUME CoreInv, CloseSession, UNCHANGED <<controllerVars, stack>>, JobStep
  PROVE  Sound
<1> USE DEF CloseSession, controllerVars
<1>1. subscribers' \in Seq(Party) /\ IsInjective(subscribers') /\ ToSet(subscribers') = {}
  BY DEF IsInjective, ToSet
<1>2. TypeOK'
  BY <1>1 DEF CoreInv, TypeOK, Party, JobStep
<1>3. RosterInv'
  BY <1>1 DEF CoreInv, RosterInv
<1>4. StackStep
  BY StackKept DEF CoreInv, TypeOK
<1>5. ControllerStep
  BY SameControllers
<1>6. \A x : Pending(x) => Pending(x)'
  BY PendingKept DEF CoreInv, TypeOK
<1>7. ToldStep
  BY <1>1, <1>6, ToldQuietly
<1> QED
  BY <1>2, <1>3, <1>4, <1>5, <1>7 DEF Sound, Step

\* close of the local session.
LEMMA SessionCloseSound ==
  ASSUME CoreInv, SessionClose
  PROVE  Sound
<1>1. JobStep
  BY JobsKept DEF SessionClose, CoreInv, TypeOK
<1> QED
  BY <1>1, CloseSessionFacts DEF SessionClose

-----------------------------------------------------------------------------
\* A settled job of c that carries no promise about its snapshot, or none.
LEMMA UnattachedJob ==
  ASSUME CoreInv, NEW c \in created \cup {None}, NEW ok \in BOOLEAN, NEW r \in Nat,
         jobs' = IF c = None THEN jobs
                 ELSE Append(jobs, [kind |-> "settled", controller |-> c, ok |-> ok, revision |-> r,
                                    attached |-> FALSE, since |-> 0])
  PROVE  JobStep
<1>1. jobs \in Seq(Job) /\ created \subseteq Controllers
  BY DEF CoreInv, TypeOK
<1>2. CASE c = None
  BY <1>1, <1>2, JobsKept
<1>3. CASE c # None
  <2> DEFINE job == [kind |-> "settled", controller |-> c, ok |-> ok, revision |-> r,
                     attached |-> FALSE, since |-> 0]
  <2>1. job \in Job /\ job.kind = "settled" /\ job.controller \in created /\ job.attached = FALSE
    BY <1>1, <1>3 DEF Job, Settlement
  <2>2. jobs' = Append(jobs, job)
    BY <1>3
  <2> HIDE DEF job
  <2>3. NewJob(job)
    BY <2>1 DEF NewJob
  <2> QED
    BY <1>1, <2>1, <2>2, <2>3, JobAppended
<1> QED
  BY <1>2, <1>3

\* submit and reset of the local session.
LEMMA MutateFacts ==
  ASSUME CoreInv, UNCHANGED controllerVars, NEW c \in created \cup {None}, NEW below,
         \/ below = stack
         \/ stack # <<>> /\ Head(stack).kind = "begin" /\ below = Tail(stack),
         SessionMutate(c, below)
  PROVE  Sound
<1> USE DEF sessionVars, controllerVars
<1>1. /\ stack \in Seq(Frame) /\ jobs \in Seq(Job) /\ snapshot \in Nat /\ created \subseteq Controllers
      /\ subscribers \in Seq(Party) /\ connected \in [Controllers -> BOOLEAN]
      /\ lifecycleRevision \in [Controllers -> Nat]
  BY DEF CoreInv, TypeOK, Party
<1>2. CASE stack' = below /\ UNCHANGED sessionVars /\ JobStep
  <2>1. StackStep /\ \A i \in DOMAIN stack :
                       stack[i].kind = "publish" => \E k \in DOMAIN stack' : stack'[k] = stack[i]
    <3>1. CASE below = stack
      BY <1>1, <1>2, <3>1, StackKept
    <3>2. CASE stack # <<>> /\ Head(stack).kind = "begin" /\ below = Tail(stack)
      <4>1. /\ StackStep
            /\ \A i \in DOMAIN stack : i # 1 => i - 1 \in DOMAIN stack' /\ stack'[i - 1] = stack[i]
        BY <1>1, <1>2, <3>2, StackPopped
      <4>2. stack[1].kind = "begin"
        BY <1>1, <3>2
      <4> QED
        BY <4>1, <4>2
    <3> QED
      BY <3>1, <3>2
  <2>2. TypeOK'
    BY <1>2, <2>1 DEF CoreInv, TypeOK, StackStep, JobStep
  <2>3. RosterInv'
    BY <1>2, SameRoster DEF CoreInv
  <2>4. ControllerStep
    BY <1>2, SameControllers
  <2>5. \A x : Pending(x) => Pending(x)'
    BY <1>1, <1>2, <2>1, PendingKept
  <2>6. ToldStep
    BY <1>2, <2>5, ToldQuietly
  <2> QED
    BY <1>2, <2>1, <2>2, <2>3, <2>4, <2>6 DEF Sound, Step
<1>3. CASE /\ sessionClosed
           /\ stack' = below
           /\ jobs' = IF c = None THEN jobs ELSE Append(jobs, Rejected(c))
           /\ UNCHANGED sessionVars
  <2>1. JobStep
    BY <1>3, UnattachedJob DEF Rejected
  <2> QED
    BY <1>2, <1>3, <2>1
<1>4. CASE /\ ~sessionClosed
           /\ stack' = below
           /\ jobs' = IF c = None THEN jobs ELSE Append(jobs, Resolved(c, FALSE, 0))
           /\ UNCHANGED sessionVars
  <2>1. JobStep
    BY <1>1, <1>4, UnattachedJob DEF Resolved
  <2> QED
    BY <1>2, <1>4, <2>1
<1>5. CASE /\ ~sessionClosed
           /\ snapshot' = snapshot + 1
           /\ stack' = <<Publishing(c)>> \o below
           /\ UNCHANGED <<sessionClosed, subscribers, heard, jobs>>
  <2> DEFINE frame == Publishing(c)
  <2>1. /\ frame.kind = "publish" /\ frame.controller = c /\ frame.next = snapshot + 1
        /\ frame.rest = subscribers /\ frame.attached = (c # None /\ connected[c])
        /\ frame.since = IF c = None THEN 0 ELSE lifecycleRevision[c]
    BY DEF Publishing
  <2>2. frame \in Frame
    <3>1. (c # None /\ connected[c]) \in BOOLEAN
      OBVIOUS
    <3>2. (IF c = None THEN 0 ELSE lifecycleRevision[c]) \in Nat
      BY <1>1
    <3> DEFINE attached == c # None /\ connected[c]
               since == IF c = None THEN 0 ELSE lifecycleRevision[c]
    <3>3. frame = [kind |-> "publish", controller |-> c, next |-> snapshot + 1, rest |-> subscribers,
                   inCallback |-> FALSE, attached |-> attached, since |-> since]
      BY DEF Publishing
    <3>4. attached \in BOOLEAN /\ since \in Nat /\ c \in Controllers \cup {None}
      BY <1>1, <3>1, <3>2
    <3> HIDE DEF frame, attached, since
    <3>5. frame \in Publication
      BY <1>1, <3>3, <3>4 DEF Publication, Party
    <3> QED
      BY <3>5 DEF Frame
  <2> HIDE DEF frame
  <2>3. NewFrame(frame)
    BY <1>5, <2>1 DEF NewFrame
  <2>4. StackStep /\ 1 \in DOMAIN stack' /\ stack'[1] = frame
    <3>1. CASE below = stack
      <4>1. stack' = <<frame>> \o stack
        BY <1>5, <3>1 DEF frame
      <4> QED
        BY <1>1, <2>2, <2>3, <4>1, StackPushed
    <3>2. CASE stack # <<>> /\ Head(stack).kind = "begin" /\ below = Tail(stack)
      <4>1. stack' = <<frame>> \o Tail(stack)
        BY <1>5, <3>2 DEF frame
      <4> QED
        BY <1>1, <2>2, <2>3, <3>2, <4>1, StackReplaced
    <3> QED
      BY <3>1, <3>2
  <2>5. JobStep
    BY <1>1, <1>5, JobsKept
  <2>6. TypeOK'
    BY <1>1, <1>5, <2>4 DEF CoreInv, TypeOK, StackStep
  <2>7. RosterInv'
    BY <1>5, SameRoster DEF CoreInv
  <2>8. ControllerStep
    BY <1>5, SameControllers
  <2>9. ASSUME NEW x \in Party, x \in ToSet(subscribers')
        PROVE  Reached(x)
    <3>1. 1 \in Publications' /\ stack'[1].next = snapshot' /\ x \in ToSet(stack'[1].rest)
      BY <1>5, <2>1, <2>4, <2>9 DEF Publications
    <3> QED
      BY <3>1 DEF Reached, Pending
  <2>10. ToldStep
    BY <1>1, <1>5, <2>9 DEF ToldStep
  <2> QED
    BY <2>4, <2>5, <2>6, <2>7, <2>8, <2>10 DEF Sound, Step
<1> QED
  BY <1>3, <1>4, <1>5 DEF SessionMutate

\* The application's own submit and reset.
LEMMA MutateSound ==
  ASSUME CoreInv, Mutate
  PROVE  Sound
BY MutateFacts DEF Mutate

\* A controller's submit and reset, after its listeners were called.
LEMMA RunSound ==
  ASSUME CoreInv, Run
  PROVE  Sound
<1>1. /\ stack # <<>> /\ Head(stack).kind = "begin"
      /\ SessionMutate(Head(stack).controller, Tail(stack)) /\ UNCHANGED controllerVars
  BY DEF Run
<1>2. Head(stack).controller \in created \cup {None}
  BY <1>1 DEF CoreInv, TypeOK, CreatedInv
<1> QED
  BY <1>1, <1>2, MutateFacts

-----------------------------------------------------------------------------
\* The rest of a publication: one more listener is passed.
LEMMA Passed ==
  ASSUME CoreInv, stack # <<>>, Head(stack).kind = "publish", Head(stack).rest # <<>>,
         NEW inCallback \in BOOLEAN, snapshot' = snapshot,
         stack' = [stack EXCEPT ![1].rest = Tail(@), ![1].inCallback = inCallback]
  PROVE  /\ StackStep
         /\ \A x : Pending(x) => Pending(x)' \/ x = Head(Head(stack).rest)
<1>1. stack \in Seq(Frame)
  BY DEF CoreInv, TypeOK
<1>2. /\ StackStep /\ DOMAIN stack' = DOMAIN stack /\ 1 \in DOMAIN stack /\ Head(stack) = stack[1]
      /\ stack'[1].kind = "publish" /\ stack'[1].next = stack[1].next
      /\ stack'[1].rest = Tail(stack[1].rest)
      /\ \A i \in DOMAIN stack : i # 1 => stack'[i] = stack[i]
  BY <1>1, StackAdvanced
<1>3. stack[1].rest \in Seq(Party)
  BY <1>1, <1>2, FrameTypes
<1>4. ASSUME NEW x, Pending(x), x # Head(Head(stack).rest) PROVE Pending(x)'
  <2>1. PICK i \in Publications : stack[i].next = snapshot /\ x \in ToSet(stack[i].rest)
    BY <1>4 DEF Pending
  <2>2. i \in Publications'
    BY <1>2 DEF Publications
  <2>3. x \in ToSet(stack'[i].rest)
    <3>1. CASE i # 1
      BY <1>2, <2>1, <3>1 DEF Publications
    <3>2. CASE i = 1
      <4> DEFINE old == stack[1].rest
      <4>1. PICK k \in DOMAIN old : old[k] = x
        BY <2>1, <3>2 DEF ToSet
      <4>2. old \in Seq(Party) /\ x # Head(old) /\ stack'[i].rest = Tail(old)
        BY <1>2, <1>3, <1>4, <3>2
      <4> HIDE DEF old
      <4>3. k - 1 \in DOMAIN Tail(old) /\ Tail(old)[k - 1] = x
        BY <4>1, <4>2
      <4> QED
        BY <4>2, <4>3 DEF ToSet
    <3> QED
      BY <3>1, <3>2
  <2>4. stack'[i].next = snapshot'
    BY <1>2, <2>1 DEF Publications
  <2> QED
    BY <2>2, <2>3, <2>4 DEF Pending
<1> QED
  BY <1>2, <1>4

\* One round of publish's loop.
LEMMA NotifySound ==
  ASSUME CoreInv, NotifyNext
  PROVE  Sound
<1> PICK next : next = Head(Head(stack).rest)
  OBVIOUS
<1> DEFINE Returning(inCallback) ==
             stack' = [stack EXCEPT ![1].rest = Tail(@), ![1].inCallback = inCallback]
<1>1. /\ stack # <<>> /\ Head(stack).kind = "publish" /\ Head(stack).rest # <<>>
      /\ UNCHANGED controllerVars
  BY DEF NotifyNext
<1>2. /\ jobs \in Seq(Job) /\ created \subseteq Controllers /\ subscribers \in Seq(Party)
      /\ IsInjective(subscribers)
  BY DEF CoreInv, TypeOK, RosterInv, Party
<1>3. CASE /\ sessionClosed \/ ~Subscribed(next)
           /\ Returning(FALSE)
           /\ UNCHANGED <<sessionVars, jobs>>
  <2> USE DEF sessionVars
  <2>1. StackStep /\ \A x : Pending(x) => Pending(x)' \/ x = next
    BY <1>1, <1>3, Passed
  <2>2. next \notin ToSet(subscribers)
    BY <1>3 DEF CoreInv, RosterInv, Subscribed, ToSet
  <2>3. JobStep /\ ControllerStep
    BY <1>1, <1>2, <1>3, JobsKept, SameControllers
  <2>4. TypeOK'
    BY <1>1, <1>3, <2>1 DEF CoreInv, TypeOK, StackStep, controllerVars
  <2>5. RosterInv'
    BY <1>1, <1>3, SameRoster DEF CoreInv, controllerVars
  <2>6. ToldStep
    BY <1>3, <2>1, <2>2 DEF ToldStep
  <2> QED
    BY <2>1, <2>3, <2>4, <2>5, <2>6 DEF Sound, Step
<1>4. CASE /\ ~sessionClosed /\ Subscribed(next) /\ next \in Controllers
           /\ AcceptSnapshot(next, snapshot)
           /\ Returning(FALSE)
           /\ UNCHANGED sessionVars
  <2> USE DEF sessionVars
  <2>1. StackStep /\ \A x : Pending(x) => Pending(x)' \/ x = next
    BY <1>1, <1>4, Passed
  <2>2. connected[next] /\ next \in created
    BY <1>4 DEF CoreInv, RosterInv, Subscribed
  <2>3. JobStep /\ (state'[next].snapshot = snapshot' \/ Waiting(next)')
    <3>1. /\ connected'[next] /\ lifecycleRevision'[next] = lifecycleRevision[next]
          /\ state'[next].snapshot = state[next].snapshot /\ snapshot' = snapshot
      BY <1>1, <1>4, <2>2 DEF controllerVars
    <3>2. next \in created /\ AcceptSnapshot(next, snapshot)
      BY <1>4, <2>2
    <3> QED
      BY <3>1, <3>2, AcceptFacts
  <2>4. Reached(next) /\ ControllerStep
    BY <1>1, <1>4, <2>3, SameControllers DEF Reached
  <2>5. TypeOK'
    BY <1>1, <1>4, <2>1, <2>3 DEF CoreInv, TypeOK, StackStep, JobStep, controllerVars
  <2>6. RosterInv'
    BY <1>1, <1>4, SameRoster DEF CoreInv, controllerVars
  <2>7. ToldStep
    BY <1>4, <2>1, <2>4 DEF ToldStep
  <2> QED
    BY <2>1, <2>3, <2>4, <2>5, <2>6, <2>7 DEF Sound, Step
<1>5. CASE /\ ~sessionClosed /\ Subscribed(next) /\ next \in Listeners
           /\ heard' = [heard EXCEPT ![next] = snapshot]
           /\ \/ subscribers' = subscribers /\ Returning(TRUE)
              \/ subscribers' = Without(subscribers, next) /\ Returning(FALSE)
           /\ UNCHANGED <<snapshot, sessionClosed, jobs>>
  <2>1. StackStep /\ \A x : Pending(x) => Pending(x)' \/ x = next
    BY <1>1, <1>5, Passed
  <2>2. /\ heard' \in [Listeners -> Nat] /\ heard'[next] = snapshot
        /\ \A x \in Listeners : x # next => heard'[x] = heard[x]
    BY <1>5 DEF CoreInv, TypeOK
  <2>3. /\ subscribers' \in Seq(Party) /\ IsInjective(subscribers')
        /\ \A x : x # next => (x \in ToSet(subscribers') <=> x \in ToSet(subscribers))
    BY <1>2, <1>5, WithoutParty
  <2>4. JobStep /\ ControllerStep
    BY <1>1, <1>2, <1>5, JobsKept, SameControllers
  <2>5. TypeOK'
    BY <1>1, <1>5, <2>1, <2>2, <2>3 DEF CoreInv, TypeOK, StackStep, controllerVars, Party
  <2>6. next \notin Controllers
    BY <1>5, ControllerAssumption
  <2>7. RosterInv'
    <3>1. \A c \in Controllers : c \in ToSet(subscribers') <=> c \in ToSet(subscribers)
      BY <2>3, <2>6
    <3> QED
      BY <1>1, <1>5, <2>3, <3>1 DEF CoreInv, RosterInv, Subscribed, controllerVars
  <2>8. Reached(next)
    BY <1>5, <2>2 DEF Reached
  <2>9. \A x \in Party : x \in ToSet(subscribers') =>
          \/ Reached(x)
          \/ x \in ToSet(subscribers) /\ (Pending(x) => Pending(x)')
    BY <2>1, <2>3, <2>8
  <2>10. ToldStep
    BY <1>5, <2>2, <2>9 DEF ToldStep
  <2> QED
    BY <2>1, <2>4, <2>5, <2>7, <2>10 DEF Sound, Step
<1> QED
  BY <1>3, <1>4, <1>5 DEF NotifyNext, Delivered

\* publish returns: every listener was passed, so that the controller has the
\* snapshot or a job for it, which its result joins behind.
LEMMA ReturnsSound ==
  ASSUME CoreInv, PublishReturns
  PROVE  Sound
<1> USE DEF sessionVars, controllerVars
<1>1. /\ jobs \in Seq(Job) /\ created \subseteq Controllers /\ stack \in Seq(Frame) /\ snapshot \in Nat
      /\ stack # <<>> /\ 1 \in DOMAIN stack /\ Head(stack) = stack[1]
      /\ stack[1].kind = "publish" /\ stack[1].rest = <<>>
      /\ stack' = Tail(stack) /\ UNCHANGED <<sessionVars, controllerVars>>
  BY DEF CoreInv, TypeOK, PublishReturns
<1> PICK c, since, attached :
      c = stack[1].controller /\ since = stack[1].since /\ attached = stack[1].attached
  OBVIOUS
<1>2. 1 \in Publications /\ c \in created \cup {None} /\ attached \in BOOLEAN /\ since \in Nat
  BY <1>1, FrameTypes DEF Publications, CoreInv, CreatedInv
<1>3. JobStep
  <2>1. CASE c = None
    BY <1>1, <2>1, JobsKept DEF PublishReturns
  <2>2. CASE c # None
    <3> DEFINE job == Resolved(c, attached, since)
    <3>1. job \in Job /\ job.kind = "settled" /\ job.controller = c /\ job.attached = attached
          /\ job.since = since /\ job.revision = snapshot
      BY <1>1, <1>2, <2>2 DEF Resolved, Job, Settlement
    <3>2. jobs' = Append(jobs, job)
      BY <1>1, <2>2 DEF PublishReturns
    <3> HIDE DEF job
    <3>3. attached => Since(c, since)
      BY <1>2 DEF CoreInv, LifecycleInv
    <3>4. ASSUME attached, ~sessionClosed, since = lifecycleRevision[c]
          PROVE  state[c].snapshot = snapshot \/ Waiting(c)
      <4>1. connected[c] /\ c \in Controllers
        BY <1>1, <1>2, <2>2, <3>3, <3>4 DEF Since
      <4>2. ASSUME Pending(c) PROVE FALSE
        <5>1. PICK i \in Publications : stack[i].next = snapshot /\ c \in ToSet(stack[i].rest)
          BY <4>2 DEF Pending
        <5>2. i # 1
          BY <1>1, <5>1 DEF ToSet
        <5>3. i > 1 /\ i \in DOMAIN stack
          BY <1>1, <5>2 DEF Publications
        <5>4. stack[1].next > snapshot
          BY <1>2, <5>1, <5>3 DEF CoreInv, NestingInv
        <5>5. stack[1].next <= snapshot /\ stack[1].next \in Nat
          BY <1>1, <1>2, FrameTypes DEF CoreInv, BoundsInv
        <5> QED
          BY <1>1, <5>4, <5>5
      <4> QED
        BY <3>4, <4>1, <4>2 DEF CoreInv, CurrentInv
    <3>5. ASSUME attached, ~sessionClosed, since = lifecycleRevision[c]
          PROVE  \/ state[c].snapshot >= snapshot
                 \/ \E j \in Arrivals : /\ jobs[j].controller = c
                                        /\ jobs[j].acceptedAt = lifecycleRevision[c]
                                        /\ jobs[j].revision >= snapshot
      <4>1. CASE state[c].snapshot = snapshot
        BY <1>1, <4>1
      <4>2. CASE Waiting(c)
        BY <1>1, <4>2 DEF Waiting, Arrivals
      <4> QED
        BY <3>4, <3>5, <4>1, <4>2
    <3>6. NewJob(job)
      BY <1>2, <2>2, <3>1, <3>3, <3>5 DEF NewJob
    <3> QED
      BY <1>1, <3>1, <3>2, <3>6, JobAppended
  <2> QED
    BY <2>1, <2>2
<1>4. StackStep /\ \A i \in DOMAIN stack : i # 1 => i - 1 \in DOMAIN stack' /\ stack'[i - 1] = stack[i]
  BY <1>1, StackPopped
<1>5. TypeOK'
  BY <1>1, <1>3, <1>4 DEF CoreInv, TypeOK, StackStep, JobStep
<1>6. RosterInv'
  BY <1>1, SameRoster DEF CoreInv
<1>7. ControllerStep
  BY <1>1, SameControllers
<1>8. \A x : Pending(x) => Pending(x)'
  BY <1>1, <1>4, PendingKept
<1>9. ToldStep
  BY <1>1, <1>8, ToldQuietly
<1> QED
  BY <1>3, <1>4, <1>5, <1>6, <1>7, <1>9 DEF Sound, Step

-----------------------------------------------------------------------------
\* A job changes the state of one controller at most.
LEMMA SettleSound ==
  ASSUME CoreInv, jobs # <<>>, Spent(Head(jobs)), jobs' = Tail(jobs),
         UNCHANGED <<sessionVars, created, connected, closed, lifecycleRevision, stack>>,
         ControllerStep, state' \in [Controllers -> State]
  PROVE  Sound
<1> USE DEF sessionVars
<1>1. JobStep /\ StackStep
  BY JobTaken, StackKept DEF CoreInv, TypeOK
<1>2. TypeOK'
  BY <1>1 DEF CoreInv, TypeOK, JobStep
<1>3. RosterInv'
  BY SameRoster DEF CoreInv
<1>4. \A x : Pending(x) => Pending(x)'
  BY PendingKept DEF CoreInv, TypeOK
<1>5. ToldStep
  BY <1>4, ToldQuietly
<1> QED
  BY <1>1, <1>2, <1>3, <1>5 DEF Sound, Step

\* A job that is not a snapshot leaves the snapshots as they are.
LEMMA MarkSound ==
  ASSUME CoreInv, jobs # <<>>, Head(jobs).kind # "snapshot", jobs' = Tail(jobs),
         UNCHANGED <<sessionVars, created, connected, closed, lifecycleRevision, stack>>,
         NEW c \in Controllers, NEW changed \in State, changed.snapshot = state[c].snapshot,
         SetState(c, changed) \/ UNCHANGED state
  PROVE  Sound
<1>1. Spent(Head(jobs))
  BY DEF Spent
<1>2. ControllerStep /\ state' \in [Controllers -> State]
  <2>1. CASE UNCHANGED state
    BY <2>1, SameControllers DEF CoreInv, TypeOK, controllerVars, sessionVars
  <2>2. CASE SetState(c, changed)
    <3>1. state[c].snapshot <= changed.snapshot /\ changed.snapshot <= snapshot
      BY StateTypes DEF CoreInv, BoundsInv
    <3> QED
      BY <2>2, <3>1, OneState DEF sessionVars
  <2> QED
    BY <2>1, <2>2
<1> QED
  BY <1>1, <1>2, SettleSound

\* The first job of the queue.
LEMMA RunJobSound ==
  ASSUME CoreInv, RunJob
  PROVE  Sound
<1>1. /\ jobs \in Seq(Job) /\ jobs # <<>> /\ 1 \in DOMAIN jobs /\ Head(jobs) = jobs[1]
      /\ created \subseteq Controllers
  BY DEF CoreInv, TypeOK, RunJob
<1> PICK job : job = jobs[1]
  OBVIOUS
<1>2. job \in Job /\ job.controller \in Controllers /\ job.controller \in created
  BY <1>1, JobTypes DEF CoreInv, CreatedInv
<1>3. CASE job.kind = "snapshot" /\ ApplySnapshot(job)
  <2> PICK c : c = job.controller
    OBVIOUS
  <2>1. /\ c \in Controllers /\ job.revision \in Nat /\ job.revision <= snapshot
        /\ Since(c, job.acceptedAt)
    BY <1>1, <1>2, <1>3, JobTypes DEF CoreInv, BoundsInv, LifecycleInv, Arrivals
  <2>2. state[c] \in State /\ state[c].snapshot \in Nat /\ state[c].snapshot <= snapshot
    BY <2>1, StateTypes DEF CoreInv, BoundsInv
  <2>3. /\ jobs' = Tail(jobs)
        /\ UNCHANGED <<sessionVars, created, connected, closed, lifecycleRevision, stack>>
    BY <1>3 DEF ApplySnapshot
  <2> DEFINE newer   == [state[c] EXCEPT !.snapshot = job.revision]
             changed == [newer EXCEPT !.status = "ready"]
  <2>4. newer \in State /\ newer.snapshot = job.revision
    BY <2>1, <2>2 DEF State
  <2>5. [state[c] EXCEPT !.snapshot = job.revision, !.status = "ready"] = changed
    BY <2>2 DEF State
  <2> HIDE DEF newer
  <2>6. changed \in State /\ changed.snapshot = job.revision
    BY <2>4 DEF State, Status
  <2> HIDE DEF changed
  <2>7. CASE StillAccepted(job)
    <3>1. SetState(c, changed)
      BY <1>3, <2>5, <2>7 DEF ApplySnapshot
    <3>2. state[c].snapshot <= changed.snapshot /\ changed.snapshot <= snapshot
      BY <2>1, <2>2, <2>6, <2>7 DEF StillAccepted
    <3>3. ControllerStep /\ state' \in [Controllers -> State] /\ state'[c] = changed
      BY <2>1, <2>3, <2>6, <3>1, <3>2, OneState DEF sessionVars
    <3>4. Spent(Head(jobs))
      BY <1>1, <2>1, <2>6, <3>3 DEF Spent
    <3> QED
      BY <1>1, <2>3, <3>3, <3>4, SettleSound
  <2>8. CASE ~StillAccepted(job)
    <3>1. UNCHANGED state
      BY <1>3, <2>8 DEF ApplySnapshot
    <3>2. ControllerStep /\ state' \in [Controllers -> State]
      BY <2>3, <3>1, SameControllers DEF CoreInv, TypeOK, controllerVars, sessionVars
    <3>3. job.acceptedAt = lifecycleRevision[c] => ~closed[c]
      BY <2>1 DEF Since, CoreInv, RosterInv
    <3>4. Spent(Head(jobs))
      BY <1>1, <2>1, <2>2, <2>8, <3>1, <3>3 DEF Spent, StillAccepted
    <3> QED
      BY <1>1, <2>3, <3>2, <3>4, SettleSound
  <2> QED
    BY <2>7, <2>8
<1>4. CASE job.kind = "settled" /\ SettleAction(job)
  <2> PICK c : c = job.controller
    OBVIOUS
  <2> DEFINE changed == [state[c] EXCEPT !.status = "ready", !.failed = ~job.ok]
  <2>1. job.ok \in BOOLEAN /\ (~job.ok) \in BOOLEAN
    BY <1>2, <1>4 DEF Job, Arrival, Settlement, Closing
  <2>2. changed \in State /\ changed.snapshot = state[c].snapshot
    BY <1>2, <2>1, StatusChange DEF Status
  <2>3. SetState(c, changed) \/ UNCHANGED state
    BY <1>4 DEF SettleAction
  <2> HIDE DEF changed
  <2>4. /\ jobs' = Tail(jobs) /\ Head(jobs).kind # "snapshot"
        /\ UNCHANGED <<sessionVars, created, connected, closed, lifecycleRevision, stack>>
    BY <1>1, <1>4 DEF SettleAction
  <2> QED
    BY <1>1, <1>2, <2>2, <2>3, <2>4, MarkSound
<1>5. CASE job.kind = "close" /\ CloseContinues(job)
  <2> DEFINE after == [kind |-> "closed", controller |-> job.controller]
  <2>1. after \in Job /\ after.kind = "closed" /\ after.controller \in created
        /\ jobs' = Append(Tail(jobs), after)
    BY <1>2, <1>5 DEF Job, Closing, CloseContinues
  <2> HIDE DEF after
  <2>2. NewJob(after) /\ Spent(Head(jobs))
    BY <1>1, <1>5, <2>1 DEF NewJob, Spent
  <2>3. JobStep
    BY <1>1, <2>1, <2>2, JobContinued
  <2> QED
    BY <1>5, <2>3, CloseSessionFacts DEF CloseContinues
<1>6. CASE job.kind = "closed" /\ CloseSettles(job)
  <2> PICK c : c = job.controller
    OBVIOUS
  <2> DEFINE changed == [state[c] EXCEPT !.status = "closed"]
  <2>1. changed \in State /\ changed.snapshot = state[c].snapshot
    BY <1>2, StatusChange DEF Status
  <2>2. SetState(c, changed)
    BY <1>6 DEF CloseSettles
  <2> HIDE DEF changed
  <2>3. /\ jobs' = Tail(jobs) /\ Head(jobs).kind # "snapshot"
        /\ UNCHANGED <<sessionVars, created, connected, closed, lifecycleRevision, stack>>
    BY <1>1, <1>6 DEF CloseSettles
  <2> QED
    BY <1>1, <1>2, <2>1, <2>2, <2>3, MarkSound
<1> QED
  BY <1>1, <1>3, <1>4, <1>5, <1>6 DEF RunJob

-----------------------------------------------------------------------------
\* One call that releases old and connects new.
LEMMA AttachSound ==
  ASSUME CoreInv, NEW old \in Controllers \cup {None}, NEW new \in Controllers, new # old,
         ~connected[new], Attach(old, new), created' = created \cup {new},
         UNCHANGED <<snapshot, sessionClosed, heard, closed, stack>>
  PROVE  /\ Sound
         /\ \A c \in Controllers : connected'[c] =>
              IF c = new THEN ~closed[new] /\ ~sessionClosed ELSE connected[c] /\ c # old
         /\ ~closed[new] /\ ~sessionClosed => connected'[new]
         /\ \A c \in Controllers : c # new => state'[c] = state[c]
         /\ state'[new] \in State
         /\ new \in created => state'[new].snapshot = state[new].snapshot
         /\ new \in created /\ closed[new] => state'[new] = state[new]
<1>1. /\ subscribers \in Seq(Party) /\ IsInjective(subscribers) /\ jobs \in Seq(Job)
      /\ stack \in Seq(Frame) /\ snapshot \in Nat /\ created \subseteq Controllers
      /\ state \in [Controllers -> State] /\ connected \in [Controllers -> BOOLEAN]
      /\ closed \in [Controllers -> BOOLEAN] /\ sessionClosed \in BOOLEAN
      /\ lifecycleRevision \in [Controllers -> Nat]
      /\ \A c \in Controllers : state[c].snapshot \in Nat /\ state[c].snapshot <= snapshot
  BY StateTypes DEF CoreInv, TypeOK, RosterInv, BoundsInv, Party
<1> PICK fresh, opens, base, remaining :
      /\ fresh = (new \notin created) /\ opens = (~closed[new] /\ ~sessionClosed)
      /\ base = IF fresh THEN StateAt(snapshot) ELSE state[new]
      /\ remaining = IF old # None /\ connected[old] THEN Without(subscribers, old) ELSE subscribers
  OBVIOUS
<1>2. /\ subscribers' = IF opens THEN Append(remaining, new) ELSE remaining
      /\ connected' = [c \in Controllers |-> IF c = new THEN opens ELSE connected[c] /\ c # old]
      /\ lifecycleRevision' =
           [c \in Controllers |-> lifecycleRevision[c] + (IF c = old THEN 1 ELSE 0)]
      /\ IF opens /\ ~fresh THEN AcceptSnapshot(new, snapshot) ELSE UNCHANGED jobs
      /\ SetState(new, IF opens THEN [base EXCEPT !.status = "ready"] ELSE base)
  BY DEF Attach
<1>3. opens \in BOOLEAN /\ fresh \in BOOLEAN
  BY <1>1
<1>4. /\ remaining \in Seq(Party) /\ IsInjective(remaining)
      /\ \A x : x \in ToSet(remaining) => x \in ToSet(subscribers)
      /\ ~sessionClosed => \A c \in Controllers :
                            c \in ToSet(remaining) <=> c \in ToSet(subscribers) /\ c # old
      /\ sessionClosed => remaining = <<>>
  <2>1. CASE old # None /\ connected[old]
    <3>1. remaining = Without(subscribers, old)
      BY <2>1
    <3>2. /\ remaining \in Seq(Party) /\ IsInjective(remaining)
          /\ ToSet(remaining) = ToSet(subscribers) \ {old}
      BY <1>1, <3>1, WithoutParty
    <3>3. sessionClosed => remaining = <<>>
      BY <3>1 DEF CoreInv, RosterInv, Without, ToSet
    <3> QED
      BY <3>2, <3>3
  <2>2. CASE ~(old # None /\ connected[old])
    <3>1. remaining = subscribers
      BY <2>2
    <3>2. ASSUME ~sessionClosed, old \in Controllers PROVE old \notin ToSet(subscribers)
      <4>1. ~connected[old]
        BY <2>2, <3>2, ControllerAssumption
      <4> QED
        BY <3>2, <4>1 DEF CoreInv, RosterInv, Subscribed
    <3> QED
      BY <1>1, <3>1, <3>2 DEF CoreInv, RosterInv
  <2> QED
    BY <2>1, <2>2
<1> DEFINE changed == IF opens THEN [base EXCEPT !.status = "ready"] ELSE base
<1>5. /\ base \in State /\ changed \in State /\ changed.snapshot = base.snapshot
      /\ fresh => base.snapshot = snapshot
      /\ ~fresh => base = state[new]
      /\ base.snapshot \in Nat /\ state[new].snapshot <= base.snapshot /\ base.snapshot <= snapshot
      /\ closed[new] => changed = base
  <2>1. StateAt(snapshot) \in State /\ StateAt(snapshot).snapshot = snapshot
    BY <1>1 DEF StateAt, State, Status
  <2>2. /\ base \in State
        /\ fresh => base.snapshot = snapshot
        /\ ~fresh => base = state[new]
    BY <1>1, <2>1
  <2>3. changed \in State /\ changed.snapshot = base.snapshot
    BY <2>2 DEF State, Status
  <2>4. closed[new] => changed = base
    OBVIOUS
  <2> HIDE DEF changed
  <2> QED
    BY <1>1, <1>3, <2>2, <2>3, <2>4
<1>6. state' \in [Controllers -> State] /\ state'[new] = changed
      /\ \A c \in Controllers : c # new => state'[c] = state[c]
  <2>1. state' = [state EXCEPT ![new] = changed]
    BY <1>2 DEF SetState
  <2> HIDE DEF changed
  <2> QED
    BY <1>1, <1>5, <2>1
<1> HIDE DEF changed
<1>7. /\ \A c \in Controllers : c # new => (connected'[c] <=> connected[c] /\ c # old)
      /\ connected'[new] = opens
      /\ connected' \in [Controllers -> BOOLEAN]
  BY <1>1, <1>2, <1>3
<1>8. /\ lifecycleRevision' \in [Controllers -> Nat]
      /\ \A c \in Controllers : c # old => lifecycleRevision'[c] = lifecycleRevision[c]
      /\ \A c \in Controllers : c = old => lifecycleRevision'[c] = lifecycleRevision[c] + 1
  BY <1>1, <1>2
<1>9. /\ subscribers' \in Seq(Party) /\ IsInjective(subscribers')
      /\ sessionClosed => subscribers' = <<>>
      /\ \A x : x \in ToSet(subscribers') => x \in ToSet(subscribers) \/ (x = new /\ opens)
      /\ ~sessionClosed => \A c \in Controllers : c \in ToSet(subscribers') <=> connected'[c]
  <2>1. ~sessionClosed => \A c \in Controllers : c \in ToSet(subscribers) <=> connected[c]
    BY DEF CoreInv, RosterInv, Subscribed
  <2>2. CASE opens
    <3>1. new \notin ToSet(remaining) /\ ~sessionClosed
      BY <1>4, <2>1, <2>2
    <3>2. /\ subscribers' \in Seq(Party) /\ IsInjective(subscribers')
          /\ ToSet(subscribers') = ToSet(remaining) \cup {new}
      BY <1>2, <1>4, <2>2, <3>1, AppendParty DEF Party
    <3> QED
      BY <1>4, <1>7, <2>1, <2>2, <3>1, <3>2
  <2>3. CASE ~opens
    <3>1. subscribers' = remaining
      BY <1>2, <2>3
    <3> QED
      BY <1>4, <1>7, <2>1, <2>3, <3>1
  <2> QED
    BY <2>2, <2>3
<1>10. JobStep /\ (opens => state'[new].snapshot = snapshot' \/ Waiting(new)')
  <2>1. CASE opens /\ ~fresh
    <3>1. AcceptSnapshot(new, snapshot) /\ new \in created
      BY <1>2, <2>1
    <3>2. /\ lifecycleRevision'[new] = lifecycleRevision[new] /\ connected'[new]
          /\ state'[new].snapshot = state[new].snapshot
      BY <1>5, <1>6, <1>7, <1>8, <2>1
    <3> QED
      BY <3>1, <3>2, AcceptFacts
  <2>2. CASE ~(opens /\ ~fresh)
    <3>1. UNCHANGED jobs
      BY <1>2, <2>2
    <3>2. opens => state'[new].snapshot = snapshot
      BY <1>3, <1>5, <1>6, <2>2
    <3> QED
      BY <1>1, <3>1, <3>2, JobsKept
  <2> QED
    BY <2>1, <2>2
<1>11. ControllerStep
  <2>1. ASSUME NEW c \in Controllers
        PROVE  state[c].snapshot <= state'[c].snapshot /\ state'[c].snapshot <= snapshot
    <3>1. state[c].snapshot \in Nat /\ state[c].snapshot <= snapshot
      BY <1>1
    <3>2. CASE c = new
      BY <1>5, <1>6, <3>2
    <3>3. CASE c # new
      BY <1>6, <3>1, <3>3
    <3> QED
      BY <3>2, <3>3
  <2>2. ASSUME NEW c \in Controllers
        PROVE  /\ lifecycleRevision[c] <= lifecycleRevision'[c]
               /\ connected[c] /\ lifecycleRevision'[c] = lifecycleRevision[c] => connected'[c]
               /\ connected[c] /\ connected'[c] => lifecycleRevision'[c] = lifecycleRevision[c]
    <3>1. lifecycleRevision[c] \in Nat
      BY <1>1
    <3>2. CASE c = old
      BY <1>7, <1>8, <3>1, <3>2
    <3>3. CASE c # old
      BY <1>7, <1>8, <3>1, <3>3
    <3> QED
      BY <3>2, <3>3
  <2> QED
    BY <2>1, <2>2 DEF ControllerStep
<1>12. StackStep
  BY <1>1, StackKept
<1>13. TypeOK'
  BY <1>1, <1>6, <1>7, <1>8, <1>9, <1>10 DEF CoreInv, TypeOK, JobStep, Party
<1>14. RosterInv'
  BY <1>7, <1>9 DEF CoreInv, RosterInv, Subscribed
<1>15. \A x : Pending(x) => Pending(x)'
  BY <1>1, PendingKept
<1>16. opens => Reached(new)
  BY <1>10 DEF Reached
<1>17. ToldStep
  BY <1>9, <1>15, <1>16, ToldQuietly
<1>18. Sound
  BY <1>10, <1>11, <1>12, <1>13, <1>14, <1>17 DEF Sound, Step
<1> QED
  BY <1>3, <1>5, <1>6, <1>7, <1>18

-----------------------------------------------------------------------------
\* NothingAfterRelease, of one step.
ReleasedStep ==
  \A c \in created :
    /\ state'[c].snapshot # state[c].snapshot => connected[c]
    /\ closed[c] /\ state'[c] # state[c] => state'[c] = [state[c] EXCEPT !.status = "closed"]

\* A change of the status of a controller that is not closed.
LEMMA StatusReleased ==
  ASSUME CoreInv, NEW c \in Controllers, NEW changed \in State, SetState(c, changed),
         changed.snapshot = state[c].snapshot, ~closed[c]
  PROVE  ReleasedStep
<1>1. /\ state'[c] = changed /\ created \subseteq Controllers
      /\ \A d \in Controllers : d # c => state'[d] = state[d]
  BY DEF SetState, CoreInv, TypeOK
<1> QED
  BY <1>1 DEF ReleasedStep

\* A job applies nothing to a controller that was released meanwhile.
LEMMA RunJobReleased ==
  ASSUME CoreInv, RunJob
  PROVE  ReleasedStep
<1>1. /\ jobs \in Seq(Job) /\ jobs # <<>> /\ 1 \in DOMAIN jobs /\ Head(jobs) = jobs[1]
      /\ state \in [Controllers -> State] /\ created \subseteq Controllers
  BY DEF CoreInv, TypeOK, RunJob
<1> PICK job : job = jobs[1]
  OBVIOUS
<1>2. job.controller \in Controllers /\ (job.kind = "settled" => job.ok \in BOOLEAN)
  BY <1>1 DEF Job, Arrival, Settlement, Closing
<1> PICK c : c = job.controller
  OBVIOUS
<1>3. UNCHANGED state => ReleasedStep
  BY DEF ReleasedStep
<1>4. CASE job.kind = "snapshot" /\ ApplySnapshot(job)
  <2>1. CASE StillAccepted(job)
    <3>1. ~closed[c] /\ connected[c]
      <4>1. Since(c, job.acceptedAt)
        BY <1>1, <1>4 DEF CoreInv, LifecycleInv, Arrivals
      <4> QED
        BY <2>1, <4>1 DEF StillAccepted, Since
    <3>2. \A d \in Controllers : d # c => state'[d] = state[d]
      BY <1>1, <1>2, <1>4, <2>1 DEF ApplySnapshot, SetState
    <3> QED
      BY <1>1, <3>1, <3>2 DEF ReleasedStep
  <2> QED
    BY <1>3, <1>4, <2>1 DEF ApplySnapshot
<1>5. CASE job.kind = "settled" /\ SettleAction(job)
  <2>1. CASE ~closed[c]
    <3> DEFINE changed == [state[c] EXCEPT !.status = "ready", !.failed = ~job.ok]
    <3>1. changed \in State /\ changed.snapshot = state[c].snapshot
      BY <1>2, <1>5, StatusChange DEF Status
    <3>2. SetState(c, changed)
      BY <1>5, <2>1 DEF SettleAction, MaySettle
    <3> HIDE DEF changed
    <3> QED
      BY <1>2, <2>1, <3>1, <3>2, StatusReleased
  <2> QED
    BY <1>3, <1>5, <2>1 DEF SettleAction, MaySettle
<1>6. CASE job.kind = "close" /\ CloseContinues(job)
  BY <1>3, <1>6 DEF CloseContinues, controllerVars
<1>7. CASE job.kind = "closed" /\ CloseSettles(job)
  <2>1. /\ state'[c] = [state[c] EXCEPT !.status = "closed"]
        /\ \A d \in Controllers : d # c => state'[d] = state[d]
    BY <1>1, <1>2, <1>7 DEF CloseSettles, SetState
  <2>2. [state[c] EXCEPT !.status = "closed"].snapshot = state[c].snapshot
    BY <1>2, StatusChange DEF Status
  <2> QED
    BY <1>1, <2>1, <2>2 DEF ReleasedStep
<1> QED
  BY <1>1, <1>4, <1>5, <1>6, <1>7 DEF RunJob

-----------------------------------------------------------------------------
\* What the others do to the controllers of the component.
OthersStep ==
  /\ \A c \in own : connected'[c] => connected[c]
  /\ \A c \in own : connected[c] => connected'[c] \/ closed'[c]
  /\ \A c \in Controllers : closed[c] => closed'[c]

\* Steps that are not the component's own.
Others ==
  \/ Runtime \/ SessionCalls
  \/ \E c \in Controllers \ own : Create(c) \/ Connect(c) \/ Dispose(c)
  \/ \E c \in Controllers : Reachable(c) /\ (Begin(c) \/ Close(c))

\* Every step that is not the component's own.
LEMMA OthersSound ==
  ASSUME CoreInv, own \subseteq Controllers, Others
  PROVE  Sound /\ OthersStep /\ ReleasedStep
<1>1. /\ created \subseteq Controllers /\ connected \in [Controllers -> BOOLEAN]
      /\ closed \in [Controllers -> BOOLEAN] /\ state \in [Controllers -> State]
  BY DEF CoreInv, TypeOK
<1>2. UNCHANGED <<connected, closed>> => OthersStep
  BY <1>1 DEF OthersStep
<1>3. UNCHANGED state => ReleasedStep
  BY DEF ReleasedStep
<1>4. CASE NotifyNext \/ PublishReturns \/ Run
  <2>1. UNCHANGED controllerVars
    BY <1>4 DEF NotifyNext, PublishReturns, Run
  <2> QED
    BY <1>2, <1>3, <1>4, <2>1, NotifySound, ReturnsSound, RunSound DEF controllerVars
<1>5. CASE RunJob
  <2>1. UNCHANGED <<connected, closed>>
    BY <1>5 DEF RunJob, ApplySnapshot, SettleAction, CloseContinues, CloseSettles, controllerVars
  <2> QED
    BY <1>2, <1>5, <2>1, RunJobSound, RunJobReleased
<1>6. CASE SessionCalls
  <2>1. UNCHANGED controllerVars
    BY <1>6 DEF SessionCalls, Mutate, SessionClose, Subscribe, Unsubscribe
  <2>2. Sound
    BY <1>6, MutateSound, SessionCloseSound, SubscribeSound, UnsubscribeSound DEF SessionCalls
  <2> QED
    BY <1>2, <1>3, <2>1, <2>2 DEF controllerVars
<1>7. ASSUME NEW c \in Controllers \ own, Create(c)
      PROVE  Sound /\ OthersStep /\ ReleasedStep
  <2>1. \A d \in created : state'[d] = state[d]
    BY <1>1, <1>7 DEF Create, SetState
  <2>2. ReleasedStep
    BY <2>1 DEF ReleasedStep
  <2> QED
    BY <1>2, <1>7, <2>2, CreateSound DEF Create
<1>8. ASSUME NEW c \in Controllers \ own, Connect(c)
      PROVE  Sound /\ OthersStep /\ ReleasedStep
  <2> DEFINE changed == [state[c] EXCEPT !.status = "ready"]
  <2>1. changed \in State /\ changed.snapshot = state[c].snapshot
    BY StatusChange DEF Status
  <2>2. SetState(c, changed) /\ ~closed[c]
    BY <1>8 DEF Connect
  <2> HIDE DEF changed
  <2>3. ReleasedStep
    BY <2>1, <2>2, StatusReleased
  <2>4. OthersStep
    BY <1>1, <1>8 DEF Connect, OthersStep
  <2> QED
    BY <1>8, <2>3, <2>4, ConnectSound
<1>9. ASSUME NEW c \in Controllers \ own, Dispose(c)
      PROVE  Sound /\ OthersStep /\ ReleasedStep
  <2>1. OthersStep
    BY <1>1, <1>9 DEF Dispose, Release, OthersStep
  <2> QED
    BY <1>3, <1>9, <2>1, DisposeSound DEF Dispose
<1>10. ASSUME NEW c \in Controllers, Begin(c)
       PROVE  Sound /\ OthersStep /\ ReleasedStep
  <2> DEFINE changed == [state[c] EXCEPT !.status = "submitting", !.failed = FALSE]
  <2>1. changed \in State /\ changed.snapshot = state[c].snapshot
    BY StatusChange DEF Status
  <2>2. SetState(c, changed) /\ ~closed[c] /\ UNCHANGED <<connected, closed>>
    BY <1>10 DEF Begin
  <2> HIDE DEF changed
  <2>3. ReleasedStep
    BY <2>1, <2>2, StatusReleased
  <2> QED
    BY <1>2, <1>10, <2>2, <2>3, BeginSound
<1>11. ASSUME NEW c \in Controllers, Close(c)
       PROVE  Sound /\ OthersStep /\ ReleasedStep
  <2>1. /\ connected' = [connected EXCEPT ![c] = FALSE] /\ closed' = [closed EXCEPT ![c] = TRUE]
        /\ UNCHANGED state
    BY <1>11 DEF Close, Release
  <2>2. OthersStep
    BY <1>1, <2>1 DEF OthersStep
  <2> QED
    BY <1>3, <1>11, <2>1, <2>2, CloseSound
<1> QED
  BY <1>4, <1>5, <1>6, <1>7, <1>8, <1>9, <1>10, <1>11 DEF Others, Runtime

-----------------------------------------------------------------------------
\* The inductive invariant.
AdaptersInv == CoreInv /\ ComponentTypeOK /\ ComponentInv

\* Nothing about the component changes but what it displays.
LEMMA ComponentWatches ==
  ASSUME AdaptersInv, Others, Displays, UNCHANGED <<lifecycle, own, rendered, mounted>>
  PROVE  Sound /\ ComponentTypeOK' /\ ComponentInv' /\ ReleasedStep
<1>1. CoreInv /\ ComponentTypeOK /\ ComponentInv /\ own \subseteq Controllers
  BY DEF AdaptersInv, ComponentTypeOK
<1>2. Sound /\ OthersStep /\ ReleasedStep
  BY <1>1, OthersSound
<1>3. /\ created \subseteq created' /\ (sessionClosed => sessionClosed')
      /\ state' \in [Controllers -> State]
  BY <1>2 DEF Sound, Step, ControllerStep, TypeOK
<1>4. mounted # None => mounted \in own /\ mounted \in Controllers
  BY <1>1 DEF ComponentInv
<1>5. ComponentTypeOK'
  BY <1>1, <1>3, <1>4 DEF ComponentTypeOK, Displays
<1>6. ASSUME mounted # None
      PROVE  /\ published' = [controller |-> mounted, state |-> state'[mounted]]
             /\ closed'[mounted] \/ sessionClosed' \/ connected'[mounted]
  <2>1. published = [controller |-> mounted, state |-> state[mounted]]
        /\ (closed[mounted] \/ sessionClosed \/ connected[mounted])
    BY <1>1, <1>6 DEF ComponentInv
  <2>2. published' = [controller |-> mounted, state |-> state'[mounted]]
    BY <1>6, <2>1 DEF Displays
  <2> QED
    BY <1>2, <1>3, <1>4, <1>6, <2>1, <2>2 DEF OthersStep
<1>7. \A c \in own : connected'[c] => c = mounted
  BY <1>1, <1>2 DEF ComponentInv, OthersStep
<1>8. ComponentInv'
  BY <1>1, <1>3, <1>6, <1>7 DEF ComponentInv
<1> QED
  BY <1>2, <1>5, <1>8

\* A hook renders, or a store makes its controller.
LEMMA RenderSound ==
  ASSUME AdaptersInv, NEW c \in Controllers, Render(c)
  PROVE  Sound /\ ComponentTypeOK' /\ ComponentInv' /\ ReleasedStep
<1>1. /\ CoreInv /\ ComponentTypeOK /\ ComponentInv /\ Create(c) /\ c \notin created
      /\ own' = own \cup {c} /\ rendered' = c /\ UNCHANGED <<lifecycle, mounted>>
      /\ created' = created \cup {c} /\ UNCHANGED <<sessionVars, connected, closed>>
  BY DEF AdaptersInv, Render, Create
<1>2. Sound
  BY <1>1, CreateSound
<1>3. /\ state \in [Controllers -> State] /\ created \subseteq Controllers
      /\ state' \in [Controllers -> State] /\ snapshot \in Nat
      /\ \A d \in created : state'[d] = state[d]
  BY <1>1 DEF CoreInv, TypeOK, Create, SetState, StateAt, State, Status
<1>4. ReleasedStep
  BY <1>3 DEF ReleasedStep
<1>5. StateAt(snapshot) \in State
  BY <1>3 DEF StateAt, State, Status
<1>6. published' = IF rendered = None THEN [controller |-> c, state |-> StateAt(snapshot)]
                   ELSE published
  BY DEF Render
<1>7. ComponentTypeOK'
  BY <1>1, <1>5, <1>6 DEF ComponentTypeOK
<1>8. c # None /\ ~connected[c]
  BY <1>1, ControllerAssumption DEF CoreInv, RosterInv
<1>9. lifecycle' # "hook" => mounted' = None
  BY <1>1 DEF Render, ComponentInv
<1>10. \A d \in own' : connected'[d] => d = mounted'
  BY <1>1, <1>8 DEF ComponentInv
<1>11. ASSUME mounted' # None
       PROVE  /\ published' = [controller |-> mounted', state |-> state'[mounted']]
              /\ closed'[mounted'] \/ sessionClosed' \/ connected'[mounted']
  <2>1. mounted' = mounted /\ mounted # None /\ mounted \in created /\ rendered # None
    BY <1>1, <1>11 DEF ComponentInv
  <2> QED
    BY <1>1, <1>3, <1>6, <2>1 DEF ComponentInv, sessionVars
<1>12. ComponentInv'
  BY <1>1, <1>8, <1>9, <1>10, <1>11 DEF ComponentInv
<1> QED
  BY <1>2, <1>4, <1>7, <1>12

\* What Attach makes of the component.
LEMMA AttachedComponent ==
  ASSUME AdaptersInv, NEW old \in own \cup {None}, NEW new \in Controllers, new # old,
         ~connected[new], Attach(old, new), created' = created \cup {new},
         UNCHANGED <<snapshot, sessionClosed, heard, closed, stack, lifecycle>>,
         own' = own \cup {new}, rendered' = new,
         \A c \in own : connected[c] => c = old
  PROVE  Sound /\ ComponentTypeOK' /\ ComponentInv' /\ ReleasedStep
<1>1. /\ CoreInv /\ ComponentTypeOK /\ ComponentInv /\ own \subseteq Controllers
      /\ created \subseteq Controllers /\ own \subseteq created
  BY DEF AdaptersInv, ComponentTypeOK, ComponentInv, CoreInv, TypeOK
<1>2. /\ Sound
      /\ \A c \in Controllers : connected'[c] =>
           IF c = new THEN ~closed[new] /\ ~sessionClosed ELSE connected[c] /\ c # old
      /\ ~closed[new] /\ ~sessionClosed => connected'[new]
      /\ \A c \in Controllers : c # new => state'[c] = state[c]
      /\ state'[new] \in State
      /\ new \in created => state'[new].snapshot = state[new].snapshot
      /\ new \in created /\ closed[new] => state'[new] = state[new]
  <2>1. old \in Controllers \cup {None}
    BY <1>1
  <2> QED
    BY <1>1, <2>1, AttachSound
<1>3. ReleasedStep
  BY <1>1, <1>2 DEF ReleasedStep
<1> PICK shown : shown = ((~closed[new] /\ ~sessionClosed) \/ closed[new])
  OBVIOUS
<1>4. /\ mounted' = IF shown THEN new ELSE None
      /\ published' = IF shown THEN [controller |-> new, state |-> state'[new]] ELSE published
  BY DEF Attach
<1>5. new # None
  BY ControllerAssumption
<1>6. ComponentTypeOK'
  BY <1>1, <1>2, <1>4 DEF ComponentTypeOK
<1>7. \A c \in own' : connected'[c] => c = mounted'
  BY <1>1, <1>2, <1>4
<1>8. ASSUME mounted' # None
      PROVE  /\ published' = [controller |-> mounted', state |-> state'[mounted']]
             /\ closed'[mounted'] \/ sessionClosed' \/ connected'[mounted']
  <2>1. shown /\ mounted' = new
    BY <1>4, <1>8
  <2>2. published' = [controller |-> new, state |-> state'[new]]
    BY <1>4, <2>1
  <2>3. closed'[new] \/ sessionClosed' \/ connected'[new]
    BY <1>2, <2>1
  <2> QED
    BY <2>1, <2>2, <2>3
<1>9. ComponentInv'
  BY <1>1, <1>4, <1>5, <1>7, <1>8 DEF ComponentInv
<1> QED
  BY <1>2, <1>3, <1>6, <1>9

\* The effects of a hook; the first subscriber of a store.
LEMMA MountSound ==
  ASSUME AdaptersInv, Mount
  PROVE  Sound /\ ComponentTypeOK' /\ ComponentInv' /\ ReleasedStep
<1>1. /\ rendered \in own /\ rendered \in created /\ rendered \in Controllers
      /\ mounted \in own \cup {None} /\ mounted # rendered
      /\ \A c \in own : connected[c] => c = mounted
  BY DEF AdaptersInv, ComponentInv, ComponentTypeOK, Mount
<1> PICK old, new : old = mounted /\ new = rendered
  OBVIOUS
<1>2. /\ Attach(old, new) /\ created' = created \cup {new} /\ own' = own \cup {new}
      /\ rendered' = new
      /\ UNCHANGED <<snapshot, sessionClosed, heard, closed, stack, lifecycle>>
  BY <1>1 DEF Mount
<1> QED
  BY <1>1, <1>2, AttachedComponent

\* Vue's watch and Angular's connect.
LEMMA ReplaceSound ==
  ASSUME AdaptersInv, NEW c \in Controllers, Replace(c)
  PROVE  Sound /\ ComponentTypeOK' /\ ComponentInv' /\ ReleasedStep
<1> PICK old : old = rendered
  OBVIOUS
<1>1. /\ Attach(old, c) /\ created' = created \cup {c} /\ own' = own \cup {c} /\ rendered' = c
      /\ UNCHANGED <<snapshot, sessionClosed, heard, closed, stack, lifecycle>>
      /\ c \notin created /\ lifecycle = "service"
  BY DEF Replace
<1>2. ~connected[c] /\ own \subseteq created /\ old \in own \cup {None} /\ c # None
  BY <1>1, ControllerAssumption DEF AdaptersInv, CoreInv, RosterInv, ComponentInv
<1>3. \A d \in own : connected[d] => d = old
  <2>1. mounted \in {None, old} /\ \A d \in own : connected[d] => d = mounted
    BY <1>1 DEF AdaptersInv, ComponentInv
  <2>2. None \notin own
    BY ControllerAssumption DEF AdaptersInv, ComponentTypeOK
  <2> QED
    BY <2>1, <2>2
<1> QED
  BY <1>1, <1>2, <1>3, AttachedComponent

\* The component goes away.
LEMMA UnmountSound ==
  ASSUME AdaptersInv, Unmount
  PROVE  Sound /\ ComponentTypeOK' /\ ComponentInv' /\ ReleasedStep
<1>1. /\ CoreInv /\ ComponentTypeOK /\ ComponentInv /\ mounted # None /\ Dispose(mounted)
      /\ mounted' = None /\ rendered' \in {rendered, None} /\ UNCHANGED <<lifecycle, own, published>>
      /\ UNCHANGED <<state, created>>
  BY DEF AdaptersInv, Unmount, Dispose
<1>2. mounted \in Controllers
  BY <1>1 DEF ComponentTypeOK
<1>3. Sound
  BY <1>1, <1>2, DisposeSound
<1>4. ReleasedStep
  BY <1>1 DEF ReleasedStep
<1>5. ComponentTypeOK'
  BY <1>1 DEF ComponentTypeOK
<1>6. \A c \in own : ~connected'[c]
  <2>1. connected' = [connected EXCEPT ![mounted] = FALSE] /\ connected \in [Controllers -> BOOLEAN]
    BY <1>1 DEF Dispose, Release, CoreInv, TypeOK
  <2>2. own \subseteq Controllers
    BY <1>1 DEF ComponentTypeOK
  <2>3. \A c \in own : connected[c] => c = mounted
    BY <1>1 DEF ComponentInv
  <2> QED
    BY <1>2, <2>1, <2>2, <2>3
<1>7. ComponentInv'
  BY <1>1, <1>6 DEF ComponentInv
<1> QED
  BY <1>3, <1>4, <1>5, <1>7

\* Every step keeps the invariant and applies nothing that was released.
LEMMA AdaptersStep ==
  ASSUME AdaptersInv, [ComponentNext]_allVars
  PROVE  AdaptersInv' /\ (ReleasedStep \/ UNCHANGED vars)
<1>1. CASE UNCHANGED allVars
  <2>1. CoreInv'
    BY <1>1, QuietSound, SoundStep DEF AdaptersInv, allVars, vars, sessionVars, controllerVars
  <2>2. ComponentTypeOK' /\ ComponentInv'
    BY <1>1 DEF AdaptersInv, allVars, vars, componentVars, controllerVars, sessionVars,
                ComponentTypeOK, ComponentInv
  <2> QED
    BY <1>1, <2>1, <2>2 DEF AdaptersInv, allVars
<1>2. CASE ComponentNext
  <2>1. Sound /\ ComponentTypeOK' /\ ComponentInv' /\ ReleasedStep
    BY <1>2, ComponentWatches, RenderSound, ReplaceSound, MountSound, UnmountSound
       DEF ComponentNext, Others
  <2> QED
    BY <2>1, SoundStep DEF AdaptersInv
<1> QED
  BY <1>1, <1>2

\* The beginning.
LEMMA AdaptersInit ==
  ASSUME ComponentInit
  PROVE  AdaptersInv
<1> USE DEF ComponentInit, Init
<1>1. StateAt(0) \in State /\ StateAt(0).snapshot = 0
  BY DEF StateAt, State, Status
<1>2. TypeOK /\ ComponentTypeOK
  <2>1. [c \in Controllers |-> StateAt(0)] \in [Controllers -> State]
    BY <1>1
  <2>2. TypeOK
    <3>1. <<>> \in Seq(Controllers \cup Listeners) /\ <<>> \in Seq(Frame) /\ <<>> \in Seq(Job)
      OBVIOUS
    <3>2. /\ [l \in Listeners |-> 0] \in [Listeners -> Nat]
          /\ [c \in Controllers |-> FALSE] \in [Controllers -> BOOLEAN]
          /\ [c \in Controllers |-> 0] \in [Controllers -> Nat]
      OBVIOUS
    <3>3. snapshot \in Nat /\ sessionClosed \in BOOLEAN /\ created \subseteq Controllers
      OBVIOUS
    <3> QED
      BY <2>1, <3>1, <3>2, <3>3, Zenon DEF TypeOK
  <2>3. [controller |-> None, state |-> StateAt(0)] \in
          [controller : Controllers \cup {None}, state : State]
    BY <1>1
  <2>4. ComponentTypeOK
    BY <2>3 DEF ComponentTypeOK
  <2> QED
    BY <2>2, <2>4
<1>3. RosterInv
  BY DEF RosterInv, IsInjective, Subscribed, ToSet
<1>4. BoundsInv /\ NestingInv /\ CreatedInv /\ LifecycleInv
  BY <1>1 DEF BoundsInv, NestingInv, CreatedInv, LifecycleInv, Publications, Arrivals, Attached
<1>5. HeardInv /\ CurrentInv /\ SettledInv
  BY DEF HeardInv, CurrentInv, SettledInv, Subscribed, ToSet, Attached
<1>6. ComponentInv
  BY DEF ComponentInv
<1> QED
  BY <1>2, <1>3, <1>4, <1>5, <1>6 DEF AdaptersInv, CoreInv

\* The inductive invariant of a session, its controllers and a component
\* (createLocalSession, createAdapterController and the seven adapters).
THEOREM Invariance == ComponentSpec => []AdaptersInv
<1>1. ComponentInit => AdaptersInv
  BY AdaptersInit
<1>2. AdaptersInv /\ [ComponentNext]_allVars => AdaptersInv'
  BY AdaptersStep
<1> QED
  BY <1>1, <1>2, PTL DEF ComponentSpec

\* An open session holds a controller's listener, once, exactly while the controller
\* is connected, and of a component's controllers only the mounted one is (connect,
\* release, close; the adapters' mount and unmount).
THEOREM SubscriptionsHaveOwners == ComponentSpec => []SubscriptionsAreOwned
<1>1. AdaptersInv => SubscriptionsAreOwned
  <2> SUFFICES ASSUME AdaptersInv PROVE SubscriptionsAreOwned
    OBVIOUS
  <2>1. ASSUME NEW c \in Controllers PROVE Subscribed(c) <=> connected[c] /\ ~sessionClosed
    BY DEF AdaptersInv, CoreInv, RosterInv, TypeOK, Subscribed, ToSet
  <2> QED
    BY <2>1 DEF AdaptersInv, CoreInv, RosterInv, ComponentInv, SubscriptionsAreOwned,
                SubscriptionIsOwned
<1> QED
  BY <1>1, Invariance, PTL

\* A mounted component shows the state of the controller it uses, which is current
\* between jobs or has the snapshot waiting (acceptSnapshot, publish).
THEOREM ComponentsShowTheCurrent == ComponentSpec => []ViewIsCurrent
<1>1. AdaptersInv => ViewIsCurrent
  <2> SUFFICES ASSUME AdaptersInv PROVE ViewIsCurrent
    OBVIOUS
  <2>1. ConnectedIsCurrent
    <3>1. stack = <<>> => \A c : ~Pending(c)
      BY DEF Pending, Publications
    <3> QED
      BY <3>1 DEF AdaptersInv, CoreInv, CurrentInv, ConnectedIsCurrent
  <2>2. ASSUME mounted # None
        PROVE  View = state[rendered] /\ (closed[mounted] \/ sessionClosed \/ connected[mounted])
    <3>1. published = [controller |-> mounted, state |-> state[mounted]]
          /\ (closed[mounted] \/ sessionClosed \/ connected[mounted])
          /\ (lifecycle # "hook" => mounted = rendered)
      BY <2>2 DEF AdaptersInv, ComponentInv
    <3>2. published.controller = mounted /\ published.state = state[mounted]
      BY <3>1
    <3> QED
      BY <3>1, <3>2 DEF View
  <2> QED
    BY <2>1, <2>2 DEF ViewIsCurrent
<1> QED
  BY <1>1, Invariance, PTL

\* When submit or reset settles, a controller that stayed connected shows a snapshot
\* as new as the result (action, acceptSnapshot, publish).
THEOREM ResultsComeAfterSnapshots == ComponentSpec => []SettledIsVisible
<1>1. AdaptersInv => SettledIsVisible
  <2> SUFFICES ASSUME AdaptersInv, jobs # <<>>, Head(jobs).kind = "settled", ~sessionClosed,
                      Head(jobs).attached,
                      Head(jobs).since = lifecycleRevision[Head(jobs).controller]
               PROVE  state[Head(jobs).controller].snapshot >= Head(jobs).revision
    BY DEF SettledIsVisible
  <2>1. 1 \in Attached /\ Head(jobs) = jobs[1] /\ jobs \in Seq(Job)
    BY DEF AdaptersInv, CoreInv, TypeOK, Attached
  <2>2. \A j \in Arrivals : ~(j < 1)
    BY <2>1 DEF Arrivals
  <2> QED
    BY <2>1, <2>2 DEF AdaptersInv, CoreInv, SettledInv
<1> QED
  BY <1>1, Invariance, PTL

\* With no publication running, every listener has heard the current snapshot last,
\* however publications were nested (publish).
THEOREM ListenersHearTheLast == ComponentSpec => []ListenersAreCurrent
<1>1. AdaptersInv => ListenersAreCurrent
  BY DEF AdaptersInv, CoreInv, HeardInv, ListenersAreCurrent, Pending, Publications
<1> QED
  BY <1>1, Invariance, PTL

\* Only a connected controller's snapshot moves, and after close only the status
\* does, to closed (StillAccepted, action, close).
THEOREM ReleasedIsReleased == ComponentSpec => NothingAfterRelease
<1>1. AdaptersInv /\ [ComponentNext]_allVars =>
        [\A c \in created :
           /\ state'[c].snapshot # state[c].snapshot => connected[c]
           /\ closed[c] /\ state'[c] # state[c] =>
                state'[c] = [state[c] EXCEPT !.status = "closed"]]_vars
  BY AdaptersStep DEF ReleasedStep
<1> QED
  BY <1>1, Invariance, PTL DEF ComponentSpec, NothingAfterRelease
=============================================================================
