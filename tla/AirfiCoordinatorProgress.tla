---------------------- MODULE AirfiCoordinatorProgress ----------------------
(***************************************************************************)
(* Why no operation waits for ever, as far as it can be proved without     *)
(* fairness: whoever is ahead of a waiting task was ahead of it before,    *)
(* and the task that holds the lock always has a next step.  What is left  *)
(* to the fairness of FairSpec is that the next step is taken.             *)
(***************************************************************************)
EXTENDS AirfiCoordinatorProofs

\* x stands before t in the queue.
Before(q, x, t) == \E i, j \in DOMAIN q : i < j /\ q[i] = x /\ q[j] = t

\* The tasks that come before t: who has the lock, and who waits longer.
Ahead(t) == {holder} \cup {x \in Tasks : Before(waiters, x, t)}

\* Nobody overtakes a task that waits: newcomers, and operations that queue
\* again for their confirmation or extension, go behind it, and nobody who has
\* left the lock is ahead of it again.
FirstComeFirstServed ==
  [][\A t \in Tasks : pc[t] = "waiting" /\ pc'[t] = "waiting" =>
       Ahead(t)' \subseteq Ahead(t) /\ (holder' # holder => holder \notin Ahead(t)')]_vars

\* The requests of a task that belong to its job.
Fits(t, task, requests) ==
  /\ task \in {"poll", "extend"} => t \in Pollers
  /\ task \in {"write", "confirm"} => t \in Writers
  /\ task = "probe" => t \in Probers
  /\ task \notin {"none", "write"} =>
       requests # <<>> /\ \A i \in DOMAIN requests : requests[i].op = "read"
  /\ task = "write" => \E r \in WritableRegs : requests = <<Writing(r)>>

\* Every operation is one of its task's kind, has requests of its job still to
\* perform, and is in the queue or inside the lock.
Engaged ==
  /\ holder # NoTask => pc[holder] \in {"connecting", "open"}
  /\ \A t \in Tasks : (job[t] = "none" <=> pc[t] = "idle") /\ Fits(t, job[t], todo[t])

\* The next step of a task inside the lock: to connect, to be answered or turned
\* down for its next read, or to have its write acknowledged.
CanGoOn(t) ==
  \/ pc[t] = "connecting"
  \/ pc[t] = "open" /\ job[t] \in {"poll", "extend", "confirm", "probe"} /\ (CanRead(t) \/ MustFail(t))
  \/ pc[t] = "open" /\ job[t] = "write" /\ \E r \in WritableRegs : Head(todo[t]) = Writing(r)

\* An operation under way waits for a holder that can go on, or can go on itself.
NobodyIsStuck ==
  \A t \in Tasks : job[t] # "none" =>
    /\ pc[t] = "waiting" \/ t = holder
    /\ holder \in Tasks /\ CanGoOn(holder)
-----------------------------------------------------------------------------
(* First come, first served.                                               *)

\* Who joins the queue stands before nobody.
LEMMA AppendBefore ==
  ASSUME NEW q \in Seq(Tasks), NEW u \in Tasks, NEW x, NEW t, t # u, Before(Append(q, u), x, t)
  PROVE  Before(q, x, t)
<1>1. /\ Len(q) \in Nat /\ DOMAIN q = 1..Len(q) /\ DOMAIN Append(q, u) = 1..(Len(q) + 1)
      /\ \A i \in 1..Len(q) : Append(q, u)[i] = q[i]
      /\ Append(q, u)[Len(q) + 1] = u
  OBVIOUS
<1>2. PICK i, j \in 1..(Len(q) + 1) : i < j /\ Append(q, u)[i] = x /\ Append(q, u)[j] = t
  BY <1>1 DEF Before
<1>3. j # Len(q) + 1
  BY <1>1, <1>2
<1>4. i \in 1..Len(q) /\ j \in 1..Len(q)
  BY <1>1, <1>2, <1>3
<1> QED BY <1>1, <1>2, <1>4 DEF Before

\* When the head of the queue leaves, it stands before nobody, and the others
\* stand as they did; it stood before all of them.
LEMMA TailBefore ==
  ASSUME NEW q \in Seq(Tasks), Distinct(q), q # <<>>, NEW t
  PROVE  /\ \A x : Before(Tail(q), x, t) => Before(q, x, t) /\ x # Head(q)
         /\ t \in Queued(Tail(q)) => Before(q, Head(q), t)
<1>1. /\ Len(q) \in Nat \ {0} /\ DOMAIN q = 1..Len(q) /\ DOMAIN Tail(q) = 1..(Len(q) - 1)
      /\ \A i \in 1..(Len(q) - 1) : Tail(q)[i] = q[i + 1]
      /\ Head(q) = q[1]
  OBVIOUS
<1>2. /\ 1 \in 1..Len(q)
      /\ \A i \in 1..(Len(q) - 1) : i + 1 \in 1..Len(q) /\ i + 1 # 1 /\ 1 < i + 1
      /\ \A i, j \in 1..(Len(q) - 1) : i < j => i + 1 < j + 1
  BY <1>1
<1>3. ASSUME NEW x, Before(Tail(q), x, t) PROVE Before(q, x, t) /\ x # Head(q)
  <2>1. PICK i, j \in 1..(Len(q) - 1) : i < j /\ Tail(q)[i] = x /\ Tail(q)[j] = t
    BY <1>1, <1>3 DEF Before
  <2>2. i + 1 \in DOMAIN q /\ j + 1 \in DOMAIN q /\ i + 1 < j + 1 /\ q[i + 1] = x /\ q[j + 1] = t
    BY <1>1, <1>2, <2>1
  <2>3. x # Head(q)
    BY <1>1, <1>2, <2>1, <2>2 DEF Distinct
  <2> QED BY <2>2, <2>3 DEF Before
<1>4. ASSUME t \in Queued(Tail(q)) PROVE Before(q, Head(q), t)
  <2>1. PICK i \in 1..(Len(q) - 1) : t = Tail(q)[i]
    BY <1>1, <1>4 DEF Queued
  <2>2. 1 \in DOMAIN q /\ i + 1 \in DOMAIN q /\ 1 < i + 1 /\ q[1] = Head(q) /\ q[i + 1] = t
    BY <1>1, <1>2, <2>1
  <2> QED BY <2>2 DEF Before
<1> QED BY <1>3, <1>4

\* When a task leaves from the middle, the others stand as they did.
LEMMA WithoutBefore ==
  ASSUME NEW q \in Seq(Tasks), NEW k \in DOMAIN q, NEW x, NEW t, Before(Without(q, k), x, t)
  PROVE  Before(q, x, t)
<1> DEFINE n == Len(q)
           rest == Without(q, k)
           from(i) == IF i < k THEN i ELSE i + 1
<1>1. n \in Nat /\ k \in 1..n /\ DOMAIN q = 1..n
  OBVIOUS
<1>2. /\ DOMAIN rest = 1..(n - 1)
      /\ \A i \in 1..(k - 1) : rest[i] = q[i]
      /\ \A i \in k..(n - 1) : rest[i] = q[i + 1]
  BY WithoutElements
<1>3. PICK i, j \in DOMAIN rest : i < j /\ rest[i] = x /\ rest[j] = t
  BY DEF Before
<1> HIDE DEF n, rest
<1>4. from(i) \in 1..n /\ from(j) \in 1..n /\ from(i) < from(j)
  BY <1>1, <1>2, <1>3
<1>5. rest[i] = q[from(i)] /\ rest[j] = q[from(j)]
  BY <1>1, <1>2, <1>3
<1> QED BY <1>1, <1>3, <1>4, <1>5 DEF Before

\* Who is before t in the queue is in it.
LEMMA BeforeQueued ==
  ASSUME NEW q, NEW x, NEW t, Before(q, x, t)
  PROVE  x \in Queued(q) /\ t \in Queued(q)
BY DEF Before, Queued

\* The step of the lock that FirstComeFirstServed speaks of.
LEMMA AheadShrinks ==
  ASSUME TypeInv, Orderly, Engaged, LockSteps, NEW t \in Tasks, pc[t] = "waiting", pc'[t] = "waiting"
  PROVE  Ahead(t)' \subseteq Ahead(t) /\ (holder' # holder => holder \notin Ahead(t)')
<1>1. /\ LockTypeOK /\ waiters \in Seq(Tasks) /\ Distinct(waiters) /\ t \in Queued(waiters)
      /\ holder # NoTask /\ holder \notin Queued(waiters)
  <2>1. LockTypeOK /\ waiters \in Seq(Tasks) /\ Distinct(waiters) /\ t \in Queued(waiters)
    BY DEF TypeInv, TypeOK, LockTypeOK, Orderly
  <2>2. holder # NoTask
    BY <2>1 DEF Orderly, Queued
  <2>3. holder \in Tasks /\ pc[holder] # "waiting"
    BY <2>1, <2>2 DEF Engaged, LockTypeOK
  <2> QED BY <2>1, <2>2, <2>3 DEF Orderly
<1>2. ASSUME holder' = holder, \A x \in Tasks : Before(waiters', x, t) => Before(waiters, x, t)
      PROVE  Ahead(t)' \subseteq Ahead(t)
  BY <1>2 DEF Ahead
<1>3. CASE UNCHANGED <<holder, waiters>>
  BY <1>2, <1>3 DEF Ahead
<1>4. ASSUME NEW u \in Tasks, CancelWaiting(u) PROVE holder' = holder /\ Ahead(t)' \subseteq Ahead(t)
  <2>1. PICK i \in DOMAIN waiters : waiters' = Without(waiters, i)
    BY <1>4 DEF CancelWaiting, Without
  <2>2. holder' = holder
    BY <1>4 DEF CancelWaiting
  <2> QED BY <1>1, <1>2, <2>1, <2>2, WithoutBefore
<1>5. ASSUME NEW u \in Tasks, NEW requests, Acquire(u, requests)
      PROVE  holder' = holder /\ Ahead(t)' \subseteq Ahead(t)
  <2>1. holder' = holder /\ waiters' = Append(waiters, u) /\ u # t
    BY <1>1, <1>5 DEF Acquire
  <2> QED BY <1>1, <1>2, <2>1, AppendBefore
<1>6. waiters # <<>> /\ Longest \in Queued(waiters) /\ Longest \in Tasks /\ Tail(waiters) \in Seq(Tasks)
  BY <1>1 DEF Longest, Queued
<1>7. ASSUME holder' = Longest, t # Longest,
             \A x \in Tasks : Before(waiters', x, t) => Before(Tail(waiters), x, t)
      PROVE  Ahead(t)' \subseteq Ahead(t) /\ holder \notin Ahead(t)'
  <2>1. t \in Queued(Tail(waiters))
    BY <1>1, <1>6, <1>7, TailQueue DEF Longest
  <2>2. Before(waiters, Longest, t)
    BY <1>1, <1>6, <2>1, TailBefore DEF Longest
  <2>3. \A x \in Tasks : Before(waiters', x, t) => Before(waiters, x, t) /\ x \in Queued(waiters)
    BY <1>1, <1>6, <1>7, TailBefore, BeforeQueued
  <2> QED BY <1>1, <1>6, <1>7, <2>2, <2>3 DEF Ahead
<1>8. ASSUME holder \in Tasks, Release(holder)
      PROVE  Ahead(t)' \subseteq Ahead(t) /\ holder \notin Ahead(t)'
  <2>1. holder' = Longest /\ waiters' = Tail(waiters) /\ t # Longest
    BY <1>1, <1>6, <1>8 DEF Release, LockTypeOK
  <2> QED BY <1>7, <2>1
<1>9. ASSUME holder \in Tasks, NEW requests, AcquireAgain(holder, requests)
      PROVE  Ahead(t)' \subseteq Ahead(t) /\ holder \notin Ahead(t)'
  <2>1. holder' = Longest /\ waiters' = Append(Tail(waiters), holder) /\ t # Longest
    BY <1>1, <1>6, <1>9 DEF AcquireAgain, LockTypeOK
  <2>2. t # holder
    BY <1>1
  <2> QED BY <1>6, <1>7, <1>9, <2>1, <2>2, AppendBefore
<1> QED BY <1>3, <1>4, <1>5, <1>8, <1>9 DEF LockSteps

-----------------------------------------------------------------------------
(* What a task that has begun still has to do.                             *)

\* A refresh reads something.
LEMMA ReadAllSome ==
  ASSUME NEW ext \in SUBSET Regs
  PROVE  ReadAll(ext) # <<>>
<1> DEFINE A == Reads(InputBatches)
           X == IF ext = {} THEN <<>> ELSE <<Reading(ext)>>
           H == Reads(HoldingBatches)
<1>1. A \in Seq(Request) /\ Len(A) = Len(InputBatches) /\ Len(InputBatches) \in Nat \ {0}
  BY CoordinatorAssumption, ReadsType
<1>2. H \in Seq(Request)
  BY CoordinatorAssumption, ReadsType
<1>3. X \in Seq(Request)
  BY ReadingType
<1>4. ReadAll(ext) = (A \o X) \o H
  BY DEF ReadAll
<1> HIDE DEF A, X, H
<1> DEFINE inputs == A \o X
<1>5. inputs \in Seq(Request) /\ Len(inputs) = Len(A) + Len(X) /\ Len(X) \in Nat /\ Len(H) \in Nat
  BY <1>1, <1>2, <1>3
<1> HIDE DEF inputs
<1>6. Len(inputs \o H) = Len(inputs) + Len(H)
  BY <1>2, <1>5
<1>7. inputs \o H # <<>>
  BY <1>1, <1>5, <1>6
<1> QED BY <1>4, <1>7 DEF inputs

\* What is left after the first request.
LEMMA TailElements ==
  ASSUME NEW S, NEW q \in Seq(S), Len(q) > 1
  PROVE  /\ Tail(q) # <<>>
         /\ \A i \in DOMAIN Tail(q) : i + 1 \in DOMAIN q /\ Tail(q)[i] = q[i + 1]
<1>1. /\ Len(q) \in Nat /\ DOMAIN q = 1..Len(q) /\ DOMAIN Tail(q) = 1..(Len(q) - 1)
      /\ \A i \in 1..(Len(q) - 1) : Tail(q)[i] = q[i + 1]
  OBVIOUS
<1>2. \A i \in 1..(Len(q) - 1) : i + 1 \in 1..Len(q)
  BY <1>1
<1> DEFINE rest == Tail(q)
<1>3. 1 \in DOMAIN rest
  BY <1>1
<1> HIDE DEF rest
<1>4. rest # <<>>
  BY <1>3
<1> QED BY <1>1, <1>2, <1>4 DEF rest

\* One read is a fitting request of every task that reads.
LEMMA OneReadFits ==
  ASSUME NEW batch
  PROVE  /\ <<Reading(batch)>> # <<>>
         /\ \A i \in DOMAIN <<Reading(batch)>> : <<Reading(batch)>>[i].op = "read"
<1>1. Reading(batch).op = "read"
  BY DEF Reading
<1> QED BY <1>1

\* A task that enters the lock.
LEMMA AcquireEngages ==
  ASSUME TypeInv, Engaged, NEW t \in Tasks, NEW task, NEW requests, task # "none",
         Acquire(t, requests), Start(t, task), Fits(t, task, requests)
  PROVE  Engaged'
<1>1. Others(t) /\ job'[t] = task /\ todo'[t] = requests
  BY AcquireBegins
<1>2. /\ \A u \in Tasks \ {t} : pc'[u] = pc[u]
      /\ pc'[t] \in {"connecting", "waiting"}
      /\ (holder' = t /\ pc'[t] = "connecting") \/ (holder' = holder /\ holder # NoTask)
  <2>1. CASE holder = NoTask
    BY <2>1 DEF Acquire, TypeInv, TypeOK, LockTypeOK
  <2>2. CASE holder # NoTask
    BY <2>2 DEF Acquire, TypeInv, TypeOK, LockTypeOK
  <2> QED BY <2>1, <2>2
<1>3. holder' # NoTask => pc'[holder'] \in {"connecting", "open"}
  <2>1. holder \in Tasks /\ holder # NoTask => holder # t
    BY DEF Engaged, Acquire
  <2> QED BY <1>2, <2>1 DEF Engaged, TypeInv, TypeOK, LockTypeOK
<1>4. \A u \in Tasks : (job'[u] = "none" <=> pc'[u] = "idle") /\ Fits(u, job'[u], todo'[u])
  BY <1>1, <1>2 DEF Engaged, Others
<1> QED BY <1>3, <1>4 DEF Engaged

\* A task that leaves it.
LEMMA ReleaseEngages ==
  ASSUME TypeInv, Orderly, Engaged, NEW t \in Tasks, t = holder, Release(t), Done(t)
  PROVE  Engaged'
<1>1. Others(t) /\ job'[t] = "none"
  BY ReleaseEnds DEF Ends
<1>2. pc[t] # "waiting" /\ NoTask \notin Tasks
  BY ModbusAssumption DEF Engaged
<1>3. /\ pc'[t] = "idle"
      /\ \A u \in Tasks \ {t} : pc'[u] = "idle" <=> pc[u] = "idle"
      /\ holder' # NoTask => pc'[holder'] \in {"connecting", "open"}
  <2>1. CASE waiters = <<>>
    BY <2>1 DEF Release, TypeInv, TypeOK, LockTypeOK
  <2>2. CASE waiters # <<>>
    <3>1. Longest \in Tasks /\ pc[Longest] = "waiting"
      BY <2>2 DEF TypeInv, TypeOK, LockTypeOK, Orderly, Queued, Longest
    <3> QED BY <1>2, <2>2, <3>1 DEF Release, TypeInv, TypeOK, LockTypeOK
  <2> QED BY <2>1, <2>2
<1>4. \A u \in Tasks : (job'[u] = "none" <=> pc'[u] = "idle") /\ Fits(u, job'[u], todo'[u])
  BY <1>1, <1>3 DEF Engaged, Others, Fits
<1> QED BY <1>3, <1>4 DEF Engaged

\* A task that leaves it for its next operation.
LEMMA AgainEngages ==
  ASSUME TypeInv, Orderly, Engaged, NEW t \in Tasks, t = holder, NEW task, NEW batch, task # "none",
         AcquireAgain(t, <<Reading(batch)>>), Start(t, task), Fits(t, task, <<Reading(batch)>>)
  PROVE  Engaged'
<1>1. Others(t) /\ job'[t] = task /\ todo'[t] = <<Reading(batch)>>
  BY AgainRepeats DEF Repeats
<1>2. pc[t] # "waiting" /\ NoTask \notin Tasks
  BY ModbusAssumption DEF Engaged
<1>3. /\ pc'[t] # "idle"
      /\ \A u \in Tasks \ {t} : pc'[u] = "idle" <=> pc[u] = "idle"
      /\ holder' # NoTask => pc'[holder'] \in {"connecting", "open"}
  <2>1. CASE waiters = <<>>
    BY <2>1 DEF AcquireAgain, TypeInv, TypeOK, LockTypeOK
  <2>2. CASE waiters # <<>>
    <3>1. Longest \in Tasks /\ pc[Longest] = "waiting"
      BY <2>2 DEF TypeInv, TypeOK, LockTypeOK, Orderly, Queued, Longest
    <3> QED BY <1>2, <2>2, <3>1 DEF AcquireAgain, TypeInv, TypeOK, LockTypeOK
  <2> QED BY <2>1, <2>2
<1>4. \A u \in Tasks : (job'[u] = "none" <=> pc'[u] = "idle") /\ Fits(u, job'[u], todo'[u])
  BY <1>1, <1>3 DEF Engaged, Others
<1> QED BY <1>3, <1>4 DEF Engaged

\* Every step leaves every task with something to do, or with nothing begun.
LEMMA EngagedStep == TypeInv /\ Orderly /\ Engaged /\ [Next]_vars => Engaged'
<1> SUFFICES ASSUME TypeInv, Orderly, Engaged, [Next]_vars PROVE Engaged'
  OBVIOUS
<1>1. Pollers \subseteq Tasks /\ Writers \subseteq Tasks /\ Probers \subseteq Tasks
  BY CoordinatorAssumption
<1>2. \A t \in Tasks : pc[t] \in {"connecting", "open"} => t = holder
  BY DEF TypeInv, HolderOnly
<1>3. CASE UNCHANGED <<holder, pc, job, todo>>
  BY <1>3 DEF Engaged
<1>4. ASSUME NEW t \in Tasks, Transfer(t) PROVE Engaged'
  <2>1. CASE Connect(t)
    BY <1>2, <1>4, <2>1 DEF Engaged, Connect, Transfer, coordVars, TypeInv, TypeOK, LockTypeOK
  <2>2. CASE ReadNext(t)
    <3>1. holder' = holder /\ pc' = pc /\ job' = job /\ todo' = [todo EXCEPT ![t] = Tail(todo[t])]
      BY <1>4, <2>2 DEF ReadNext, Transfer, coordVars
    <3>2. todo[t] \in Seq(Request) /\ Len(todo[t]) > 1 /\ pc[t] = "open" /\ todo[t] # <<>> /\ Head(todo[t]).op = "read"
      BY <2>2 DEF ReadNext, CanRead, TypeInv, TypeOK, LockTypeOK
    <3>3. /\ Tail(todo[t]) # <<>>
          /\ \A i \in DOMAIN Tail(todo[t]) : i + 1 \in DOMAIN todo[t] /\ Tail(todo[t])[i] = todo[t][i + 1]
      BY <3>2, TailElements
    <3>4. job[t] # "write"
      <4> SUFFICES ASSUME job[t] = "write" PROVE FALSE
        OBVIOUS
      <4>1. PICK r : todo[t] = <<Writing(r)>>
        BY DEF Engaged, Fits
      <4>2. Len(todo[t]) = 1
        BY <4>1
      <4> QED BY <3>2, <4>2
    <3>5. Fits(t, job[t], Tail(todo[t]))
      BY <3>3, <3>4 DEF Engaged, Fits
    <3> QED BY <3>1, <3>5 DEF Engaged, TypeInv, TypeOK, LockTypeOK
  <2> QED BY <1>4, <2>1, <2>2 DEF Transfer
<1>5. ASSUME NEW p \in Pollers, PollBegins(p) PROVE Engaged'
  <2>1. extension \in SUBSET Regs
    BY DEF TypeInv, TypeOK, CoordTypeOK
  <2>2. Fits(p, "poll", ReadAll(extension))
    BY <2>1, ReadAllSome, ReadAllCovers DEF Fits
  <2> QED BY <1>1, <1>5, <2>2, AcquireEngages DEF PollBegins
<1>6. ASSUME NEW p \in Pollers, PollSucceeds(p) \/ ExtensionRead(p) \/ ExtensionFails(p) \/ PollFails(p)
      PROVE  Engaged'
  BY <1>1, <1>2, <1>6, ReleaseEngages
     DEF PollSucceeds, ExtensionRead, ExtensionFails, PollFails, Publish, ReadLast, CanRead, Fails
<1>7. ASSUME NEW p \in Pollers, PollExtends(p) PROVE Engaged'
  <2>1. Fits(p, "extend", <<Reading(ChosenExtension(firmware))>>)
    BY OneReadFits DEF Fits
  <2> QED BY <1>1, <1>2, <1>7, <2>1, AgainEngages DEF PollExtends, ReadLast, CanRead
<1>8. ASSUME NEW w \in Writers, NEW r \in WritableRegs, WriteBegins(w, r) PROVE Engaged'
  <2>1. Fits(w, "write", <<Writing(r)>>)
    BY DEF Fits
  <2> QED BY <1>1, <1>8, <2>1, AcquireEngages DEF WriteBegins
<1>9. ASSUME NEW w \in Writers, NEW r \in Regs, WriteAcked(w, r) PROVE Engaged'
  <2>1. Fits(w, "confirm", <<Reading(BatchOf(r))>>)
    BY OneReadFits DEF Fits
  <2> QED BY <1>1, <1>2, <1>9, <2>1, AgainEngages DEF WriteAcked, WriteLast
<1>10. ASSUME NEW w \in Writers, WriteFails(w) \/ Confirmed(w) \/ ConfirmFails(w) PROVE Engaged'
  BY <1>1, <1>2, <1>10, ReleaseEngages DEF WriteFails, Confirmed, ConfirmFails, ReadLast, CanRead, Fails
<1>11. ASSUME NEW w \in Writers, WriteCancelled(w) PROVE Engaged'
  <2>1. CASE CancelInside(w)
    BY <1>1, <1>2, <1>11, <2>1, ReleaseEngages DEF WriteCancelled, CancelInside
  <2>2. CASE CancelWaiting(w)
    <3>1. /\ w \in Tasks /\ holder' = holder /\ w # holder
          /\ job' = [job EXCEPT ![w] = "none"] /\ pc' = [pc EXCEPT ![w] = "idle"]
          /\ \A u \in Tasks \ {w} : todo'[u] = todo[u]
      BY <1>1, <1>11, <2>2, ModbusAssumption
         DEF WriteCancelled, CancelWaiting, Done, Engaged, TypeInv, TypeOK, LockTypeOK
    <3>2. \A u \in Tasks \ {w} : job'[u] = job[u] /\ pc'[u] = pc[u] /\ todo'[u] = todo[u]
      BY <3>1 DEF TypeInv, TypeOK, LockTypeOK, CoordTypeOK
    <3>3. job'[w] = "none" /\ pc'[w] = "idle" /\ Fits(w, "none", todo'[w])
      BY <3>1 DEF Fits, TypeInv, TypeOK, LockTypeOK, CoordTypeOK
    <3>4. holder \in Tasks \cup {NoTask}
      BY DEF TypeInv, TypeOK, LockTypeOK
    <3> QED BY <3>1, <3>2, <3>3, <3>4 DEF Engaged
  <2> QED BY <1>11, <2>1, <2>2 DEF WriteCancelled
<1>12. ASSUME NEW o \in Probers, ProbeBegins(o) PROVE Engaged'
  <2>1. Fits(o, "probe", <<Reading(ProbeBatch)>>)
    BY OneReadFits DEF Fits
  <2> QED BY <1>1, <1>12, <2>1, AcquireEngages DEF ProbeBegins
<1>13. ASSUME NEW o \in Probers, ProbeEnds(o) PROVE Engaged'
  BY <1>1, <1>2, <1>13, ReleaseEngages DEF ProbeEnds, ReadLast, CanRead, Fails
<1>14. ASSUME NEW r \in Regs, DeviceChanges(r), UNCHANGED coordVars PROVE Engaged'
  BY <1>3, <1>14 DEF DeviceChanges, lockVars, coordVars
<1>15. ASSUME NEW v \in Versions, FirmwareChanges(v), UNCHANGED coordVars PROVE Engaged'
  BY <1>3, <1>15 DEF FirmwareChanges, lockVars, coordVars
<1>16. CASE UNCHANGED vars
  BY <1>3, <1>16 DEF vars, modbusVars, lockVars, coordVars
<1> QED
  BY <1>4, <1>5, <1>6, <1>7, <1>8, <1>9, <1>10, <1>11, <1>12, <1>13, <1>14, <1>15, <1>16
  DEF Next, PollStep, WriteStep

ProgressInv == TypeInv /\ Orderly /\ Engaged

LEMMA ProgressInvInit == Init => ProgressInv
<1>1. Init => Orderly
  BY DEF Init, ModbusInit, Orderly, Queued, Distinct
<1>2. Init => Engaged
  BY DEF Init, ModbusInit, Engaged, Fits
<1> QED BY <1>1, <1>2, TypeInit DEF ProgressInv

LEMMA ProgressInvStep == ProgressInv /\ [Next]_vars => ProgressInv'
  BY TypeStep, OrderlyStep, EngagedStep DEF ProgressInv

-----------------------------------------------------------------------------
(* The theorems.                                                           *)

\* Nobody overtakes a task that waits for the client's lock: those ahead of it
\* become fewer, and never come back.
THEOREM FirstComeFirstServedHolds == Spec => FirstComeFirstServed
<1>1. ProgressInv /\ [Next]_vars =>
        [\A t \in Tasks : pc[t] = "waiting" /\ pc'[t] = "waiting" =>
           Ahead(t)' \subseteq Ahead(t) /\ (holder' # holder => holder \notin Ahead(t)')]_vars
  BY LockKinds, AheadShrinks DEF ProgressInv
<1> QED BY <1>1, ProgressInvInit, ProgressInvStep, PTL DEF Spec, FirstComeFirstServed

\* Whatever has begun waits for a holder that can go on, or can go on itself: no
\* operation is left in a state for which the code has no continuation.
THEOREM NobodyIsStuckHolds == Spec => []NobodyIsStuck
<1>1. ProgressInv => NobodyIsStuck
  <2> SUFFICES ASSUME ProgressInv, NEW t \in Tasks, job[t] # "none"
               PROVE  /\ pc[t] = "waiting" \/ t = holder
                      /\ holder \in Tasks /\ CanGoOn(holder)
    BY DEF NobodyIsStuck
  <2>1. LockTypeOK /\ job[t] # "none" /\ pc[t] # "idle" /\ NoTask \notin Tasks
    BY ModbusAssumption DEF ProgressInv, TypeInv, TypeOK, Engaged
  <2>2. pc[t] = "waiting" \/ t = holder
    BY <2>1 DEF ProgressInv, TypeInv, HolderOnly, LockTypeOK
  <2>3. holder \in Tasks
    BY <2>1, <2>2 DEF ProgressInv, Orderly, Queued, LockTypeOK
  <2>4. pc[holder] \in {"connecting", "open"} /\ job[holder] # "none" /\ Fits(holder, job[holder], todo[holder])
    BY <2>1, <2>3 DEF ProgressInv, Engaged
  <2>5. CASE pc[holder] = "connecting"
    BY <2>2, <2>3, <2>5 DEF CanGoOn
  <2>6. CASE pc[holder] = "open" /\ job[holder] = "write"
    BY <2>2, <2>3, <2>4, <2>6 DEF CanGoOn, Fits
  <2>7. CASE pc[holder] = "open" /\ job[holder] # "write"
    <3>1. job[holder] \in {"poll", "extend", "confirm", "probe"}
      BY <2>3, <2>4, <2>7 DEF ProgressInv, TypeInv, TypeOK, CoordTypeOK
    <3>2. todo[holder] # <<>> /\ todo[holder] \in Seq(Request) /\ \A i \in DOMAIN todo[holder] : todo[holder][i].op = "read"
      BY <2>1, <2>3, <2>4, <2>7 DEF Fits, LockTypeOK
    <3>3. Head(todo[holder]).op = "read"
      BY <3>2
    <3>4. CanRead(holder) \/ MustFail(holder)
      BY <2>7, <3>2, <3>3 DEF CanRead, MustFail
    <3> QED BY <2>2, <2>3, <2>7, <3>1, <3>4 DEF CanGoOn
  <2> QED BY <2>2, <2>4, <2>5, <2>6, <2>7
<1> QED BY <1>1, ProgressInvInit, ProgressInvStep, PTL DEF Spec
=============================================================================
