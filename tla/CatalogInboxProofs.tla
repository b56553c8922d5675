-------------------------- MODULE CatalogInboxProofs --------------------------
(***************************************************************************)
(* What holds of CatalogInbox for every catalog, any number of workers and *)
(* any number of faults.                                                   *)
(***************************************************************************)
EXTENDS CatalogInbox, TLAPS

\* The events of a video are events.
LEMMA EventType ==
    ASSUME NEW v \in Videos, NEW i \in 1 .. Last(v)
    PROVE  Catalog[v][i] \in CatalogEvents
  BY CatalogAssumption DEF Last

\* The newest of a bounded set of positions is its greatest member.
LEMMA NewestUnique ==
    ASSUME NEW S, NEW m \in S, S \subseteq Nat, \A j \in S : j <= m
    PROVE  Newest(S) = m
<1>1. \A i \in S : (\A j \in S : j <= i) => i = m
  OBVIOUS
<1> QED
  BY <1>1 DEF Newest

\* What an event makes of a row is a row.
LEMMA PatchedType ==
    ASSUME NEW v \in Videos, NEW i \in 1 .. Last(v), NEW old \in [Fields -> Nat]
    PROVE  Patched(v, i, old) \in Rows
  BY EventType DEF Patched, Rows, CatalogEvents

\* The judgement on a row is a row or no change.
LEMMA ProjectedType ==
    ASSUME NEW v \in Videos, NEW i \in 1 .. Last(v), NEW current \in Rows \cup {None}
    PROVE  Projected(v, i, current) \in Rows \cup {None}
<1>1. [f \in Fields |-> 0] \in [Fields -> Nat]
  OBVIOUS
<1>2. current # None => current.fields \in [Fields -> Nat]
  BY DEF Rows
<1> QED
  BY <1>1, <1>2, PatchedType DEF Projected

-------------------------------------------------------------------------------
\* The inductive invariant: types, the order of the topic, the acknowledgements,
\* which let the next message through, and the work in hand.  Only what needs
\* one worker at a time on a video needs an ordering key.
IInv == TypeOK /\ TopicInOrder /\ JobsSound /\ AckedIsProcessed /\ JobsInOrder

\* Appending to a topic leaves its messages where they are.
LEMMA PublishKeeps ==
    ASSUME IInv, NEW v \in Videos, Publish(v)
    PROVE  /\ topic' \in [Videos -> Seq(Nat)] /\ tries' \in [Videos -> Seq(Nat)]
           /\ \A u \in Videos : /\ DOMAIN tries'[u] = DOMAIN topic'[u]
                                /\ \A p \in DOMAIN topic[u] :
                                      p \in DOMAIN topic'[u] /\ topic'[u][p] = topic[u][p]
           /\ \A u \in Videos : GivenUp(u)' = GivenUp(u)
<1>1. PICK i \in 1 .. Last(v) : topic' = [topic EXCEPT ![v] = Append(@, i)]
  BY DEF Publish
<1>2. i \in Nat /\ topic[v] \in Seq(Nat) /\ tries[v] \in Seq(Nat) /\ 0 \in Nat
  BY DEF IInv, TypeOK
<1>3. Append(topic[v], i) \in Seq(Nat) /\ Append(tries[v], 0) \in Seq(Nat)
  BY <1>2
<1>4. \A p \in DOMAIN topic[v] : p \in DOMAIN Append(topic[v], i) /\ Append(topic[v], i)[p] = topic[v][p]
  BY <1>2
<1>5. topic' \in [Videos -> Seq(Nat)] /\ tries' \in [Videos -> Seq(Nat)]
  BY <1>1, <1>3 DEF IInv, TypeOK, Publish
<1>6. DOMAIN Append(tries[v], 0) = DOMAIN Append(topic[v], i)
  <2>1. DOMAIN tries[v] = DOMAIN topic[v]
    BY DEF IInv, TopicInOrder
  <2>2. Len(tries[v]) = Len(topic[v])
    BY <1>2, <2>1
  <2> QED
    BY <1>2, <2>2
<1>7. \A u \in Videos : /\ DOMAIN tries'[u] = DOMAIN topic'[u]
                        /\ \A p \in DOMAIN topic[u] :
                              p \in DOMAIN topic'[u] /\ topic'[u][p] = topic[u][p]
  BY <1>1, <1>4, <1>6 DEF IInv, TypeOK, TopicInOrder, Publish
<1>8. \A u \in Videos : GivenUp(u)' = GivenUp(u)
  BY <1>7 DEF Publish, GivenUp, IInv, TopicInOrder
<1> QED
  BY <1>5, <1>7, <1>8

\* Counting a try of a message changes only the count.
LEMMA TryCounted ==
    ASSUME IInv, NEW v \in Videos, NEW p \in DOMAIN topic[v], tries' = [tries EXCEPT ![v][p] = @ + 1]
    PROVE  /\ tries' \in [Videos -> Seq(Nat)]
           /\ \A u \in Videos : DOMAIN tries'[u] = DOMAIN tries[u]
<1>1. tries[v] \in Seq(Nat) /\ p \in DOMAIN tries[v] /\ tries \in [Videos -> Seq(Nat)]
  BY DEF IInv, TypeOK, TopicInOrder
<1>2. tries[v][p] + 1 \in Nat
  BY <1>1
<1>3. [tries[v] EXCEPT ![p] = tries[v][p] + 1] \in Seq(Nat)
  BY <1>1, <1>2
<1>4. tries' = [tries EXCEPT ![v] = [tries[v] EXCEPT ![p] = tries[v][p] + 1]]
  OBVIOUS
<1> QED
  BY <1>1, <1>3, <1>4

\* The event a worker handles is one of its video's.
LEMMA JobType ==
    ASSUME IInv, NEW w \in Workers, job[w] # None
    PROVE  /\ job[w] \in Jobs /\ job[w].video \in Videos
           /\ job[w].pos \in DOMAIN topic[job[w].video]
           /\ Event(job[w]) \in 1 .. Last(job[w].video)
<1>1. job[w] \in Jobs /\ job[w].video \in Videos
  BY DEF IInv, TypeOK, Jobs
<1> QED
  BY <1>1 DEF IInv, JobsSound, JobSound, TopicInOrder, Event

\* Whatever is delivered, judged and written, every variable keeps its type.
LEMMA TypeStep == IInv /\ [Next]_vars => TypeOK'
<1> SUFFICES ASSUME IInv, [Next]_vars PROVE TypeOK'
  OBVIOUS
<1> USE DEF IInv
<1>1. ASSUME NEW v \in Videos, Publish(v) PROVE TypeOK'
  BY <1>1, PublishKeeps DEF TypeOK, Publish
<1>1a. ASSUME NEW v \in Videos, DeadLetter(v) PROVE TypeOK'
  BY <1>1a DEF TypeOK, DeadLetter, Outstanding
<1>2. ASSUME NEW v \in Videos, LoseAck(v) PROVE TypeOK'
  <2>1. PICK p \in acked[v] : tries' = [tries EXCEPT ![v][p] = @ + 1]
    BY <1>2 DEF LoseAck
  <2>2. p \in DOMAIN topic[v]
    BY DEF TopicInOrder
  <2>3. acked' \in [Videos -> SUBSET Nat]
    BY <1>2 DEF TypeOK, LoseAck
  <2>4. tries' \in [Videos -> Seq(Nat)]
    BY <2>1, <2>2, TryCounted
  <2> QED
    BY <1>2, <2>3, <2>4 DEF TypeOK, LoseAck
<1>3. ASSUME NEW v \in Videos, NEW p \in DOMAIN topic[v], Receive(v, p) PROVE TypeOK'
  <2>1. p \in Nat
    BY DEF TypeOK
  <2>2. [video |-> v, pos |-> p, step |-> "insert", row |-> None] \in Jobs
    BY <2>1 DEF Jobs, Steps
  <2> QED
    BY <1>3, <2>2 DEF TypeOK, Receive, broker
<1>4. ASSUME NEW w \in Workers, NEW step \in Steps, job[w] # None, Goto(w, step)
      PROVE  job' \in [Workers -> Jobs \cup {None}]
  BY <1>4 DEF Goto, TypeOK, Jobs
<1>5. ASSUME NEW w \in Workers, InsertInbox(w) PROVE TypeOK'
  BY <1>5, <1>4 DEF InsertInbox, At, TypeOK, Steps, broker
<1>6. ASSUME NEW w \in Workers, Reject(w) \/ Fail(w) PROVE TypeOK'
  <2>1. job' \in [Workers -> Jobs \cup {None}]
    BY <1>6 DEF Reject, Fail, Return, TypeOK
  <2>2. tries' \in [Videos -> Seq(Nat)]
    BY <1>6, JobType, TryCounted DEF Reject, Fail, Return, At
  <2> QED
    BY <1>6, <2>1, <2>2 DEF Reject, Fail, TypeOK
<1>7. ASSUME NEW w \in Workers, Judge(w) PROVE TypeOK'
  <2> DEFINE row == Projected(job[w].video, Event(job[w]), projection[job[w].video])
  <2>1. row \in Rows \cup {None}
    BY <1>7, JobType, ProjectedType DEF Judge, At, TypeOK
  <2>2. job[w] \in Jobs
    BY <1>7, JobType DEF Judge, At
  <2>3. job' \in [Workers -> Jobs \cup {None}]
    BY <1>7, <2>1, <2>2 DEF Judge, Jobs, Steps, TypeOK
  <2> QED
    BY <1>7, <2>3 DEF Judge, TypeOK, broker
<1>8. ASSUME NEW w \in Workers, Upsert(w) PROVE TypeOK'
  BY <1>8, <1>4 DEF Upsert, At, TypeOK, Steps, broker
<1>9. ASSUME NEW w \in Workers, Commit(w) PROVE TypeOK'
  <2>1. job[w] \in Jobs /\ job[w].video \in Videos /\ Event(job[w]) \in Nat
    BY <1>9, JobType DEF Commit, At
  <2>2. projection' \in [Videos -> Rows \cup {None}]
    BY <1>9, <2>1 DEF Commit, TypeOK, Jobs
  <2>3. inbox' \in [Videos -> SUBSET Nat]
    BY <1>9, <2>1 DEF Commit, TypeOK
  <2> QED
    BY <1>9, <1>4, <2>2, <2>3 DEF Commit, At, TypeOK, Steps, broker
<1>10. ASSUME NEW w \in Workers, Ack(w) PROVE TypeOK'
  <2>1. job[w] \in Jobs /\ job[w].video \in Videos /\ job[w].pos \in Nat
    BY <1>10, JobType DEF Ack, At, Jobs
  <2> QED
    BY <1>10, <2>1 DEF Ack, TypeOK
<1>11. CASE Idle \/ UNCHANGED vars
  BY <1>11 DEF Idle, vars, broker, TypeOK
<1> QED
  BY <1>1, <1>1a, <1>2, <1>3, <1>5, <1>6, <1>7, <1>8, <1>9, <1>10, <1>11 DEF Next, Work

\* The catalog publishes an event only after those before it.
LEMMA OrderStep == IInv /\ [Next]_vars => TopicInOrder'
<1> SUFFICES ASSUME IInv, [Next]_vars PROVE TopicInOrder'
  OBVIOUS
<1>1. ASSUME NEW v \in Videos, Publish(v) PROVE TopicInOrder'
  <2>1. PICK i \in 1 .. Last(v) : /\ 1 .. i - 1 \subseteq Published(v)
                                  /\ topic' = [topic EXCEPT ![v] = Append(@, i)]
    BY <1>1 DEF Publish
  <2>2. topic[v] \in Seq(Nat) /\ topic \in [Videos -> Seq(Nat)]
    BY DEF IInv, TypeOK
  <2>3. \A j \in 1 .. i - 1 : \E q \in 1 .. Len(topic[v]) : topic[v][q] = j
    BY <2>1, <2>2 DEF Published
  <2>4. ASSUME NEW u \in Videos
        PROVE  /\ acked'[u] \subseteq DOMAIN topic'[u] /\ dead'[u] \subseteq DOMAIN topic'[u]
               /\ \A p \in DOMAIN topic'[u] :
                    /\ topic'[u][p] \in 1 .. Last(u)
                    /\ \A j \in 1 .. topic'[u][p] - 1 : \E q \in 1 .. p - 1 : topic'[u][q] = j
    <3>1. acked' = acked /\ dead' = dead
      BY <1>1 DEF Publish
    <3>2. CASE u # v
      BY <2>1, <2>2, <3>1, <3>2 DEF IInv, TopicInOrder
    <3>3. CASE u = v
      <4>1. /\ topic'[v] = Append(topic[v], i) /\ DOMAIN topic'[v] = 1 .. Len(topic[v]) + 1
            /\ DOMAIN topic[v] = 1 .. Len(topic[v]) /\ Len(topic[v]) \in Nat
            /\ \A q \in 1 .. Len(topic[v]) : topic'[v][q] = topic[v][q]
            /\ topic'[v][Len(topic[v]) + 1] = i
        BY <2>1, <2>2
      <4>2. acked[v] \subseteq DOMAIN topic'[v] /\ dead[v] \subseteq DOMAIN topic'[v]
        BY <4>1 DEF IInv, TopicInOrder
      <4>3. ASSUME NEW p \in 1 .. Len(topic[v])
            PROVE  /\ topic'[v][p] \in 1 .. Last(v)
                   /\ \A j \in 1 .. topic'[v][p] - 1 : \E q \in 1 .. p - 1 : topic'[v][q] = j
        <5>1. /\ topic[v][p] \in 1 .. Last(v)
              /\ \A j \in 1 .. topic[v][p] - 1 : \E q \in 1 .. p - 1 : topic[v][q] = j
          BY <4>1 DEF IInv, TopicInOrder
        <5>2. \A q \in 1 .. p - 1 : topic'[v][q] = topic[v][q]
          BY <4>1
        <5> QED
          BY <4>1, <5>1, <5>2
      <4>4. \A j \in 1 .. i - 1 : \E q \in 1 .. Len(topic[v]) : topic'[v][q] = j
        BY <2>3, <4>1
      <4>5. ASSUME NEW p \in DOMAIN topic'[v]
            PROVE  /\ topic'[v][p] \in 1 .. Last(v)
                   /\ \A j \in 1 .. topic'[v][p] - 1 : \E q \in 1 .. p - 1 : topic'[v][q] = j
        <5>1. CASE p \in 1 .. Len(topic[v])
          BY <4>3, <5>1
        <5>2. CASE p = Len(topic[v]) + 1
          <6>1. topic'[v][p] = i /\ p - 1 = Len(topic[v])
            BY <4>1, <5>2
          <6>2. topic'[v][p] \in 1 .. Last(v)
            BY <6>1
          <6>3. \A j \in 1 .. topic'[v][p] - 1 : \E q \in 1 .. p - 1 : topic'[v][q] = j
            BY <4>4, <6>1
          <6> QED
            BY <6>2, <6>3
        <5>3. p \in 1 .. Len(topic[v]) \/ p = Len(topic[v]) + 1
          BY <4>1
        <5> QED
          BY <5>1, <5>2, <5>3
      <4> QED
        BY <3>1, <3>3, <4>2, <4>5
    <3> QED
      BY <3>2, <3>3
  <2> QED
    BY <1>1, <2>4, PublishKeeps DEF TopicInOrder
<1>2. ASSUME topic' = topic, \A v \in Videos : DOMAIN tries'[v] = DOMAIN tries[v],
             \A v \in Videos : acked'[v] \subseteq DOMAIN topic[v] /\ dead'[v] \subseteq DOMAIN topic[v]
      PROVE  TopicInOrder'
  BY <1>2 DEF IInv, TopicInOrder
<1>3. ASSUME NEW v \in Videos, LoseAck(v) PROVE TopicInOrder'
  <2>1. PICK p \in acked[v] : tries' = [tries EXCEPT ![v][p] = @ + 1]
    BY <1>3 DEF LoseAck
  <2>2. \A u \in Videos : DOMAIN tries'[u] = DOMAIN tries[u]
    BY <2>1, TryCounted DEF IInv, TopicInOrder
  <2>3. \A u \in Videos : acked'[u] \subseteq acked[u]
    BY <1>3 DEF LoseAck, IInv, TypeOK
  <2> QED
    BY <1>2, <1>3, <2>2, <2>3 DEF LoseAck, IInv, TopicInOrder
<1>4. ASSUME NEW w \in Workers, Ack(w) PROVE TopicInOrder'
  <2>1. job[w] \in Jobs /\ job[w].video \in Videos /\ job[w].pos \in DOMAIN topic[job[w].video]
    BY <1>4, JobType DEF Ack, At
  <2> QED
    BY <1>4, <2>1 DEF Ack, IInv, TypeOK, TopicInOrder
<1>5. ASSUME NEW v \in Videos, DeadLetter(v) PROVE TopicInOrder'
  BY <1>5 DEF DeadLetter, Outstanding, IInv, TypeOK, TopicInOrder
<1>6. ASSUME NEW w \in Workers, Reject(w) \/ Fail(w) PROVE TopicInOrder'
  <2>1. \A u \in Videos : DOMAIN tries'[u] = DOMAIN tries[u]
    BY <1>6, JobType, TryCounted DEF Reject, Fail, Return, At
  <2> QED
    BY <1>2, <1>6, <2>1 DEF Reject, Fail, IInv, TopicInOrder
<1>7. ASSUME UNCHANGED broker PROVE TopicInOrder'
  BY <1>7 DEF broker, IInv, TopicInOrder
<1> QED
  BY <1>1, <1>3, <1>4, <1>5, <1>6, <1>7
  DEF Next, Work, Receive, InsertInbox, Judge, Upsert, Commit, Idle, vars

\* No step but the dead-lettering of a message of its video gives an event up, and
\* none takes that back.
LEMMA GivenUpKept ==
    ASSUME IInv, [Next]_vars, NEW u \in Videos
    PROVE  /\ GivenUp(u) \subseteq GivenUp(u)'
           /\ ~DeadLetter(u) => GivenUp(u)' = GivenUp(u)
<1>1. ASSUME NEW v \in Videos, Publish(v) PROVE GivenUp(u)' = GivenUp(u)
  BY <1>1, PublishKeeps
<1>2. ASSUME NEW v \in Videos, DeadLetter(v)
      PROVE  GivenUp(u) \subseteq GivenUp(u)' /\ (u # v => GivenUp(u)' = GivenUp(u))
  BY <1>2 DEF DeadLetter, GivenUp, IInv, TypeOK
<1>3. ASSUME UNCHANGED <<topic, dead>> PROVE GivenUp(u)' = GivenUp(u)
  BY <1>3 DEF GivenUp
<1> QED
  BY <1>1, <1>2, <1>3
  DEF Next, LoseAck, Work, Receive, InsertInbox, Reject, Judge, Upsert, Commit, Ack, Fail, Idle, vars, broker

\* What a step of a worker leaves alone.
LEMMA WorkKeeps ==
    ASSUME IInv, NEW w \in Workers, Work(w) \/ Fail(w)
    PROVE  /\ job[w] # None /\ topic' = topic /\ dead' = dead
           /\ \A x \in Workers \ {w} : job'[x] = job[x]
           /\ \A v \in Videos : inbox[v] \subseteq inbox'[v]
           /\ \A v \in Videos \ {job[w].video} : inbox'[v] = inbox[v] /\ projection'[v] = projection[v]
<1>1. CASE Commit(w)
  BY <1>1, JobType DEF Commit, At, Goto, broker, IInv, TypeOK
<1>2. CASE ~Commit(w)
  BY <1>2 DEF Work, InsertInbox, Reject, Judge, Upsert, Ack, Fail, At, Goto, Return, broker, IInv, TypeOK
<1> QED
  BY <1>1, <1>2

\* A worker stays with the video of his message until he is done with it.
LEMMA WorkKeepsVideo ==
    ASSUME IInv, NEW w \in Workers, Work(w) \/ Fail(w)
    PROVE  \A x \in Workers : job'[x] # None => job[x] # None /\ job'[x].video = job[x].video
<1>1. job[w] # None /\ \A x \in Workers \ {w} : job'[x] = job[x]
  BY WorkKeeps
<1>2. job[w] \in Jobs
  BY <1>1, JobType
<1>3. ASSUME NEW step, Goto(w, step) PROVE job'[w].video = job[w].video
  BY <1>2, <1>3 DEF Goto, IInv, TypeOK, Jobs
<1>4. CASE Judge(w)
  BY <1>1, <1>2, <1>4 DEF Judge, IInv, TypeOK, Jobs
<1>5. CASE Reject(w) \/ Ack(w) \/ Fail(w)
  BY <1>1, <1>5 DEF Reject, Ack, Fail, Return, IInv, TypeOK
<1> QED
  BY <1>1, <1>3, <1>4, <1>5 DEF Work, InsertInbox, Upsert, Commit

\* A worker holds a message of the topic, and acknowledges what is processed.
LEMMA SoundStep == IInv /\ [Next]_vars => JobsSound'
<1> SUFFICES ASSUME IInv, [Next]_vars, NEW w \in Workers, job'[w] # None PROVE JobSound(w)'
  BY DEF JobsSound
<1>1. ASSUME job[w] # None, job'[w] = job[w],
             \A p \in DOMAIN topic[job[w].video] :
                 /\ p \in DOMAIN topic'[job[w].video]
                 /\ topic'[job[w].video][p] = topic[job[w].video][p],
             inbox[job[w].video] \subseteq inbox'[job[w].video]
      PROVE  JobSound(w)'
  BY <1>1 DEF IInv, JobsSound, JobSound, Event
<1>2. ASSUME NEW v \in Videos, Publish(v) PROVE JobSound(w)'
  BY <1>1, <1>2, PublishKeeps, JobType DEF Publish
<1>3. ASSUME NEW v \in Videos, LoseAck(v) \/ DeadLetter(v) PROVE JobSound(w)'
  BY <1>1, <1>3 DEF LoseAck, DeadLetter
<1>4. ASSUME NEW v \in Videos, NEW p \in DOMAIN topic[v], Receive(v, p) PROVE JobSound(w)'
  <2>1. PICK x \in Workers : job' = [job EXCEPT ![x] = [video |-> v, pos |-> p, step |-> "insert", row |-> None]]
    BY <1>4 DEF Receive
  <2>2. CASE w # x
    BY <1>1, <1>4, <2>1, <2>2 DEF Receive, IInv, TypeOK, broker
  <2>3. CASE w = x
    BY <1>4, <2>1, <2>3 DEF Receive, JobSound, IInv, TypeOK, broker
  <2> QED
    BY <2>2, <2>3
<1>5. ASSUME NEW x \in Workers, x # w, Work(x) \/ Fail(x) PROVE JobSound(w)'
  <2>1. topic' = topic /\ job'[w] = job[w]
    BY <1>5, WorkKeeps
  <2>2. \A v \in Videos : inbox[v] \subseteq inbox'[v]
    BY <1>5, WorkKeeps
  <2> QED
    BY <1>1, <2>1, <2>2, JobType
<1>6. ASSUME Work(w) \/ Fail(w) PROVE JobSound(w)'
  <2>1. job[w] # None /\ topic' = topic
    BY <1>6, WorkKeeps
  <2>2. /\ job[w] \in Jobs /\ job[w].video \in Videos
        /\ job[w].pos \in DOMAIN topic[job[w].video]
    BY <2>1, JobType
  <2>3. ASSUME NEW step, Goto(w, step)
        PROVE  job'[w].video = job[w].video /\ job'[w].pos = job[w].pos /\ job'[w].step = step
    BY <2>2, <2>3 DEF Goto, IInv, TypeOK, Jobs
  <2>4. CASE InsertInbox(w)
    BY <2>1, <2>2, <2>3, <2>4 DEF InsertInbox, JobSound, Event
  <2>5. CASE Judge(w)
    <3>1. /\ job'[w].video = job[w].video /\ job'[w].pos = job[w].pos
          /\ job'[w].step \in {"commit", "upsert"}
      BY <2>2, <2>5 DEF Judge, IInv, TypeOK, Jobs
    <3> QED
      BY <2>1, <2>2, <3>1 DEF JobSound
  <2>6. CASE Upsert(w)
    BY <2>1, <2>2, <2>3, <2>6 DEF Upsert, JobSound
  <2>7. CASE Commit(w)
    <3>1. Event(job[w]) \in inbox'[job[w].video]
      BY <2>2, <2>7 DEF Commit, IInv, TypeOK
    <3> QED
      BY <2>1, <2>2, <2>3, <2>7, <3>1 DEF Commit, JobSound, Event
  <2>8. CASE Reject(w) \/ Ack(w) \/ Fail(w)
    BY <2>8 DEF Reject, Ack, Fail, Return, IInv, TypeOK
  <2> QED
    BY <1>6, <2>4, <2>5, <2>6, <2>7, <2>8 DEF Work
<1>7. CASE Idle \/ UNCHANGED vars
  BY <1>1, <1>7 DEF Idle, vars, broker
<1> QED
  BY <1>2, <1>3, <1>4, <1>5, <1>6, <1>7 DEF Next

\* Nobody else's step disturbs a worker: it leaves his messages, the marks of his
\* video and its projection alone.
LEMMA JobKept ==
    ASSUME IInv, [Next]_vars, NEW w \in Workers, job[w] # None, job'[w] = job[w],
           job[w].video \in Keyed,
           \A p \in DOMAIN topic[job[w].video] :
               /\ p \in DOMAIN topic'[job[w].video]
               /\ topic'[job[w].video][p] = topic[job[w].video][p],
           inbox'[job[w].video] = inbox[job[w].video],
           projection'[job[w].video] = projection[job[w].video]
    PROVE  JobInOrder(w)'
<1>1. PICK v \in Videos : v = job[w].video
  BY JobType
<1>2. job[w].pos \in DOMAIN topic[v]
  BY <1>1, JobType
<1>3. GivenUp(v) \subseteq GivenUp(v)'
  BY GivenUpKept
<1>4. Event(job[w])' = Event(job[w]) /\ Broken(w)' = Broken(w) /\ job'[w].video = v
  BY <1>1, <1>2 DEF Event, Broken
<1>5. 1 .. Event(job[w]) - 1 \subseteq inbox'[v] \cup GivenUp(v)'
  BY <1>1, <1>3 DEF IInv, JobsInOrder, JobInOrder
<1>6. GivenUp(job[w].video)' = GivenUp(v)'
  BY <1>4 DEF GivenUp
<1> QED
  BY <1>1, <1>4, <1>5, <1>6 DEF IInv, JobsInOrder, JobInOrder

\* A delivered message is handled with every earlier event processed or given up.
LEMMA JobStep ==
    IInv /\ [Next]_vars =>
        \A w \in Workers : job'[w] # None /\ job'[w].video \in Keyed => JobInOrder(w)'
<1> SUFFICES ASSUME IInv, [Next]_vars, NEW w \in Workers, job'[w] # None, job'[w].video \in Keyed
             PROVE  JobInOrder(w)'
  OBVIOUS
<1> USE DEF IInv
<1>1. ASSUME NEW v \in Videos, Publish(v) PROVE JobInOrder(w)'
  BY <1>1, PublishKeeps, JobKept, JobType DEF Publish
<1>2. ASSUME NEW v \in Videos, LoseAck(v) \/ DeadLetter(v) PROVE JobInOrder(w)'
  BY <1>2, JobKept DEF LoseAck, DeadLetter
<1>3. ASSUME NEW v \in Videos, NEW p \in DOMAIN topic[v], Receive(v, p) PROVE JobInOrder(w)'
  <2>1. PICK x \in Workers : job' = [job EXCEPT ![x] = [video |-> v, pos |-> p, step |-> "insert", row |-> None]]
    BY <1>3 DEF Receive
  <2>2. CASE w # x
    BY <1>3, <2>1, <2>2, JobKept DEF Receive, TypeOK, broker
  <2>3. CASE w = x
    <3>1. job'[w] = [video |-> v, pos |-> p, step |-> "insert", row |-> None]
      BY <2>1, <2>3 DEF TypeOK
    <3>2. p \in Nat /\ topic[v][p] \in 1 .. Last(v) /\ DOMAIN topic[v] = 1 .. Len(topic[v])
      BY DEF TypeOK, TopicInOrder
    <3>3. \A i \in 1 .. topic[v][p] - 1 : \E q \in 1 .. p - 1 : topic[v][q] = i
      BY DEF TopicInOrder
    <3>4. \A q \in 1 .. p - 1 : q \in acked[v] \cup dead[v]
      BY <1>3, <3>1, <3>2 DEF Receive, Deliverable, Outstanding
    <3>5. \A q \in 1 .. p - 1 : topic[v][q] \in inbox[v] \cup GivenUp(v)
      BY <3>4 DEF AckedIsProcessed, GivenUp
    <3>6. 1 .. topic[v][p] - 1 \subseteq inbox[v] \cup GivenUp(v)
      BY <3>3, <3>5
    <3>7. GivenUp(v)' = GivenUp(v) /\ inbox' = inbox /\ topic' = topic
      BY <1>3 DEF Receive, GivenUp, broker
    <3> QED
      BY <3>1, <3>6, <3>7 DEF JobInOrder, Event, GivenUp
  <2> QED
    BY <2>2, <2>3
<1>4. ASSUME NEW x \in Workers, x # w, Work(x) \/ Fail(x) PROVE JobInOrder(w)'
  <2>1. job[x] # None /\ job'[w] = job[w] /\ topic' = topic
    BY <1>4, WorkKeeps
  <2>2. job[x].video # job[w].video
    BY <1>4, <2>1 DEF JobsInOrder
  <2>3. inbox'[job[w].video] = inbox[job[w].video] /\ projection'[job[w].video] = projection[job[w].video]
    BY <1>4, <2>1, <2>2, WorkKeeps, JobType
  <2> QED
    BY <2>1, <2>3, JobKept
<1>5. ASSUME Work(w) \/ Fail(w) PROVE JobInOrder(w)'
  <2>0. job[w] # None /\ topic' = topic /\ dead' = dead
    BY <1>5, WorkKeeps
  <2>1. PICK v \in Keyed, i \in Nat : v \in Videos /\ v = job[w].video /\ i = Event(job[w])
    BY <1>5, <2>0, WorkKeepsVideo, JobType
  <2>2. /\ job[w] \in Jobs /\ v \in Keyed /\ v \in Videos /\ i \in Nat
        /\ 1 .. i - 1 \subseteq inbox[v] \cup GivenUp(v) /\ inbox[v] \subseteq inbox'[v]
    BY <1>5, <2>0, <2>1, WorkKeeps, JobType DEF JobsInOrder, JobInOrder
  <2>3. GivenUp(v)' = GivenUp(v)
    BY <2>0 DEF GivenUp
  <2>4. ASSUME job'[w].video = v, job'[w].pos = job[w].pos,
               job'[w].step \in {"judge", "upsert", "commit"} => i \notin inbox'[v],
               job'[w].step \in {"upsert", "commit"} =>
                   ~Broken(w) /\ job'[w].row = Projected(v, i, projection'[v])
        PROVE  JobInOrder(w)'
    <3>1. Event(job[w])' = i /\ (job[w].video)' = v /\ (Broken(w))' = Broken(w)
      BY <2>0, <2>1, <2>4 DEF Event, Broken
    <3>2. 1 .. i - 1 \subseteq inbox'[v] \cup GivenUp(v)'
      BY <2>2, <2>3
    <3>3. (GivenUp(job[w].video))' = GivenUp(v)
      BY <2>0, <2>4 DEF GivenUp
    <3> QED
      BY <2>2, <2>4, <3>1, <3>2, <3>3 DEF JobInOrder
  <2>5. ASSUME NEW step, Goto(w, step)
        PROVE  /\ job'[w].video = v /\ job'[w].pos = job[w].pos
               /\ job'[w].step = step /\ job'[w].row = job[w].row
    BY <2>1, <2>2, <2>5 DEF Goto, TypeOK, Jobs
  <2>6. CASE InsertInbox(w)
    BY <2>1, <2>4, <2>5, <2>6 DEF InsertInbox
  <2>7. CASE Judge(w)
    <3>1. /\ job'[w].video = v /\ job'[w].pos = job[w].pos
          /\ job'[w].row = Projected(v, i, projection[v]) /\ job'[w].step \in {"commit", "upsert"}
      BY <2>1, <2>2, <2>7 DEF Judge, TypeOK, Jobs
    <3>2. i \notin inbox[v] /\ ~Broken(w)
      BY <2>1, <2>7 DEF Judge, At, JobsInOrder, JobInOrder
    <3> QED
      BY <2>4, <2>7, <3>1, <3>2 DEF Judge
  <2>8. CASE Upsert(w)
    <3>1. i \notin inbox[v] /\ ~Broken(w) /\ job[w].row = Projected(v, i, projection[v])
      BY <2>1, <2>8 DEF Upsert, At, JobsInOrder, JobInOrder
    <3> QED
      BY <2>4, <2>5, <2>8, <3>1 DEF Upsert
  <2>9. CASE Commit(w)
    BY <2>4, <2>5, <2>9 DEF Commit
  <2>10. CASE Reject(w) \/ Ack(w) \/ Fail(w)
    BY <2>10 DEF Reject, Ack, Fail, Return, TypeOK
  <2> QED
    BY <1>5, <2>6, <2>7, <2>8, <2>9, <2>10 DEF Work
<1>6. CASE Idle \/ UNCHANGED vars
  BY <1>6, JobKept DEF Idle, vars, broker
<1> QED
  BY <1>1, <1>2, <1>3, <1>4, <1>5, <1>6 DEF Next

\* At most one worker handles a video.
LEMMA OneWorkerStep ==
    IInv /\ [Next]_vars =>
        \A w, x \in Workers : w # x /\ job'[w] # None /\ job'[x] # None /\ job'[w].video \in Keyed
                                => job'[w].video # job'[x].video
<1> SUFFICES ASSUME IInv, [Next]_vars
             PROVE  \A w, x \in Workers :
                        w # x /\ job'[w] # None /\ job'[x] # None /\ job'[w].video \in Keyed
                            => job'[w].video # job'[x].video
  OBVIOUS
<1> USE DEF IInv, JobsInOrder
<1>1. ASSUME NEW v \in Videos, NEW p \in DOMAIN topic[v], Receive(v, p)
      PROVE  \A w, x \in Workers :
                 w # x /\ job'[w] # None /\ job'[x] # None /\ job'[w].video \in Keyed
                     => job'[w].video # job'[x].video
  <2>1. PICK y \in Workers : job' = [job EXCEPT ![y] = [video |-> v, pos |-> p, step |-> "insert", row |-> None]]
    BY <1>1 DEF Receive
  <2>2. v \in Keyed => \A x \in Workers : job[x] # None => job[x].video # v
    BY <1>1 DEF Receive, Deliverable, InHand
  <2>3. /\ job'[y].video = v
        /\ \A x \in Workers \ {y} : job'[x] = job[x]
    BY <2>1 DEF TypeOK
  <2> QED
    BY <2>2, <2>3
<1>2. ASSUME \A w \in Workers : job'[w] # None => job[w] # None /\ job'[w].video = job[w].video
      PROVE  \A w, x \in Workers :
                 w # x /\ job'[w] # None /\ job'[x] # None /\ job'[w].video \in Keyed
                     => job'[w].video # job'[x].video
  BY <1>2
<1>3. ASSUME NEW w \in Workers, Work(w) \/ Fail(w)
      PROVE  \A x \in Workers : job'[x] # None => job[x] # None /\ job'[x].video = job[x].video
  BY <1>3, WorkKeepsVideo
<1> QED
  BY <1>1, <1>2, <1>3 DEF Next, Publish, LoseAck, DeadLetter, Idle, vars

\* What is acknowledged is processed: after the commit, and not before it.
LEMMA AckStep == IInv /\ [Next]_vars => AckedIsProcessed'
<1> SUFFICES ASSUME IInv, [Next]_vars PROVE AckedIsProcessed'
  OBVIOUS
<1> USE DEF IInv
<1>1. ASSUME NEW v \in Videos, Publish(v) PROVE AckedIsProcessed'
  BY <1>1, PublishKeeps DEF Publish, AckedIsProcessed, TopicInOrder
<1>2. ASSUME NEW v \in Videos, LoseAck(v) PROVE AckedIsProcessed'
  BY <1>2 DEF LoseAck, AckedIsProcessed, TypeOK
<1>3. ASSUME NEW w \in Workers, Ack(w) PROVE AckedIsProcessed'
  <2>1. job[w] \in Jobs /\ Event(job[w]) \in inbox[job[w].video]
    BY <1>3, JobType DEF Ack, At, JobsSound, JobSound
  <2> QED
    BY <1>3, <2>1 DEF Ack, AckedIsProcessed, TypeOK, Event
<1>4. ASSUME NEW w \in Workers, Commit(w) PROVE AckedIsProcessed'
  BY <1>4, WorkKeeps DEF Commit, Work, AckedIsProcessed, TypeOK, broker
<1>5. ASSUME UNCHANGED <<topic, acked, inbox>> PROVE AckedIsProcessed'
  BY <1>5 DEF AckedIsProcessed
<1> QED
  BY <1>1, <1>2, <1>3, <1>4, <1>5
  DEF Next, Work, DeadLetter, Receive, InsertInbox, Reject, Judge, Upsert, Fail, Idle, vars, broker

\* The invariant holds from the start and through every step.
LEMMA Inductive == Spec => []IInv
<1>1. Init => IInv
  BY CatalogAssumption
  DEF Init, IInv, TypeOK, TopicInOrder, JobsSound, JobsInOrder, AckedIsProcessed
<1>2. IInv /\ [Next]_vars => IInv'
  BY TypeStep, OrderStep, SoundStep, JobStep, OneWorkerStep, AckStep DEF IInv, JobsInOrder
<1> QED
  BY <1>1, <1>2, PTL DEF Spec

\* Every variable keeps its type, with an ordering key and without: a row has every
\* column, although an event gives only some.
THEOREM TypeCorrect == Spec => []TypeOK
  BY Inductive, PTL DEF IInv

\* No failure, crash or lost acknowledgement loses an event, with an ordering key
\* and without: what was acknowledged is in the inbox.
THEOREM AckedIsProcessedCorrect == Spec => []AckedIsProcessed
  BY Inductive, PTL DEF IInv

-------------------------------------------------------------------------------
\* An event that comes after those of S makes of the state after S the state after
\* S and itself.
LEMMA JudgedByThePreceding ==
    ASSUME NEW v \in Videos, NEW S \in SUBSET Handled(v), NEW i \in Handled(v),
           \A j \in S : j < i,
           1 \in S => CatalogAfter(v, S) \in Rows /\ CatalogAfter(v, S).version \in S \cup {0}
    PROVE  CatalogAfter(v, S \cup {i}) = Becomes(v, i, CatalogAfter(v, S))
<1> DEFINE T == S \cup {i}
           before == CatalogAfter(v, S)
           e == Catalog[v][i]
           Seen(X) == {j \in X : Catalog[v][j].kind # "other"}
<1>1. i \in Nat /\ i > 0 /\ i \in 1 .. Last(v) /\ S \subseteq Nat /\ T \subseteq Nat
  BY CatalogAssumption DEF Last, Handled
<1>2. e \in CatalogEvents /\ e.kind \in {"created", "updated", "deleted", "other"}
  BY <1>1, EventType DEF CatalogEvents, Kinds, Handled
<1>3. \A j \in T : j <= i
  BY <1>1
<1>4. ASSUME NEW f \in Fields
      PROVE  /\ f \in e.sets => Newest(SetBy(v, T, f)) = i
             /\ f \notin e.sets => SetBy(v, T, f) = SetBy(v, S, f)
  <2>1. CASE f \in e.sets
    <3>1. i \in SetBy(v, T, f) /\ SetBy(v, T, f) \subseteq Nat /\ \A j \in SetBy(v, T, f) : j <= i
      BY <1>1, <1>3, <2>1 DEF SetBy
    <3> QED
      BY <2>1, <3>1, NewestUnique
  <2>2. CASE f \notin e.sets
    BY <2>2 DEF SetBy
  <2> QED
    BY <2>1, <2>2
<1>5. /\ e.kind # "other" => Newest(Seen(T)) = i
      /\ e.kind = "other" => Seen(T) = Seen(S)
  <2>1. CASE e.kind # "other"
    <3>1. i \in Seen(T) /\ Seen(T) \subseteq Nat /\ \A j \in Seen(T) : j <= i
      BY <1>1, <1>3, <2>1
    <3> QED
      BY <2>1, <3>1, NewestUnique
  <2>2. CASE e.kind = "other"
    BY <2>2
  <2> QED
    BY <2>1, <2>2
<1>6. ASSUME NEW old \in [Fields -> Nat]
      PROVE  Patched(v, i, old) \in Rows /\ Patched(v, i, old) # None
  BY <1>1, PatchedType, CatalogAssumption
<1>7. 1 \in T => CatalogAfter(v, T) = [fields |-> [f \in Fields |-> Newest(SetBy(v, T, f))],
                                     version |-> Catalog[v][Newest(Seen(T))].version]
  BY DEF CatalogAfter
<1>8. CASE i = 1
  <2>1. S = {}
    <3>1. \A j \in S : j \in 1 .. Last(v)
      BY DEF Handled
    <3>2. \A j \in S : j >= 1
      BY <3>1, CatalogAssumption DEF Last
    <3> QED
      BY <1>1, <1>8, <3>2
  <2>2. e.kind = "created"
    BY <1>1, <1>2, <1>8, CatalogAssumption
  <2>3. [f \in Fields |-> 0] \in [Fields -> Nat]
    OBVIOUS
  <2>4. Becomes(v, i, before) = Patched(v, i, [f \in Fields |-> 0])
    BY <1>6, <2>2, <2>3 DEF Projected, Becomes
  <2>5. \A f \in Fields : Newest(SetBy(v, T, f)) = IF f \in e.sets THEN i ELSE 0
    <3>1. \A f \in Fields : SetBy(v, S, f) = {}
      BY <2>1 DEF SetBy
    <3>2. Newest({}) = 0
      BY DEF Newest
    <3> QED
      BY <1>4, <3>1, <3>2
  <2> QED
    BY <1>5, <1>7, <1>8, <2>2, <2>4, <2>5 DEF Patched
<1>9. CASE i # 1 /\ 1 \notin S
  <2>1. before = None /\ CatalogAfter(v, T) = None
    BY <1>9 DEF CatalogAfter
  <2>2. e.kind # "created"
    BY <1>1, <1>9, CatalogAssumption
  <2>3. Projected(v, i, None) = None
    BY <2>2 DEF Projected
  <2> QED
    BY <2>1, <2>3 DEF Becomes
<1>10. CASE i # 1 /\ 1 \in S
  <2>1. before = [fields |-> [f \in Fields |-> Newest(SetBy(v, S, f))],
                  version |-> Catalog[v][Newest(Seen(S))].version]
    BY <1>10 DEF CatalogAfter
  <2>2. e.kind \in {"updated", "deleted", "other"}
    BY <1>1, <1>2, <1>10, CatalogAssumption
  <2>3. before \in Rows /\ before.version < i /\ before.version \in Nat
    BY <1>1, <1>10 DEF Rows
  <2>4. e.version \in {0, i}
    BY <1>1, CatalogAssumption
  <2>5. before # None /\ ShouldApply(e.version, before.version)
    BY <1>1, <2>3, <2>4, CatalogAssumption DEF ShouldApply
  <2>6. CASE e.kind \in {"updated", "deleted"}
    <3>1. before.fields \in [Fields -> Nat]
      BY <2>3 DEF Rows
    <3>2. Becomes(v, i, before) = Patched(v, i, before.fields)
      BY <1>6, <2>5, <2>6, <3>1 DEF Projected, Becomes
    <3>3. \A f \in Fields : Newest(SetBy(v, T, f)) = IF f \in e.sets THEN i ELSE before.fields[f]
      <4>1. \A f \in Fields : before.fields[f] = Newest(SetBy(v, S, f))
        BY <2>1
      <4> HIDE DEF before
      <4> QED
        BY <1>4, <4>1
    <3> QED
      BY <1>5, <1>7, <1>10, <2>6, <3>2, <3>3 DEF Patched
  <2>7. CASE e.kind = "other"
    <3>1. Becomes(v, i, before) = before
      BY <2>7 DEF Projected, Becomes
    <3>2. e.sets = {}
      BY <1>1, <2>7, CatalogAssumption
    <3>3. \A f \in Fields : SetBy(v, T, f) = SetBy(v, S, f)
      BY <1>4, <3>2
    <3> QED
      BY <1>5, <1>7, <1>10, <2>1, <2>7, <3>1, <3>3
  <2> QED
    BY <2>2, <2>6, <2>7
<1> QED
  BY <1>8, <1>9, <1>10

\* A row carries the version of a processed event, or none; after the first event
\* there is one.
Versioned(v) ==
    /\ projection[v] # None => projection[v].version \in inbox[v] \cup {0}
    /\ 1 \in inbox[v] => projection[v] # None

\* The processed events of a video, and the projection that they make.
ReplayOf(v) ==
    /\ inbox[v] \subseteq Handled(v)
    /\ Versioned(v)
    /\ \A i \in inbox[v] : 1 .. i - 1 \subseteq inbox[v] \cup GivenUp(v)
    /\ inbox[v] \cap GivenUp(v) = {} => projection[v] = CatalogAfter(v, inbox[v])
Replayed == \A v \in Keyed : ReplayOf(v)

\* Every commit for a video with an ordering key takes one event of it, after all
\* that it has to wait for, and makes of the projection what the event makes of it.
LEMMA CommitTakes ==
    ASSUME IInv, NEW w \in Workers, Commit(w), job[w].video \in Keyed
    PROVE  \E v \in Keyed : \E i \in Handled(v) :
              /\ i \notin inbox[v] /\ 1 .. i - 1 \subseteq inbox[v] \cup GivenUp(v)
              /\ inbox' = [inbox EXCEPT ![v] = @ \cup {i}]
              /\ projection' = [projection EXCEPT ![v] = Becomes(v, i, @)]
              /\ UNCHANGED <<topic, dead>>
<1>1. PICK v \in Keyed : v = job[w].video
  OBVIOUS
<1>2. PICK i \in 1 .. Last(v) :
        /\ i = Event(job[w])
        /\ i \notin inbox[v] /\ 1 .. i - 1 \subseteq inbox[v] \cup GivenUp(v)
        /\ ~Broken(w) /\ job[w].row = Projected(v, i, projection[v])
  BY <1>1, JobType DEF Commit, At, IInv, JobsInOrder, JobInOrder
<1>3. i \in Handled(v)
  BY <1>1, <1>2 DEF Handled, Broken
<1>4. projection' = [projection EXCEPT ![v] = Becomes(v, i, @)]
  BY <1>1, <1>2 DEF Commit, Becomes, IInv, TypeOK
<1> QED
  BY <1>1, <1>2, <1>3, <1>4 DEF Commit, broker

\* No other step touches its projection or its processed events.
LEMMA OnlyCommits ==
    ASSUME IInv, [Next]_vars, ~\E w \in Workers : Commit(w) /\ job[w].video \in Keyed, NEW v \in Keyed
    PROVE  inbox'[v] = inbox[v] /\ projection'[v] = projection[v]
<1>1. ASSUME NEW w \in Workers, Commit(w) PROVE inbox'[v] = inbox[v] /\ projection'[v] = projection[v]
  BY <1>1, CatalogAssumption DEF Commit, IInv, TypeOK
<1> QED
  BY <1>1 DEF Next, Publish, LoseAck, DeadLetter, Receive, Work, InsertInbox, Reject, Judge, Upsert,
         Ack, Fail, Idle, vars

\* What an event makes of a row carries its version or none, if it changes the row.
LEMMA BecomesVersioned ==
    ASSUME NEW v \in Videos, NEW i \in Handled(v), NEW row \in Rows \cup {None}
    PROVE  /\ Becomes(v, i, row) \in Rows \cup {None}
           /\ i = 1 \/ row # None => Becomes(v, i, row) # None
           /\ Becomes(v, i, row) = row \/ Becomes(v, i, row).version \in {0, i}
<1>1. i \in 1 .. Last(v)
  BY DEF Handled
<1>2. Projected(v, i, row) \in Rows \cup {None}
  BY <1>1, ProjectedType
<1>3. Catalog[v][i].version \in {0, i}
  BY <1>1, CatalogAssumption
<1>4. \A old : Patched(v, i, old).version = Catalog[v][i].version
  BY DEF Patched
<1>5. Projected(v, i, row) = None \/ Projected(v, i, row).version = Catalog[v][i].version
  BY <1>4 DEF Projected
<1>6. i = 1 => Projected(v, i, row) # None
  <2>1. i = 1 => Catalog[v][i].kind = "created"
    BY <1>1, CatalogAssumption DEF Handled
  <2>2. Catalog[v][i].kind = "created" => Projected(v, i, row) = Patched(v, i, [f \in Fields |-> 0])
    BY DEF Projected
  <2>3. [f \in Fields |-> 0] \in [Fields -> Nat]
    OBVIOUS
  <2>4. Patched(v, i, [f \in Fields |-> 0]) # None
    BY <1>1, <2>3, PatchedType, CatalogAssumption
  <2> QED
    BY <2>1, <2>2, <2>4
<1> QED
  BY <1>2, <1>3, <1>5, <1>6 DEF Becomes

\* An event is taken in order, or late, and then it was given up.
LEMMA TakenInOrder ==
    ASSUME NEW v \in Videos, ReplayOf(v), projection[v] \in Rows \cup {None}, NEW i \in Handled(v),
           i \notin inbox[v], 1 .. i - 1 \subseteq inbox[v] \cup GivenUp(v),
           (inbox[v] \cup {i}) \cap GivenUp(v) = {}
    PROVE  CatalogAfter(v, inbox[v] \cup {i}) = Becomes(v, i, projection[v])
<1>1. inbox[v] \subseteq Nat /\ i \in Nat /\ i > 0
  BY CatalogAssumption DEF ReplayOf, Handled, Last
<1>2. ASSUME NEW j \in inbox[v], j > i PROVE FALSE
  <2>1. i \in 1 .. j - 1
    BY <1>1, <1>2
  <2> QED
    BY <2>1 DEF ReplayOf
<1>3. \A j \in inbox[v] : j < i
  BY <1>1, <1>2
<1>4. projection[v] = CatalogAfter(v, inbox[v])
  BY DEF ReplayOf
<1> QED
  BY <1>3, <1>4, JudgedByThePreceding DEF ReplayOf, Versioned

\* Each projection is the catalog after the processed events at first, ...
LEMMA ReplayedInit == Init => Replayed
  BY CatalogAssumption DEF Init, Replayed, ReplayOf, Versioned, CatalogAfter, GivenUp

\* ... after each step, ...
LEMMA ReplayedStep == IInv /\ Replayed /\ [Next]_vars => Replayed'
<1> SUFFICES ASSUME IInv, Replayed, [Next]_vars, NEW u \in Keyed PROVE ReplayOf(u)'
  BY DEF Replayed
<1>0. u \in Videos
  BY CatalogAssumption
<1>1. ASSUME inbox'[u] = inbox[u], projection'[u] = projection[u] PROVE ReplayOf(u)'
  <2>1. GivenUp(u) \subseteq GivenUp(u)'
    BY <1>0, GivenUpKept
  <2>2. ReplayOf(u)
    BY DEF Replayed
  <2>3. Handled(u)' = Handled(u) /\ CatalogAfter(u, inbox[u])' = CatalogAfter(u, inbox[u])
    BY <1>1 DEF Handled, Last, CatalogAfter, SetBy
  <2> QED
    BY <1>1, <2>1, <2>2, <2>3 DEF ReplayOf, Versioned
<1>2. CASE \E w \in Workers : Commit(w) /\ job[w].video \in Keyed
  <2>1. PICK v \in Keyed : \E i \in Handled(v) :
              /\ i \notin inbox[v] /\ 1 .. i - 1 \subseteq inbox[v] \cup GivenUp(v)
              /\ inbox' = [inbox EXCEPT ![v] = @ \cup {i}]
              /\ projection' = [projection EXCEPT ![v] = Becomes(v, i, @)]
              /\ UNCHANGED <<topic, dead>>
    BY <1>2, CommitTakes
  <2>2. PICK i \in Handled(v) :
              /\ i \notin inbox[v] /\ 1 .. i - 1 \subseteq inbox[v] \cup GivenUp(v)
              /\ inbox' = [inbox EXCEPT ![v] = @ \cup {i}]
              /\ projection' = [projection EXCEPT ![v] = Becomes(v, i, @)]
              /\ UNCHANGED <<topic, dead>>
    BY <2>1
  <2>3. /\ inbox \in [Videos -> SUBSET Nat] /\ projection \in [Videos -> Rows \cup {None}]
        /\ v \in Videos
    BY CatalogAssumption DEF IInv, TypeOK
  <2>4. CASE u # v
    BY <1>0, <1>1, <2>2, <2>3, <2>4
  <2>5. CASE u = v
    <3>1. /\ inbox'[v] = inbox[v] \cup {i} /\ projection'[v] = Becomes(v, i, projection[v])
          /\ projection[v] \in Rows \cup {None}
      BY <2>2, <2>3
    <3>2. ReplayOf(v) /\ GivenUp(v)' = GivenUp(v)
      BY <2>2 DEF Replayed, GivenUp
    <3>3. Versioned(v)'
      <4>1. projection[v] # None => projection[v].version \in inbox[v] \cup {0}
        BY <3>2 DEF ReplayOf, Versioned
      <4>2. 1 \in inbox[v] => projection[v] # None
        BY <3>2 DEF ReplayOf, Versioned
      <4>3. /\ i = 1 \/ projection[v] # None => projection'[v] # None
            /\ projection'[v] = projection[v] \/ projection'[v].version \in {0, i}
        BY <2>3, <3>1, BecomesVersioned
      <4> QED
        BY <3>1, <4>1, <4>2, <4>3 DEF Versioned
    <3>4. inbox'[v] \cap GivenUp(v)' = {} => projection'[v] = CatalogAfter(v, inbox'[v])
      BY <2>2, <2>3, <3>1, <3>2, TakenInOrder
    <3>5. CatalogAfter(v, inbox[v])' = CatalogAfter(v, inbox'[v]) /\ Handled(v)' = Handled(v)
      BY DEF CatalogAfter, SetBy, Handled, Last
    <3>6. inbox'[v] \subseteq Handled(v)
      BY <3>1, <3>2 DEF ReplayOf
    <3>7. \A j \in inbox'[v] : 1 .. j - 1 \subseteq inbox'[v] \cup GivenUp(v)'
      BY <2>2, <3>1, <3>2 DEF ReplayOf
    <3> QED
      BY <2>5, <3>3, <3>4, <3>5, <3>6, <3>7 DEF ReplayOf
  <2> QED
    BY <2>4, <2>5
<1>3. CASE ~\E w \in Workers : Commit(w) /\ job[w].video \in Keyed
  BY <1>1, <1>3, OnlyCommits
<1> QED
  BY <1>2, <1>3

\* ... and so always.
LEMMA ReplayedCorrect == Spec => [](IInv /\ Replayed)
  BY ReplayedStep, ReplayedInit, Inductive, PTL DEF Spec

\* With an ordering key the projection is the video as the catalog has it by its
\* processed events, for every catalog and however often its events come, are
\* interrupted, come back or are given up.
THEOREM ProjectionIsReplayCorrect == Spec => []ProjectionIsReplay
<1>1. Replayed => ProjectionIsReplay
  BY DEF Replayed, ReplayOf, ProjectionIsReplay
<1> QED
  BY <1>1, ReplayedCorrect, PTL

-------------------------------------------------------------------------------
\* With an ordering key the inbox implements a replica that takes each event once, in
\* order and whole, a commit being how it takes one and a dead letter how it skips one.
THEOREM InboxImplementsReplica == Spec => ImplementsReplica
<1> DEFINE taken == [v \in Keyed |-> inbox[v]]
           skipped == [v \in Keyed |-> GivenUp(v)]
           shown == [v \in Keyed |-> projection[v]]
           Effect == [v \in Keyed |-> [i \in Handled(v) |->
                         [row \in Rows \cup {None} |-> Becomes(v, i, row)]]]
           Events == [v \in Keyed |-> 1 .. Last(v)]
<1>0. Keyed \subseteq Videos
  BY CatalogAssumption
<1>1. Init => Replica!Init
  BY <1>0 DEF Init, Replica!Init, GivenUp
<1>2. ASSUME IInv, [Next]_vars PROVE [Replica!Next]_<<taken, skipped, shown>>
  <2>1. inbox \in [Videos -> SUBSET Nat] /\ projection \in [Videos -> Rows \cup {None}]
    BY <1>2 DEF IInv, TypeOK
  <2>2. CASE \E w \in Workers : Commit(w) /\ job[w].video \in Keyed
    <3>1. PICK v \in Keyed : \E i \in Handled(v) :
              /\ i \notin inbox[v] /\ 1 .. i - 1 \subseteq inbox[v] \cup GivenUp(v)
              /\ inbox' = [inbox EXCEPT ![v] = @ \cup {i}]
              /\ projection' = [projection EXCEPT ![v] = Becomes(v, i, @)]
              /\ UNCHANGED <<topic, dead>>
      BY <1>2, <2>2, CommitTakes
    <3>2. PICK i \in Handled(v) :
              /\ i \notin inbox[v] /\ 1 .. i - 1 \subseteq inbox[v] \cup GivenUp(v)
              /\ inbox' = [inbox EXCEPT ![v] = @ \cup {i}]
              /\ projection' = [projection EXCEPT ![v] = Becomes(v, i, @)]
              /\ UNCHANGED <<topic, dead>>
      BY <3>1
    <3>3. i \in DOMAIN Effect[v] /\ Effect[v][i][projection[v]] = Becomes(v, i, projection[v])
      BY <1>0, <2>1
    <3>4. skipped' = skipped /\ skipped[v] = GivenUp(v) /\ taken[v] = inbox[v] /\ shown[v] = projection[v]
      BY <3>2 DEF GivenUp
    <3>5. /\ taken' = [taken EXCEPT ![v] = @ \cup {i}]
          /\ shown' = [shown EXCEPT ![v] = Effect[v][i][@]]
      BY <1>0, <2>1, <3>2, <3>3
    <3>6. Replica!Take(v, i)
      BY <3>2, <3>4, <3>5 DEF Replica!Take
    <3> QED
      BY <3>3, <3>6 DEF Replica!Next
  <2>3. CASE \E v \in Keyed : DeadLetter(v)
    <3>1. PICK v \in Keyed : DeadLetter(v)
      BY <2>3
    <3>2. PICK p \in DOMAIN topic[v] : dead' = [dead EXCEPT ![v] = @ \cup {p}] /\ topic' = topic
      BY <3>1 DEF DeadLetter, Outstanding
    <3>3. dead \in [Videos -> SUBSET Nat]
      BY <1>2 DEF IInv, TypeOK
    <3>4. GivenUp(v)' = GivenUp(v) \cup {topic[v][p]} /\ \A u \in Keyed \ {v} : GivenUp(u)' = GivenUp(u)
      BY <1>0, <3>2, <3>3 DEF GivenUp
    <3>5. skipped' = [skipped EXCEPT ![v] = @ \cup {topic[v][p]}]
      BY <3>4
    <3>6. topic[v][p] \in Events[v]
      BY <1>0, <1>2, <3>2 DEF IInv, TopicInOrder
    <3>7. UNCHANGED <<taken, shown>>
      BY <3>1 DEF DeadLetter
    <3>8. Replica!Skip(v, topic[v][p])
      BY <3>5, <3>7 DEF Replica!Skip
    <3> QED
      BY <3>6, <3>8 DEF Replica!Next
  <2>4. CASE /\ ~\E w \in Workers : Commit(w) /\ job[w].video \in Keyed
             /\ ~\E v \in Keyed : DeadLetter(v)
    <3>1. \A v \in Keyed : GivenUp(v)' = GivenUp(v)
      BY <1>0, <1>2, <2>4, GivenUpKept
    <3>2. \A v \in Keyed : inbox'[v] = inbox[v] /\ projection'[v] = projection[v]
      BY <1>2, <2>4, OnlyCommits
    <3> QED
      BY <3>1, <3>2
  <2> QED
    BY <2>2, <2>3, <2>4
<1> QED
  BY <1>1, <1>2, Inductive, PTL DEF Spec, ImplementsReplica, Replica!Spec
===============================================================================
