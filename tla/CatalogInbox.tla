----------------------------- MODULE CatalogInbox -----------------------------
(***************************************************************************)
(* The catalog inbox task: workers take catalog events of a video from the *)
(* subscription and keep profile.videos_projection up to date.  A message  *)
(* is handled in one READ COMMITTED transaction: insert its event into     *)
(* profile.inbox_events, load the projection without locking it, judge by  *)
(* the versions, upsert the projection, mark the event processed.  The     *)
(* message is acknowledged after the commit.  A failure, a crash or a lost *)
(* acknowledgement brings the message back; the catalog may also publish   *)
(* an event again, or one that no handler can make anything of.            *)
(*                                                                         *)
(* The subscription has a dead-letter topic: a message that has come back  *)
(* MaxAttempts times goes there and is not delivered again.  Of a video    *)
(* whose messages carry an ordering key, which the conventions ask of all, *)
(* it delivers one at a time, the oldest that is neither acknowledged nor  *)
(* dead-lettered; others are delivered in any order and handled at once.   *)
(*                                                                         *)
(* A value of a field is named by the position, among the events of its    *)
(* video, of the event that set it: 0 for a field that nothing has set.    *)
(***************************************************************************)
EXTENDS Integers, FiniteSets, Sequences

CONSTANTS Workers,      \* the handlers running at once (max_concurrency)
          Videos,
          Fields,       \* the columns of a projection
          Catalog,      \* the events of each video in order
          Keyed,        \* the videos whose messages carry an ordering key
          MaxAttempts,  \* deliveries before a message is dead-lettered
          MaxRepeats,   \* bound: messages of each video that repeat an event
          MaxFaults,    \* bound: failed handlings and lost acknowledgements
          None          \* no projection, no job, no change

\* A broken event cannot be decoded, or no video id can be read from it or from
\* its inbox entry, or its time is written and cannot be read, or it is a
\* creation or an update without a payload.  An event without a time is as of
\* now, and a deletion needs no payload: neither is broken.
Kinds == {"created", "updated", "deleted", "other", "broken"}
\* An event sets some columns; a version of 0 is one the catalog did not give.
CatalogEvents == [kind : Kinds, sets : SUBSET Fields, version : Nat]
Last(v) == Len(Catalog[v])

Rows == [fields : [Fields -> Nat], version : Nat]
Steps == {"insert", "judge", "upsert", "commit", "ack"}
Jobs == [video : Videos, pos : Nat, step : Steps, row : Rows \cup {None}]

ASSUME CatalogAssumption ==
    /\ Catalog \in [Videos -> Seq(CatalogEvents)]
    /\ \A v \in Videos : \A i \in 1 .. Last(v) :
         /\ Catalog[v][i].kind = "created" => i = 1
         /\ i = 1 => Catalog[v][i].kind \in {"created", "broken"}
         /\ Catalog[v][i].version \in {0, i}
         /\ Catalog[v][i].kind = "other" => Catalog[v][i].sets = {}
    /\ MaxRepeats \in [Videos -> Nat] /\ MaxAttempts \in Nat \ {0} /\ MaxFaults \in Nat
    /\ Keyed \subseteq Videos
    /\ None \notin Rows \cup Jobs

VARIABLES topic,       \* the messages of each video in publish order
          tries,       \* how often each message was delivered and came back
          acked,       \* the acknowledged positions of each topic
          dead,        \* the positions that went to the dead-letter topic
          inbox,       \* the processed events, profile.inbox_events
          projection,  \* profile.videos_projection, committed
          job,         \* what each worker is handling
          faults       \* how many faults have happened

broker == <<topic, tries, acked, dead>>
vars == <<broker, inbox, projection, job, faults>>

Event(j) == topic[j.video][j.pos]
Goto(w, step) == job' = [job EXCEPT ![w].step = step]
At(w, step) == job[w] # None /\ job[w].step = step

-------------------------------------------------------------------------------
(***************************************************************************)
(* The topic and the subscription.                                         *)
(***************************************************************************)

Published(v) == {topic[v][p] : p \in DOMAIN topic[v]}

\* The next event, or one that was published before.
Publish(v) ==
    /\ \E i \in 1 .. Last(v) :
         /\ i \in Published(v) => Len(topic[v]) - Cardinality(Published(v)) < MaxRepeats[v]
         /\ 1 .. i - 1 \subseteq Published(v)
         /\ topic' = [topic EXCEPT ![v] = Append(@, i)]
    /\ tries' = [tries EXCEPT ![v] = Append(@, 0)]
    /\ UNCHANGED <<acked, dead, inbox, projection, job, faults>>

Outstanding(v) == DOMAIN topic[v] \ (acked[v] \cup dead[v])
InHand(v) == {job[w].pos : w \in {x \in Workers : job[x] # None /\ job[x].video = v}}

Deliverable(v, p) ==
    /\ p \in Outstanding(v) \ InHand(v)
    /\ tries[v][p] < MaxAttempts
    /\ v \in Keyed => InHand(v) = {} /\ \A q \in Outstanding(v) : p <= q

Receive(v, p) ==
    /\ Deliverable(v, p)
    /\ \E w \in Workers :
         /\ job[w] = None
         /\ job' = [job EXCEPT ![w] = [video |-> v, pos |-> p, step |-> "insert", row |-> None]]
    /\ UNCHANGED <<broker, inbox, projection, faults>>

Ack(w) ==
    /\ At(w, "ack")
    /\ acked' = [acked EXCEPT ![job[w].video] = @ \cup {job[w].pos}]
    /\ job' = [job EXCEPT ![w] = None]
    /\ UNCHANGED <<topic, tries, dead, inbox, projection, faults>>

\* A message that worker w does not acknowledge comes back.
Return(w) ==
    /\ tries' = [tries EXCEPT ![job[w].video][job[w].pos] = @ + 1]
    /\ job' = [job EXCEPT ![w] = None]

\* An acknowledgement that did not arrive: the message comes back and, with an
\* ordering key, so do those behind it.
LoseAck(v) ==
    /\ faults < MaxFaults
    /\ faults' = faults + 1
    /\ \E p \in acked[v] :
         /\ acked' = [acked EXCEPT ![v] = {q \in @ : q # p /\ (v \in Keyed => q < p)}]
         /\ tries' = [tries EXCEPT ![v][p] = @ + 1]
    /\ UNCHANGED <<topic, dead, inbox, projection, job>>

\* The subscription gives a message up; those behind it go past it.
DeadLetter(v) ==
    /\ \E p \in Outstanding(v) :
         /\ tries[v][p] >= MaxAttempts
         /\ dead' = [dead EXCEPT ![v] = @ \cup {p}]
    /\ UNCHANGED <<topic, tries, acked, inbox, projection, job, faults>>

-------------------------------------------------------------------------------
(***************************************************************************)
(* The transaction of one message.                                         *)
(***************************************************************************)

\* Another transaction has inserted the same event and has not ended.
BeingInserted(w) ==
    \E x \in Workers \ {w} :
        /\ job[x] # None /\ job[x].step \in {"judge", "upsert", "commit"}
        /\ job[x].video = job[w].video /\ Event(job[x]) = Event(job[w])

\* MUTANT: the inbox only records, it is not asked.
InsertInbox_NoDedupe(w) ==
    /\ At(w, "insert")
    /\ ~BeingInserted(w)
    /\ Goto(w, "judge")
    /\ UNCHANGED <<broker, inbox, projection, faults>>

Broken(w) == Catalog[job[w].video][Event(job[w])].kind = "broken"

\* An event that is already processed is acknowledged again and nothing else.
InsertInbox(w) ==
    /\ At(w, "insert")
    /\ ~BeingInserted(w)
    /\ Goto(w, IF Event(job[w]) \in inbox[job[w].video] THEN "ack" ELSE "judge")
    /\ UNCHANGED <<broker, inbox, projection, faults>>

ShouldApply(version, current) == version = 0 \/ version > current

\* MUTANT: an event stores only the columns that it gives.
Projected_OnlyGiven(v, i, current) ==
    LET e == Catalog[v][i]
        row == [fields |-> [f \in e.sets |-> i], version |-> e.version] IN
    CASE e.kind = "created" -> row
      [] /\ e.kind \in {"updated", "deleted"}
         /\ current # None /\ ShouldApply(e.version, current.version) -> row
      [] OTHER -> None

\* What an event gives replaces a column, what it does not give is kept.
Patched(v, i, old) ==
    [fields |-> [f \in Fields |-> IF f \in Catalog[v][i].sets THEN i ELSE old[f]],
     version |-> Catalog[v][i].version]

\* What event i makes of the projection: None for no change.  A creation looks
\* at nothing and clears what it does not give; an update or a deletion needs
\* a projection that is older, and keeps what it does not give.
Projected(v, i, current) ==
    LET e == Catalog[v][i] IN
    CASE e.kind = "created" -> Patched(v, i, [f \in Fields |-> 0])
      [] /\ e.kind \in {"updated", "deleted"}
         /\ current # None /\ ShouldApply(e.version, current.version) -> Patched(v, i, current.fields)
      [] OTHER -> None

\* MUTANT: the handler swallows its error, so the event is marked processed.
Reject_Processed(w) ==
    /\ At(w, "judge") /\ Broken(w)
    /\ inbox' = [inbox EXCEPT ![job[w].video] = @ \cup {Event(job[w])}]
    /\ Goto(w, "ack")
    /\ UNCHANGED <<broker, projection, faults>>

\* The handler returns an error: the transaction is rolled back, the message is
\* not acknowledged and comes again.
Reject(w) ==
    /\ At(w, "judge") /\ Broken(w)
    /\ Return(w)
    /\ UNCHANGED <<topic, acked, dead, inbox, projection, faults>>

\* The projection is read without a lock, here or never.
Judge(w) ==
    /\ At(w, "judge") /\ ~Broken(w)
    /\ LET v == job[w].video
           row == Projected(v, Event(job[w]), projection[v]) IN
       job' = [job EXCEPT ![w].row = row, ![w].step = IF row = None THEN "commit" ELSE "upsert"]
    /\ UNCHANGED <<broker, inbox, projection, faults>>

\* The upsert waits for another writer of the row and then overwrites it.
Upsert(w) ==
    /\ At(w, "upsert")
    /\ ~\E x \in Workers : At(x, "commit") /\ job[x].video = job[w].video /\ job[x].row # None
    /\ Goto(w, "commit")
    /\ UNCHANGED <<broker, inbox, projection, faults>>

\* The projection and the processed mark are stored together.
Commit(w) ==
    /\ At(w, "commit")
    /\ LET v == job[w].video IN
         /\ projection' = IF job[w].row = None THEN projection
                          ELSE [projection EXCEPT ![v] = job[w].row]
         /\ inbox' = [inbox EXCEPT ![v] = @ \cup {Event(job[w])}]
    /\ Goto(w, "ack")
    /\ UNCHANGED <<broker, faults>>

\* MUTANT: a message whose handling failed is acknowledged all the same.
Fail_Acked(w) ==
    /\ job[w] # None
    /\ faults < MaxFaults
    /\ faults' = faults + 1
    /\ acked' = [acked EXCEPT ![job[w].video] = @ \cup {job[w].pos}]
    /\ job' = [job EXCEPT ![w] = None]
    /\ UNCHANGED <<topic, tries, dead, inbox, projection>>

\* The handling fails or the process dies, before the commit or after it: the
\* transaction is rolled back if it is open, the message is not acknowledged.
Fail(w) ==
    /\ job[w] # None
    /\ faults < MaxFaults
    /\ faults' = faults + 1
    /\ Return(w)
    /\ UNCHANGED <<topic, acked, dead, inbox, projection>>

-------------------------------------------------------------------------------
Init ==
    /\ topic = [v \in Videos |-> <<>>]
    /\ tries = [v \in Videos |-> <<>>]
    /\ acked = [v \in Videos |-> {}]
    /\ dead = [v \in Videos |-> {}]
    /\ inbox = [v \in Videos |-> {}]
    /\ projection = [v \in Videos |-> None]
    /\ job = [w \in Workers |-> None]
    /\ faults = 0

Work(w) == InsertInbox(w) \/ Reject(w) \/ Judge(w) \/ Upsert(w) \/ Commit(w) \/ Ack(w)

\* The task waits for messages.
Idle ==
    /\ \A w \in Workers : job[w] = None
    /\ \A v \in Videos : Outstanding(v) = {}
    /\ UNCHANGED vars

Next ==
    \/ \E v \in Videos : \/ Publish(v) \/ LoseAck(v) \/ DeadLetter(v)
                         \/ \E p \in DOMAIN topic[v] : Receive(v, p)
    \/ \E w \in Workers : Work(w) \/ Fail(w)
    \/ Idle

Spec == Init /\ [][Next]_vars

\* As long as a worker can go on, or the subscription can deliver a message or
\* give one up, one of them does.  Nothing obliges the catalog to publish.
Progress ==
    \/ \E w \in Workers : Work(w)
    \/ \E v \in Videos : DeadLetter(v) \/ \E p \in DOMAIN topic[v] : Receive(v, p)
Fairness == WF_vars(Progress)
FairSpec == Spec /\ Fairness

-------------------------------------------------------------------------------
TypeOK ==
    /\ topic \in [Videos -> Seq(Nat)]
    /\ tries \in [Videos -> Seq(Nat)]
    /\ acked \in [Videos -> SUBSET Nat]
    /\ dead \in [Videos -> SUBSET Nat]
    /\ inbox \in [Videos -> SUBSET Nat]
    /\ projection \in [Videos -> Rows \cup {None}]
    /\ job \in [Workers -> Jobs \cup {None}]
    /\ faults \in Nat

\* The events that the subscription gave up, a message of them at least.
GivenUp(v) == {topic[v][p] : p \in dead[v]}

\* The video as the catalog has it if only the events of S had happened.
SetBy(v, S, f) == {i \in S : f \in Catalog[v][i].sets}
Newest(S) == IF S = {} THEN 0 ELSE CHOOSE i \in S : \A j \in S : j <= i
CatalogAfter(v, S) ==
    IF 1 \notin S THEN None
    ELSE [fields |-> [f \in Fields |-> Newest(SetBy(v, S, f))],
          version |-> LET i == Newest({i \in S : Catalog[v][i].kind # "other"})
                      IN Catalog[v][i].version]

\* With an ordering key an event is processed only after every earlier one that was
\* not given up, and the projection is, at every moment, the video as the catalog
\* has it by exactly the processed events: none is applied twice or out of order,
\* whatever is published again, delivered again or interrupted.  Of a video with an
\* event that was given up and yet processed, late, only ImplementsReplica speaks.
ProjectionIsReplay ==
    \A v \in Keyed :
        /\ \A i \in inbox[v] : 1 .. i - 1 \subseteq inbox[v] \cup GivenUp(v)
        /\ inbox[v] \cap GivenUp(v) = {} => projection[v] = CatalogAfter(v, inbox[v])

\* What the events of a video make of the row that they find, those that a
\* handler can make something of.
Becomes(v, i, row) == LET new == Projected(v, i, row) IN IF new = None THEN row ELSE new
Handled(v) == {i \in 1 .. Last(v) : Catalog[v][i].kind # "broken"}
Replica == INSTANCE CatalogReplica
           WITH Videos <- Keyed,
                taken <- [v \in Keyed |-> inbox[v]],
                skipped <- [v \in Keyed |-> GivenUp(v)],
                projection <- [v \in Keyed |-> projection[v]],
                Events <- [v \in Keyed |-> 1 .. Last(v)],
                Effect <- [v \in Keyed |-> [i \in Handled(v) |->
                              [row \in Rows \cup {None} |-> Becomes(v, i, row)]]]

\* With an ordering key deliveries, repeats, transactions and failures implement a
\* replica that takes each event of a video once, in order, and whole: onto the
\* very row that it judged by.  It passes an event only when that was given up.
ImplementsReplica == Replica!Spec

\* What is acknowledged is processed: whatever fails, an event is processed, still
\* to be delivered, or at the dead-letter topic.
AckedIsProcessed ==
    \A v \in Videos : \A p \in acked[v] : topic[v][p] \in inbox[v]

\* Why: the topic repeats events but skips none, ...
TopicInOrder ==
    \A v \in Videos :
        /\ acked[v] \subseteq DOMAIN topic[v] /\ dead[v] \subseteq DOMAIN topic[v]
        /\ DOMAIN tries[v] = DOMAIN topic[v]
        /\ \A p \in DOMAIN topic[v] :
             /\ topic[v][p] \in 1 .. Last(v)
             /\ \A i \in 1 .. topic[v][p] - 1 : \E q \in 1 .. p - 1 : topic[v][q] = i

\* ... a worker acknowledges what it has processed, ...
JobSound(w) ==
    /\ job[w].pos \in DOMAIN topic[job[w].video]
    /\ job[w].step = "ack" => Event(job[w]) \in inbox[job[w].video]
JobsSound == \A w \in Workers : job[w] # None => JobSound(w)

\* ... and with an ordering key one worker at a time handles a video, with every
\* earlier event processed or given up, so that what it has judged by is still
\* what it overwrites.
JobInOrder(w) ==
    LET v == job[w].video
        i == Event(job[w]) IN
    /\ 1 .. i - 1 \subseteq inbox[v] \cup GivenUp(v)
    /\ job[w].step \in {"judge", "upsert", "commit"} => i \notin inbox[v]
    /\ job[w].step \in {"upsert", "commit"} =>
          ~Broken(w) /\ job[w].row = Projected(v, i, projection[v])
JobsInOrder ==
    /\ \A w \in Workers : job[w] # None /\ job[w].video \in Keyed => JobInOrder(w)
    /\ \A w, x \in Workers : w # x /\ job[w] # None /\ job[x] # None /\ job[w].video \in Keyed
                               => job[w].video # job[x].video

\* An event is processed, or it is given up with a reason: it is broken, or its
\* handling has failed as often as a message is delivered.
Settled(v, i) ==
    \/ i \in inbox[v]
    \/ i \in GivenUp(v) /\ (Catalog[v][i].kind = "broken" \/ faults >= MaxAttempts)

\* In the end whatever is published is settled: a broken event holds up no other
\* for good, and neither do crashes, repeats and lost acknowledgements.
EveryEventIsProcessed == <>[](\A v \in Videos : \A i \in Published(v) : Settled(v, i))
===============================================================================
