------------------------ MODULE OutboxPublisherProofs -------------------------
(***************************************************************************)
(* What holds of OutboxPublisher for any finite number of publishers and   *)
(* events, any size of a batch and any number of faults.                   *)
(***************************************************************************)
EXTENDS OutboxPublisher, FiniteSetTheorems, TLAPS

Jobs == [token : Tokens \cup {NoToken}, step : [Events -> Steps]]

\* The types without the size of the batches.
Types ==
    /\ rows \in [Events -> Row]
    /\ up \in [Publishers -> BOOLEAN]
    /\ job \in [Publishers -> Jobs]
    /\ copies \in [Events -> Nat]
    /\ faults \in 0 .. MaxFaults

BatchesFit == \A p \in Publishers : Cardinality(Working(p)) <= BatchSize

-------------------------------------------------------------------------------
\* A publisher without a batch has a job all the same.
LEMMA NoJobType == NoJob \in Jobs
  BY DEF NoJob, Jobs, Steps

\* To advance moves one event of one publisher, and may end the job.
LEMMA AdvanceEffect ==
    ASSUME Types, NEW p \in Publishers, NEW e \in Events, NEW s \in Steps, Advance(p, e, s)
    PROVE  /\ job' \in [Publishers -> Jobs]
           /\ \A q \in Publishers : q # p => job'[q] = job[q]
           /\ \A f \in Events : f # e => job'[p].step[f] = job[p].step[f]
           /\ job'[p].step[e] = s
           /\ \/ job'[p].token = job[p].token
              \/ job'[p].token = NoToken /\ \A f \in Events : job'[p].step[f] = "done"
<1>1. CASE s = "done" /\ Working(p) = {e}
  <2>1. job' = [job EXCEPT ![p] = NoJob]
    BY <1>1 DEF Advance
  <2>2. \A f \in Events : f # e => job[p].step[f] = "done"
    BY <1>1 DEF Working
  <2> QED
    BY <1>1, <2>1, <2>2, NoJobType DEF Types, NoJob
<1>2. CASE ~(s = "done" /\ Working(p) = {e})
  <2>1. job' = [job EXCEPT ![p] = [@ EXCEPT !.step[e] = s]]
    BY <1>2 DEF Advance
  <2>2. job[p] \in Jobs
    BY DEF Types
  <2>3. [job[p] EXCEPT !.step[e] = s] \in Jobs
    BY <2>2 DEF Jobs
  <2> QED
    BY <2>1, <2>2, <2>3 DEF Types, Jobs
<1> QED
  BY <1>1, <1>2

\* Two of the three endings of an attempt to send are errors.
LEMMA SendEffect ==
    ASSUME Types, NEW p \in Publishers, NEW e \in Events, Send(p, e)
    PROVE  \E s \in {"mark", "reschedule"} :
              /\ Advance(p, e, s)
              /\ s = "mark" => copies' = [copies EXCEPT ![e] = @ + 1] /\ faults' = faults
              /\ s = "reschedule" =>
                    /\ copies' = [copies EXCEPT ![e] = @ + 1] \/ copies' = copies
                    /\ faults < MaxFaults /\ faults' = faults + 1
  BY DEF Send, AfterError, Fault, NoFault

\* A claim takes a token that is nobody's.
LEMMA FreshToken ==
    ASSUME FreshTokens # {}
    PROVE  /\ NewToken \in Tokens
           /\ \A e \in Events : rows[e].token # NewToken
           /\ \A p \in Publishers : job[p].token # NewToken
<1>1. NewToken \in FreshTokens
  BY DEF NewToken
<1> QED
  BY <1>1 DEF FreshTokens

\* A claim hands a batch of claimable events, within the limit, to one publisher.
LEMMA ClaimEffect ==
    ASSUME Types, NEW p \in Publishers, ClaimPending(p)
    PROVE  /\ Types'
           /\ \E batch \in SUBSET Events :
                /\ Cardinality(batch) <= BatchSize
                /\ \A e \in batch : Claimable(e)
                /\ ClaimBatch(p, batch)
<1>1. PICK batch \in SUBSET {e \in Events : Claimable(e)} :
          Cardinality(batch) <= BatchSize /\ ClaimBatch(p, batch)
  BY DEF ClaimPending
<1>2. NewToken \in Tokens
  BY FreshToken DEF ClaimPending
<1>3. [token |-> NewToken, step |-> [e \in Events |-> IF e \in batch THEN "send" ELSE "done"]] \in Jobs
  BY <1>2 DEF Jobs, Steps
<1>4. job' \in [Publishers -> Jobs]
  BY <1>1, <1>3 DEF ClaimBatch, Types
<1>5. rows' \in [Events -> Row]
  BY <1>1, <1>2 DEF ClaimBatch, Types, Row
<1> QED
  BY <1>1, <1>4, <1>5 DEF ClaimBatch, Types

\* What becomes of a row.
LEMMA RowTypes ==
    ASSUME NEW row \in Row
    PROVE  /\ Marked(row) \in Row /\ Postponed(row) \in Row
           /\ \A due \in BOOLEAN : [row EXCEPT !.committed = TRUE, !.due = due] \in Row
<1>1. ASSUME NEW r \in Row, NEW n \in Nat PROVE [r EXCEPT !.attempts = n] \in Row
  BY DEF Row
<1>2. ASSUME NEW r \in Row PROVE [r EXCEPT !.token = NoToken] \in Row
  BY DEF Row
<1>3. ASSUME NEW r \in Row, NEW b \in BOOLEAN
      PROVE  /\ [r EXCEPT !.stale = b] \in Row /\ [r EXCEPT !.due = b] \in Row
             /\ [r EXCEPT !.published = b] \in Row /\ [r EXCEPT !.committed = b] \in Row
  BY DEF Row
<1>4. row.attempts + 1 \in Nat
  BY DEF Row
<1>5. Marked(row) \in Row
  BY <1>1, <1>2, <1>3, <1>4, Zenon DEF Marked
<1>6. Postponed(row) \in Row
  BY <1>1, <1>2, <1>3, <1>4, Zenon DEF Postponed
<1> QED
  BY <1>3, <1>5, <1>6, Zenon

\* What marking and postponing leave of a row.
LEMMA RowFields ==
    ASSUME NEW row \in Row
    PROVE  /\ Marked(row).published /\ Marked(row).token = NoToken
           /\ Marked(row).due = row.due /\ Marked(row).committed = row.committed
           /\ Postponed(row).published = row.published /\ Postponed(row).token = NoToken
           /\ Postponed(row).committed = row.committed
  BY DEF Row, Marked, Postponed

\* Neither a commit nor the passing of time publishes a row or moves a lease.
LEMMA TimeEffect ==
    ASSUME Types, NEW e \in Events, Enqueue(e) \/ BecomeDue(e) \/ Expire(e)
    PROVE  \A f \in Events : rows'[f].published = rows[f].published /\ rows'[f].token = rows[f].token
<1>1. CASE Enqueue(e)
  <2>1. PICK due \in BOOLEAN : rows' = [rows EXCEPT ![e] = [@ EXCEPT !.committed = TRUE, !.due = due]]
    BY <1>1 DEF Enqueue
  <2> QED
    BY <2>1 DEF Types, Row
<1>2. CASE BecomeDue(e)
  BY <1>2 DEF BecomeDue, Types, Row
<1>3. CASE Expire(e)
  BY <1>3 DEF Expire, Types, Row
<1> QED
  BY <1>1, <1>2, <1>3

-------------------------------------------------------------------------------
\* Every step keeps the types.
LEMMA TypesStep == Types /\ [Next]_vars => Types'
<1> SUFFICES ASSUME Types, [Next]_vars PROVE Types'
  OBVIOUS
<1> USE OutboxAssumption
<1>1. ASSUME NEW e \in Events, Enqueue(e) PROVE Types'
  <2>1. PICK due \in BOOLEAN : rows' = [rows EXCEPT ![e] = [@ EXCEPT !.committed = TRUE, !.due = due]]
    BY <1>1 DEF Enqueue
  <2>2. [rows[e] EXCEPT !.committed = TRUE, !.due = due] \in Row
    BY RowTypes DEF Types
  <2> QED
    BY <1>1, <2>1, <2>2 DEF Enqueue, Types
<1>2. ASSUME NEW e \in Events, BecomeDue(e) PROVE Types'
  BY <1>2 DEF BecomeDue, Types, Row
<1>3. ASSUME NEW e \in Events, Expire(e) PROVE Types'
  <2>1. rows' \in [Events -> Row]
    BY <1>3 DEF Expire, Types, Row
  <2>2. faults' \in 0 .. MaxFaults
    BY <1>3 DEF Expire, Fault, NoFault, Types
  <2> QED
    BY <1>3, <2>1, <2>2 DEF Expire, Types
<1>4. ASSUME NEW p \in Publishers, ClaimPending(p) PROVE Types'
  BY <1>4, ClaimEffect
<1>5. ASSUME NEW p \in Publishers, NEW e \in Events, Send(p, e) PROVE Types'
  <2>1. PICK s \in {"mark", "reschedule"} :
              /\ Advance(p, e, s)
              /\ s = "mark" => copies' = [copies EXCEPT ![e] = @ + 1] /\ faults' = faults
              /\ s = "reschedule" =>
                    /\ copies' = [copies EXCEPT ![e] = @ + 1] \/ copies' = copies
                    /\ faults < MaxFaults /\ faults' = faults + 1
    BY <1>5, SendEffect
  <2>2. job' \in [Publishers -> Jobs]
    BY <2>1, AdvanceEffect DEF Steps
  <2>3. copies' \in [Events -> Nat]
    BY <2>1 DEF Types
  <2>4. faults' \in 0 .. MaxFaults
    BY <2>1 DEF Types
  <2> QED
    BY <1>5, <2>2, <2>3, <2>4 DEF Send, Types
<1>6. ASSUME NEW p \in Publishers, NEW e \in Events, MarkPublished(p, e) PROVE Types'
  <2>1. job' \in [Publishers -> Jobs]
    BY <1>6, AdvanceEffect DEF MarkPublished, Steps
  <2>2. Marked(rows[e]) \in Row
    BY RowTypes DEF Types
  <2>3. rows' \in [Events -> Row]
    BY <1>6, <2>2 DEF MarkPublished, Types
  <2> QED
    BY <1>6, <2>1, <2>3 DEF MarkPublished, Fault, NoFault, Types
<1>7. ASSUME NEW p \in Publishers, NEW e \in Events, Reschedule(p, e) PROVE Types'
  <2>1. job' \in [Publishers -> Jobs]
    BY <1>7, AdvanceEffect DEF Reschedule, Steps
  <2>2. Postponed(rows[e]) \in Row
    BY RowTypes DEF Types
  <2>3. rows' \in [Events -> Row]
    BY <1>7, <2>2 DEF Reschedule, Types
  <2> QED
    BY <1>7, <2>1, <2>3 DEF Reschedule, Fault, NoFault, Types
<1>8. ASSUME NEW p \in Publishers, Stop(p) PROVE Types'
  BY <1>8, NoJobType DEF Stop, Fault, Types
<1>9. ASSUME NEW p \in Publishers, Start(p) PROVE Types'
  BY <1>9 DEF Start, Types
<1>10. CASE UNCHANGED vars
  BY <1>10 DEF vars, Types
<1> QED
  BY <1>1, <1>2, <1>3, <1>4, <1>5, <1>6, <1>7, <1>8, <1>9, <1>10 DEF Next, Run, Quiet

\* A batch is bounded when it is claimed and only gets smaller.
LEMMA BatchShrinks ==
    ASSUME NEW S, NEW T, S \subseteq T, T \subseteq Events, Cardinality(T) <= BatchSize
    PROVE  Cardinality(S) <= BatchSize
<1>1. IsFiniteSet(T)
  BY FS_Subset, OutboxAssumption
<1>2. IsFiniteSet(S) /\ Cardinality(S) <= Cardinality(T)
  BY <1>1, FS_Subset
<1> QED
  BY <1>1, <1>2, FS_CardinalityType, OutboxAssumption

\* No batch is within the limit.
LEMMA NoBatch == Cardinality({}) <= BatchSize
  BY FS_EmptySet, OutboxAssumption

\* An event that goes on makes no batch larger.
LEMMA BatchAdvances ==
    ASSUME Types, BatchesFit, NEW p \in Publishers, NEW e \in Events, NEW s \in Steps,
           job[p].step[e] # "done", Advance(p, e, s)
    PROVE  BatchesFit'
<1> SUFFICES ASSUME NEW q \in Publishers PROVE Cardinality(Working(q)') <= BatchSize
  BY DEF BatchesFit
<1>1. Working(q)' \subseteq Working(q) /\ Working(q) \subseteq Events
  BY AdvanceEffect DEF Working
<1> QED
  BY <1>1, BatchShrinks DEF BatchesFit

\* Every step keeps the batches within the limit.
LEMMA BatchesStep == Types /\ BatchesFit /\ [Next]_vars => BatchesFit'
<1> SUFFICES ASSUME Types, BatchesFit, [Next]_vars PROVE BatchesFit'
  OBVIOUS
<1>1. CASE UNCHANGED job
  BY <1>1 DEF BatchesFit, Working
<1>2. ASSUME NEW p \in Publishers, ClaimPending(p) PROVE BatchesFit'
  <2>1. PICK batch \in SUBSET Events : Cardinality(batch) <= BatchSize /\ ClaimBatch(p, batch)
    BY <1>2, ClaimEffect
  <2> SUFFICES ASSUME NEW q \in Publishers PROVE Cardinality(Working(q)') <= BatchSize
    BY DEF BatchesFit
  <2>2. CASE q = p
    <3>1. Working(q)' = batch
      BY <2>1, <2>2 DEF ClaimBatch, Working, Types
    <3> QED
      BY <2>1, <3>1
  <2>3. CASE q # p
    BY <2>1, <2>3 DEF ClaimBatch, Working, Types, BatchesFit
  <2> QED
    BY <2>2, <2>3
<1>3. ASSUME NEW p \in Publishers, NEW e \in Events,
             Send(p, e) \/ MarkPublished(p, e) \/ Reschedule(p, e)
      PROVE  BatchesFit'
  <2>1. job[p].step[e] # "done" /\ \E s \in Steps : Advance(p, e, s)
    BY <1>3 DEF Send, AfterError, MarkPublished, Reschedule, Steps
  <2> QED
    BY <2>1, BatchAdvances
<1>4. ASSUME NEW p \in Publishers, Stop(p) PROVE BatchesFit'
  <2> SUFFICES ASSUME NEW q \in Publishers PROVE Cardinality(Working(q)') <= BatchSize
    BY DEF BatchesFit
  <2>1. CASE q = p
    <3>1. Working(q)' = {}
      BY <1>4, <2>1 DEF Stop, Working, NoJob, Types
    <3> QED
      BY <3>1, NoBatch
  <2>2. CASE q # p
    BY <1>4, <2>2 DEF Stop, Working, Types, BatchesFit
  <2> QED
    BY <2>1, <2>2
<1> QED
  BY <1>1, <1>2, <1>3, <1>4
  DEF Next, Run, Quiet, vars, Enqueue, BecomeDue, Expire, Start

\* Every variable keeps its type, and no batch is larger than BatchSize.
THEOREM TypeCorrect == Spec => []TypeOK
<1>1. Init => Types /\ BatchesFit
  <2> SUFFICES ASSUME Init PROVE Types /\ BatchesFit
    OBVIOUS
  <2>1. Types
    BY NoJobType, OutboxAssumption DEF Init, Types, Row
  <2>2. \A p \in Publishers : Working(p) = {}
    BY DEF Init, Working, NoJob
  <2> QED
    BY <2>1, <2>2, NoBatch DEF BatchesFit
<1>2. Types /\ BatchesFit => TypeOK
  BY DEF Types, BatchesFit, TypeOK, Jobs
<1> QED
  BY <1>1, <1>2, TypesStep, BatchesStep, PTL DEF Spec

-------------------------------------------------------------------------------
(***************************************************************************)
(* The leases: a publisher at work has a token, no two have the same, and  *)
(* a row with a token is one that waits to be published.                   *)
(***************************************************************************)

JobsHaveTokens ==
    \A p \in Publishers : \A e \in Events :
        job[p].step[e] # "done" => job[p].token # NoToken

TokensDiffer ==
    \A p, q \in Publishers : job[p].token = job[q].token => p = q \/ job[p].token = NoToken

LeasedIsPending ==
    \A e \in Events :
        rows[e].token # NoToken => rows[e].committed /\ rows[e].due /\ ~rows[e].published

PublishedWasDue == \A e \in Events : rows[e].published => rows[e].committed /\ rows[e].due

Leases == JobsHaveTokens /\ TokensDiffer /\ LeasedIsPending /\ PublishedWasDue

\* An event that goes on leaves the tokens where they are, or drops that of a finished batch.
LEMMA JobsAdvance ==
    ASSUME Types, JobsHaveTokens, TokensDiffer, NEW p \in Publishers, NEW e \in Events, NEW s \in Steps,
           job[p].step[e] # "done", Advance(p, e, s)
    PROVE  JobsHaveTokens' /\ TokensDiffer'
<1>1. /\ \A q \in Publishers : q # p => job'[q] = job[q]
      /\ \A f \in Events : f # e => job'[p].step[f] = job[p].step[f]
      /\ \/ job'[p].token = job[p].token
         \/ job'[p].token = NoToken /\ \A f \in Events : job'[p].step[f] = "done"
  BY AdvanceEffect
<1>2. JobsHaveTokens'
  BY <1>1 DEF JobsHaveTokens
<1>3. TokensDiffer'
  BY <1>1 DEF TokensDiffer
<1> QED
  BY <1>2, <1>3

\* Every step keeps the tokens apart.
LEMMA LeasesStep == Types /\ Leases /\ [Next]_vars => Leases'
<1> SUFFICES ASSUME Types, Leases, [Next]_vars PROVE Leases'
  OBVIOUS
<1> USE DEF Leases
<1>1. ASSUME NEW e \in Events, Enqueue(e) PROVE Leases'
  <2>1. PICK due \in BOOLEAN : rows' = [rows EXCEPT ![e] = [@ EXCEPT !.committed = TRUE, !.due = due]]
    BY <1>1 DEF Enqueue
  <2>2. rows[e].token = NoToken /\ ~rows[e].published
    BY <1>1 DEF Enqueue, LeasedIsPending, PublishedWasDue
  <2>3. rows'[e].token = rows[e].token /\ rows'[e].published = rows[e].published
    BY <2>1 DEF Types, Row
  <2>4. \A f \in Events : f # e => rows'[f] = rows[f]
    BY <2>1 DEF Types
  <2>5. LeasedIsPending' /\ PublishedWasDue'
    BY <2>2, <2>3, <2>4 DEF LeasedIsPending, PublishedWasDue
  <2> QED
    BY <1>1, <2>5 DEF Enqueue, JobsHaveTokens, TokensDiffer
<1>2. ASSUME NEW e \in Events, BecomeDue(e) PROVE Leases'
  <2>1. LeasedIsPending' /\ PublishedWasDue'
    BY <1>2 DEF BecomeDue, LeasedIsPending, PublishedWasDue, Types, Row
  <2> QED
    BY <1>2, <2>1 DEF BecomeDue, JobsHaveTokens, TokensDiffer
<1>3. ASSUME NEW e \in Events, Expire(e) PROVE Leases'
  <2>1. LeasedIsPending' /\ PublishedWasDue'
    BY <1>3 DEF Expire, LeasedIsPending, PublishedWasDue, Types, Row
  <2> QED
    BY <1>3, <2>1 DEF Expire, JobsHaveTokens, TokensDiffer
<1>4. ASSUME NEW p \in Publishers, ClaimPending(p) PROVE Leases'
  <2>1. PICK batch \in SUBSET Events : (\A e \in batch : Claimable(e)) /\ ClaimBatch(p, batch)
    BY <1>4, ClaimEffect
  <2>2. NewToken \in Tokens /\ NewToken # NoToken /\ \A q \in Publishers : job[q].token # NewToken
    BY <1>4, FreshToken, OutboxAssumption DEF ClaimPending
  <2>3. /\ job'[p].token = NewToken
        /\ \A q \in Publishers : q # p => job'[q] = job[q]
    BY <2>1 DEF ClaimBatch, Types
  <2>4. JobsHaveTokens' /\ TokensDiffer'
    BY <2>2, <2>3 DEF JobsHaveTokens, TokensDiffer
  <2>5. \A e \in Events : /\ rows'[e].published = rows[e].published
                          /\ rows'[e].due = rows[e].due /\ rows'[e].committed = rows[e].committed
                          /\ e \notin batch => rows'[e].token = rows[e].token
    BY <2>1 DEF ClaimBatch, Types, Row
  <2>6. LeasedIsPending' /\ PublishedWasDue'
    BY <2>1, <2>5 DEF LeasedIsPending, PublishedWasDue, Claimable
  <2> QED
    BY <2>4, <2>6
<1>5. ASSUME NEW p \in Publishers, NEW e \in Events, Send(p, e) PROVE Leases'
  <2>1. JobsHaveTokens' /\ TokensDiffer'
    BY <1>5, JobsAdvance DEF Send, AfterError, Steps
  <2> QED
    BY <1>5, <2>1 DEF Send, LeasedIsPending, PublishedWasDue
<1>6. ASSUME NEW p \in Publishers, NEW e \in Events, MarkPublished(p, e) PROVE Leases'
  <2>1. JobsHaveTokens' /\ TokensDiffer'
    BY <1>6, JobsAdvance DEF MarkPublished, Steps
  <2>2. Holds(p, e) => rows[e].committed /\ rows[e].due
    BY <1>6 DEF MarkPublished, Holds, JobsHaveTokens, LeasedIsPending
  <2>3. \/ rows' = rows
        \/ Holds(p, e) /\ rows' = [rows EXCEPT ![e] = Marked(rows[e])]
    BY <1>6 DEF MarkPublished, Types
  <2>4. LeasedIsPending' /\ PublishedWasDue'
    BY <2>2, <2>3, RowFields DEF LeasedIsPending, PublishedWasDue, Types
  <2> QED
    BY <2>1, <2>4
<1>7. ASSUME NEW p \in Publishers, NEW e \in Events, Reschedule(p, e) PROVE Leases'
  <2>1. JobsHaveTokens' /\ TokensDiffer'
    BY <1>7, JobsAdvance DEF Reschedule, Steps
  <2>2. Holds(p, e) => ~rows[e].published
    BY <1>7 DEF Reschedule, Holds, JobsHaveTokens, LeasedIsPending
  <2>3. \/ rows' = rows
        \/ Holds(p, e) /\ rows' = [rows EXCEPT ![e] = Postponed(rows[e])]
    BY <1>7 DEF Reschedule, Types
  <2>4. LeasedIsPending' /\ PublishedWasDue'
    BY <2>2, <2>3, RowFields DEF LeasedIsPending, PublishedWasDue, Types
  <2> QED
    BY <2>1, <2>4
<1>8. ASSUME NEW p \in Publishers, Stop(p) PROVE Leases'
  BY <1>8 DEF Stop, NoJob, Types, JobsHaveTokens, TokensDiffer, LeasedIsPending, PublishedWasDue
<1>9. ASSUME NEW p \in Publishers, Start(p) PROVE Leases'
  BY <1>9 DEF Start, JobsHaveTokens, TokensDiffer, LeasedIsPending, PublishedWasDue
<1>10. CASE UNCHANGED vars
  BY <1>10 DEF vars, JobsHaveTokens, TokensDiffer, LeasedIsPending, PublishedWasDue
<1> QED
  BY <1>1, <1>2, <1>3, <1>4, <1>5, <1>6, <1>7, <1>8, <1>9, <1>10 DEF Next, Run, Quiet

\* Types and tokens hold in every reachable state.
LEMMA Invariants == Spec => [](Types /\ Leases)
<1>1. Init => Types
  BY NoJobType, OutboxAssumption DEF Init, Types, Row
<1>2. Init => Leases
  BY DEF Init, NoJob, Leases, JobsHaveTokens, TokensDiffer, LeasedIsPending, PublishedWasDue
<1> QED
  BY <1>1, <1>2, TypesStep, LeasesStep, PTL DEF Spec

\* A published row is never written again: only a row that waits can have a token,
\* and only the holder of its token marks or reschedules it.
LEMMA SettledStep ==
    ASSUME Types, Leases, [Next]_vars, NEW e \in Events PROVE StaysSettled(e)
<1> SUFFICES ASSUME rows[e].published PROVE rows'[e] = rows[e]
  BY DEF StaysSettled
<1>1. rows[e].token = NoToken /\ rows[e].committed /\ rows[e].due
  BY DEF Leases, LeasedIsPending, PublishedWasDue
<1>2. ASSUME NEW f \in Events, Enqueue(f) \/ BecomeDue(f) \/ Expire(f) PROVE rows'[e] = rows[e]
  BY <1>1, <1>2 DEF Enqueue, BecomeDue, Expire, Types
<1>3. ASSUME NEW p \in Publishers, ClaimPending(p) PROVE rows'[e] = rows[e]
  BY <1>3, ClaimEffect DEF ClaimBatch, Claimable
<1>4. ASSUME NEW p \in Publishers, NEW f \in Events,
             Send(p, f) \/ MarkPublished(p, f) \/ Reschedule(p, f)
      PROVE  rows'[e] = rows[e]
  <2>1. job[p].step[f] # "done" => job[p].token # NoToken
    BY DEF Leases, JobsHaveTokens
  <2> QED
    BY <1>1, <1>4, <2>1 DEF Send, MarkPublished, Reschedule, Holds, Types
<1>5. ASSUME NEW p \in Publishers, Stop(p) \/ Start(p) PROVE rows'[e] = rows[e]
  BY <1>5 DEF Stop, Start
<1> QED
  BY <1>2, <1>3, <1>4, <1>5 DEF Next, Run, Quiet, vars

\* A lease that is not over ends when its holder has marked or rescheduled the event.
LEMMA LeaseEndStep ==
    ASSUME Types, [Next]_vars, NEW e \in Events PROVE EndedByHolder(e)
<1> SUFFICES ASSUME rows[e].token # NoToken, ~rows[e].stale, rows'[e].token # rows[e].token
             PROVE  \E p \in Publishers : Holds(p, e) /\ e \in Working(p) /\ job'[p].step[e] = "done"
  BY DEF EndedByHolder
<1>1. ASSUME NEW f \in Events, Enqueue(f) \/ BecomeDue(f) \/ Expire(f) PROVE FALSE
  BY <1>1, TimeEffect
<1>2. ASSUME NEW p \in Publishers, ClaimPending(p) PROVE FALSE
  BY <1>2, ClaimEffect DEF ClaimBatch, Claimable
<1>3. ASSUME NEW p \in Publishers, NEW f \in Events, MarkPublished(p, f) \/ Reschedule(p, f)
      PROVE  Holds(p, e) /\ e \in Working(p) /\ job'[p].step[e] = "done"
  <2>1. f = e /\ Holds(p, e) /\ e \in Working(p)
    BY <1>3 DEF MarkPublished, Reschedule, Types, Working
  <2>2. job'[p].step[e] = "done"
    BY <1>3, <2>1, AdvanceEffect DEF MarkPublished, Reschedule, Steps
  <2> QED
    BY <2>1, <2>2
<1>4. ASSUME NEW p \in Publishers, Stop(p) \/ Start(p) \/ \E f \in Events : Send(p, f) PROVE FALSE
  BY <1>4 DEF Stop, Start, Send
<1> QED
  BY <1>1, <1>2, <1>3, <1>4 DEF Next, Run, Quiet, vars

\* The fencing by lock tokens, for any number of publishers, leases that run out and
\* batches of any size.
THEOREM TokensFenceCorrect == Spec => TokensFence
<1>1. Types /\ Leases /\ [Next]_vars
        => [\A e \in Events : StaysSettled(e) /\ EndedByHolder(e)]_vars
  BY SettledStep, LeaseEndStep
<1> QED
  BY <1>1, Invariants, PTL DEF Spec, TokensFence

-------------------------------------------------------------------------------
(***************************************************************************)
(* Sent before marked.                                                     *)
(***************************************************************************)

SentBeforeMark ==
    \A p \in Publishers : \A e \in Events : job[p].step[e] = "mark" => copies[e] >= 1

\* Every step keeps the order of sending and marking.
LEMMA SentStep ==
    Types /\ SentBeforeMark /\ MarkedIsSent /\ [Next]_vars => (SentBeforeMark /\ MarkedIsSent)'
<1> SUFFICES ASSUME Types, SentBeforeMark, MarkedIsSent, [Next]_vars
             PROVE  SentBeforeMark' /\ MarkedIsSent'
  OBVIOUS
<1> USE DEF SentBeforeMark, MarkedIsSent
<1>1. ASSUME NEW e \in Events, Enqueue(e) \/ BecomeDue(e) \/ Expire(e)
      PROVE  SentBeforeMark' /\ MarkedIsSent'
  <2>1. \A f \in Events : rows'[f].published = rows[f].published
    BY <1>1, TimeEffect
  <2> QED
    BY <1>1, <2>1 DEF Enqueue, BecomeDue, Expire
<1>2. ASSUME NEW p \in Publishers, ClaimPending(p) PROVE SentBeforeMark' /\ MarkedIsSent'
  <2>1. PICK batch \in SUBSET Events : ClaimBatch(p, batch)
    BY <1>2, ClaimEffect
  <2>2. \A f \in Events : rows'[f].published = rows[f].published
    BY <2>1 DEF ClaimBatch, Types, Row
  <2>3. \A q \in Publishers : \A f \in Events : job'[q].step[f] = "mark" => job[q].step[f] = "mark"
    BY <2>1 DEF ClaimBatch, Types
  <2> QED
    BY <2>1, <2>2, <2>3 DEF ClaimBatch
<1>3. ASSUME NEW p \in Publishers, NEW e \in Events, Send(p, e) PROVE SentBeforeMark' /\ MarkedIsSent'
  <2>1. PICK s \in {"mark", "reschedule"} :
            /\ Advance(p, e, s)
            /\ s = "mark" => copies' = [copies EXCEPT ![e] = @ + 1]
            /\ copies' = [copies EXCEPT ![e] = @ + 1] \/ copies' = copies
    BY <1>3, SendEffect
  <2>2. \A f \in Events : copies[f] \in Nat /\ copies'[f] >= copies[f]
    BY <2>1 DEF Types
  <2>3. s = "mark" => copies'[e] >= 1
    BY <2>1 DEF Types
  <2>4. /\ \A q \in Publishers : q # p => job'[q] = job[q]
        /\ \A f \in Events : f # e => job'[p].step[f] = job[p].step[f]
        /\ job'[p].step[e] = s
    BY <2>1, AdvanceEffect DEF Steps
  <2>5. \A f \in Events : copies'[f] \in Nat
    BY <2>1 DEF Types
  <2>6. SentBeforeMark'
    BY <2>2, <2>3, <2>4, <2>5
  <2> QED
    BY <1>3, <2>2, <2>5, <2>6 DEF Send
<1>4. ASSUME NEW p \in Publishers, NEW e \in Events, MarkPublished(p, e) \/ Reschedule(p, e)
      PROVE  SentBeforeMark' /\ MarkedIsSent'
  <2>1. /\ \A q \in Publishers : q # p => job'[q] = job[q]
        /\ \A f \in Events : f # e => job'[p].step[f] = job[p].step[f]
        /\ job'[p].step[e] = "done"
    BY <1>4, AdvanceEffect DEF MarkPublished, Reschedule, Steps
  <2>2. SentBeforeMark'
    BY <1>4, <2>1 DEF MarkPublished, Reschedule
  <2>3. \A f \in Events : rows'[f].published => rows[f].published \/ (f = e /\ job[p].step[e] = "mark")
    <3>1. CASE MarkPublished(p, e)
      BY <3>1 DEF MarkPublished, Types
    <3>2. CASE Reschedule(p, e)
      <4>1. Postponed(rows[e]).published = rows[e].published
        BY RowFields DEF Types
      <4>2. rows' = rows \/ rows' = [rows EXCEPT ![e] = Postponed(rows[e])]
        BY <3>2 DEF Reschedule, Types
      <4>3. rows'[e] = rows[e] \/ rows'[e] = Postponed(rows[e])
        BY <4>2 DEF Types
      <4>4. \A f \in Events : f # e => rows'[f] = rows[f]
        BY <4>2 DEF Types
      <4> QED
        BY <4>1, <4>3, <4>4
    <3> QED
      BY <1>4, <3>1, <3>2
  <2> QED
    BY <1>4, <2>2, <2>3 DEF MarkPublished, Reschedule
<1>5. ASSUME NEW p \in Publishers, Stop(p) \/ Start(p) PROVE SentBeforeMark' /\ MarkedIsSent'
  BY <1>5 DEF Stop, Start, NoJob, Types
<1>6. CASE UNCHANGED vars
  BY <1>6 DEF vars
<1> QED
  BY <1>1, <1>2, <1>3, <1>4, <1>5, <1>6 DEF Next, Run, Quiet

\* No event is lost: what is marked published, the broker has.
THEOREM MarkedIsSentCorrect == Spec => []MarkedIsSent
<1>1. Init => SentBeforeMark /\ MarkedIsSent
  BY DEF Init, NoJob, SentBeforeMark, MarkedIsSent
<1> QED
  BY <1>1, SentStep, Invariants, PTL DEF Spec

-------------------------------------------------------------------------------
(***************************************************************************)
(* Copies.  CopiesNeedFaults forgets what is still to be sent, so it is    *)
(* not inductive.  Count a publisher that is about to send an event as a   *)
(* copy of it.  Then the one copy that costs no fault belongs to the       *)
(* publisher that works under a lease that is not over, and stays with the *)
(* row when it is published.                                               *)
(***************************************************************************)

Sending(e) == {p \in Publishers : job[p].step[e] = "send"}

FreeCopy(e) ==
    \/ rows[e].published
    \/ \E p \in Publishers :
          Holds(p, e) /\ ~rows[e].stale /\ job[p].step[e] \in {"send", "mark"}

CopiesPaid ==
    \A e \in Events :
        copies[e] + Cardinality(Sending(e)) <= faults + (IF FreeCopy(e) THEN 1 ELSE 0)

\* The publishers about to send an event can be counted.
LEMMA SendingFinite ==
    ASSUME NEW e \in Events
    PROVE  IsFiniteSet(Sending(e)) /\ Cardinality(Sending(e)) \in Nat
<1>1. Sending(e) \subseteq Publishers
  BY DEF Sending
<1> QED
  BY <1>1, FS_Subset, FS_CardinalityType, OutboxAssumption

\* The account of the copies is within the bound of the property.
LEMMA CopiesFromPaid == Types /\ CopiesPaid => CopiesNeedFaults
<1> SUFFICES ASSUME Types, CopiesPaid, NEW e \in Events PROVE copies[e] <= 1 + faults
  BY DEF CopiesNeedFaults
<1>1. copies[e] \in Nat /\ faults \in Nat /\ Cardinality(Sending(e)) \in Nat
  BY SendingFinite, OutboxAssumption DEF Types
<1>2. copies[e] + Cardinality(Sending(e)) <= faults + 1
  <2>1. copies[e] + Cardinality(Sending(e)) <= faults + (IF FreeCopy(e) THEN 1 ELSE 0)
    BY DEF CopiesPaid
  <2> QED
    BY <1>1, <2>1
<1> QED
  BY <1>1, <1>2

\* A step that pays with a fault and sends nothing more, or that takes nothing
\* from an event, keeps its account.
LEMMA AccountKept ==
    ASSUME Types, Types', CopiesPaid, NEW e \in Events,
           copies'[e] + Cardinality(Sending(e)') <= copies[e] + Cardinality(Sending(e)),
           \/ faults' = faults + 1
           \/ faults' = faults /\ (FreeCopy(e) => FreeCopy(e)')
    PROVE  copies'[e] + Cardinality(Sending(e)') <= faults' + (IF FreeCopy(e)' THEN 1 ELSE 0)
<1>1. /\ copies[e] \in Nat /\ faults \in Nat /\ Cardinality(Sending(e)) \in Nat
      /\ copies'[e] \in Nat /\ faults' \in Nat
  BY SendingFinite, OutboxAssumption DEF Types
<1>2. Cardinality(Sending(e)') \in Nat
  <2>1. Sending(e)' \subseteq Publishers
    BY DEF Sending
  <2> QED
    BY <2>1, FS_Subset, FS_CardinalityType, OutboxAssumption
<1>3. copies[e] + Cardinality(Sending(e)) <= faults + (IF FreeCopy(e) THEN 1 ELSE 0)
  BY DEF CopiesPaid
<1> DEFINE before == copies[e] + Cardinality(Sending(e))
           after == copies'[e] + Cardinality(Sending(e)')
<1>4. before \in Nat /\ after \in Nat /\ after <= before
  BY <1>1, <1>2
<1> HIDE DEF before, after
<1>5. after <= faults' + (IF FreeCopy(e)' THEN 1 ELSE 0)
  <2>1. before <= faults + (IF FreeCopy(e) THEN 1 ELSE 0)
    BY <1>3 DEF before
  <2>2. CASE faults' = faults + 1
    BY <1>1, <1>4, <2>1, <2>2
  <2>3. CASE faults' = faults /\ (FreeCopy(e) => FreeCopy(e)')
    BY <1>1, <1>4, <2>1, <2>3
  <2> QED
    BY <2>2, <2>3
<1> QED
  BY <1>5 DEF after

\* Whoever sends, the event it sends moves from its account to the copies.
LEMMA SendingAdvance ==
    ASSUME Types, NEW p \in Publishers, NEW e \in Events, NEW s \in Steps \ {"send"}, Advance(p, e, s)
    PROVE  /\ \A f \in Events : f # e => Sending(f)' = Sending(f)
           /\ Sending(e)' = Sending(e) \ {p}
           /\ Cardinality(Sending(e)') = IF job[p].step[e] = "send"
                                         THEN Cardinality(Sending(e)) - 1 ELSE Cardinality(Sending(e))
<1>1. /\ \A q \in Publishers : q # p => job'[q] = job[q]
      /\ \A f \in Events : f # e => job'[p].step[f] = job[p].step[f]
      /\ job'[p].step[e] = s
  BY AdvanceEffect
<1>2. Sending(e)' = Sending(e) \ {p}
  BY <1>1 DEF Sending
<1>3. \A f \in Events : f # e => Sending(f)' = Sending(f)
  BY <1>1 DEF Sending
<1>4. p \in Sending(e) <=> job[p].step[e] = "send"
  BY DEF Sending
<1>5. Cardinality(Sending(e) \ {p}) = IF p \in Sending(e) THEN Cardinality(Sending(e)) - 1
                                                         ELSE Cardinality(Sending(e))
  BY SendingFinite, FS_RemoveElement
<1> QED
  BY <1>2, <1>3, <1>4, <1>5

\* Who works under a lease that is not over goes on doing so, unless it is done
\* with the event.
LEMMA FreeCopyAdvance ==
    ASSUME Types, NEW p \in Publishers, NEW e \in Events, NEW s \in Steps, Advance(p, e, s),
           NEW f \in Events, rows'[f] = rows[f], FreeCopy(f), f = e => s \in {"send", "mark"} \/ ~Holds(p, e)
    PROVE  FreeCopy(f)'
<1>1. /\ \A q \in Publishers : q # p => job'[q] = job[q]
      /\ \A g \in Events : g # e => job'[p].step[g] = job[p].step[g]
      /\ job'[p].step[e] = s
      /\ \/ job'[p].token = job[p].token
         \/ job'[p].token = NoToken /\ \A g \in Events : job'[p].step[g] = "done"
  BY AdvanceEffect
<1>2. CASE rows[f].published
  BY <1>2 DEF FreeCopy
<1>3. ASSUME NEW q \in Publishers, Holds(q, f), ~rows[f].stale, job[q].step[f] \in {"send", "mark"}
      PROVE  FreeCopy(f)'
  <2>1. job'[q].token = job[q].token /\ job'[q].step[f] \in {"send", "mark"}
    BY <1>1, <1>3
  <2> QED
    BY <1>3, <2>1 DEF FreeCopy, Holds
<1> QED
  BY <1>2, <1>3 DEF FreeCopy

\* A claim: the publisher about to send is paid by the free copy or by the fault that freed the row.
LEMMA CopiesClaim ==
    ASSUME Types, Types', Leases, CopiesPaid, NEW p \in Publishers, ClaimPending(p), NEW e \in Events
    PROVE  copies'[e] + Cardinality(Sending(e)') <= faults' + (IF FreeCopy(e)' THEN 1 ELSE 0)
<1>1. PICK batch \in SUBSET Events : (\A f \in batch : Claimable(f)) /\ ClaimBatch(p, batch)
  BY ClaimEffect
<1>2. job[p].step[e] = "done"
  BY DEF ClaimPending, Working
<1>3. /\ \A q \in Publishers : q # p => job'[q] = job[q]
      /\ job'[p].token = NewToken
      /\ job'[p].step[e] = IF e \in batch THEN "send" ELSE "done"
      /\ copies' = copies /\ faults' = faults
  BY <1>1 DEF ClaimBatch, Types
<1>4. CASE e \in batch
  <2>1. ~FreeCopy(e)
    BY <1>1, <1>4 DEF Claimable, FreeCopy, Holds, Leases, JobsHaveTokens
  <2>2. Sending(e)' = Sending(e) \cup {p} /\ p \notin Sending(e)
    BY <1>2, <1>3, <1>4 DEF Sending
  <2>3. Cardinality(Sending(e) \cup {p}) = Cardinality(Sending(e)) + 1
    BY <2>2, SendingFinite, FS_AddElement
  <2>4. rows'[e].token = NewToken /\ ~rows'[e].stale
    BY <1>1, <1>4 DEF ClaimBatch, Types, Row
  <2>5. FreeCopy(e)'
    BY <1>3, <1>4, <2>4 DEF FreeCopy, Holds
  <2>6. copies[e] \in Nat /\ faults \in Nat /\ Cardinality(Sending(e)) \in Nat
    BY SendingFinite, OutboxAssumption DEF Types
  <2>7. copies[e] + Cardinality(Sending(e)) <= faults
    <3>1. copies[e] + Cardinality(Sending(e)) <= faults + (IF FreeCopy(e) THEN 1 ELSE 0)
      BY DEF CopiesPaid
    <3> QED
      BY <2>1, <2>6, <3>1
  <2> QED
    BY <1>3, <2>2, <2>3, <2>5, <2>6, <2>7
<1>5. CASE e \notin batch
  <2>1. Sending(e)' = Sending(e)
    BY <1>2, <1>3, <1>5 DEF Sending
  <2>2. rows'[e] = rows[e]
    BY <1>1, <1>5 DEF ClaimBatch
  <2>3. FreeCopy(e) => FreeCopy(e)'
    BY <1>2, <1>3, <2>2 DEF FreeCopy, Holds
  <2>4. copies'[e] + Cardinality(Sending(e)') <= copies[e] + Cardinality(Sending(e))
    BY <1>3, <2>1, SendingFinite DEF Types
  <2> QED
    BY <1>3, <2>3, <2>4, AccountKept
<1> QED
  BY <1>4, <1>5

\* A send: the copy about to be sent becomes one that was sent.
LEMMA CopiesSend ==
    ASSUME Types, Types', CopiesPaid, NEW p \in Publishers, NEW e \in Events, Send(p, e), NEW f \in Events
    PROVE  copies'[f] + Cardinality(Sending(f)') <= faults' + (IF FreeCopy(f)' THEN 1 ELSE 0)
<1>1. PICK s \in {"mark", "reschedule"} :
          /\ Advance(p, e, s)
          /\ s = "mark" => copies' = [copies EXCEPT ![e] = @ + 1] /\ faults' = faults
          /\ s = "reschedule" =>
                /\ copies' = [copies EXCEPT ![e] = @ + 1] \/ copies' = copies
                /\ faults < MaxFaults /\ faults' = faults + 1
  BY SendEffect
<1>2. job[p].step[e] = "send" /\ rows' = rows
  BY DEF Send
<1>3. /\ \A g \in Events : g # e => Sending(g)' = Sending(g)
      /\ Cardinality(Sending(e)') = Cardinality(Sending(e)) - 1
  BY <1>1, <1>2, SendingAdvance DEF Steps
<1>4. copies'[f] + Cardinality(Sending(f)') <= copies[f] + Cardinality(Sending(f))
  <2>1. Cardinality(Sending(f)) \in Nat /\ copies[f] \in Nat
    BY SendingFinite DEF Types
  <2>2. copies'[f] = copies[f] \/ (f = e /\ copies'[f] = copies[f] + 1)
    BY <1>1 DEF Types
  <2> QED
    BY <1>3, <2>1, <2>2
<1>5. s = "mark" => (FreeCopy(f) => FreeCopy(f)')
  BY <1>1, <1>2, FreeCopyAdvance DEF Steps
<1> QED
  BY <1>1, <1>4, <1>5, AccountKept

\* A mark: the free copy passes from the holder to the row.
LEMMA CopiesMark ==
    ASSUME Types, Types', CopiesPaid, NEW p \in Publishers, NEW e \in Events, MarkPublished(p, e), NEW f \in Events
    PROVE  copies'[f] + Cardinality(Sending(f)') <= faults' + (IF FreeCopy(f)' THEN 1 ELSE 0)
<1>1. Advance(p, e, "done") /\ job[p].step[e] = "mark" /\ copies' = copies
  BY DEF MarkPublished
<1>2. Sending(f)' = Sending(f) \/ (f = e /\ Cardinality(Sending(f)') = Cardinality(Sending(f)))
  BY <1>1, SendingAdvance DEF Steps
<1>3. copies'[f] + Cardinality(Sending(f)') <= copies[f] + Cardinality(Sending(f))
  BY <1>1, <1>2, SendingFinite DEF Types
<1>4. \/ faults' = faults + 1
      \/ faults' = faults /\ rows' = [rows EXCEPT ![e] = IF Holds(p, e) THEN Marked(@) ELSE @]
  BY DEF MarkPublished, Fault, NoFault
<1>5. ASSUME rows' = [rows EXCEPT ![e] = IF Holds(p, e) THEN Marked(@) ELSE @], FreeCopy(f)
      PROVE  FreeCopy(f)'
  <2>1. CASE f = e /\ Holds(p, e)
    <3>1. rows'[f].published
      BY <1>5, <2>1, RowFields DEF Types
    <3> QED
      BY <3>1 DEF FreeCopy
  <2>2. CASE ~(f = e /\ Holds(p, e))
    <3>1. rows'[f] = rows[f]
      BY <1>5, <2>2 DEF Types
    <3> QED
      BY <1>1, <1>5, <2>2, <3>1, FreeCopyAdvance DEF Steps
  <2> QED
    BY <2>1, <2>2
<1> QED
  BY <1>3, <1>4, <1>5, AccountKept

\* A reschedule: who sends it again is paid by the fault behind the failure.
LEMMA CopiesReschedule ==
    ASSUME Types, Types', Leases, CopiesPaid, NEW p \in Publishers, NEW e \in Events, Reschedule(p, e), NEW f \in Events
    PROVE  copies'[f] + Cardinality(Sending(f)') <= faults' + (IF FreeCopy(f)' THEN 1 ELSE 0)
<1>1. Advance(p, e, "done") /\ job[p].step[e] = "reschedule" /\ copies' = copies
  BY DEF Reschedule
<1>2. Sending(f)' = Sending(f) \/ (f = e /\ Cardinality(Sending(f)') = Cardinality(Sending(f)))
  BY <1>1, SendingAdvance DEF Steps
<1>3. copies'[f] + Cardinality(Sending(f)') <= copies[f] + Cardinality(Sending(f))
  BY <1>1, <1>2, SendingFinite DEF Types
<1>4. \/ faults' = faults + 1
      \/ faults' = faults /\ rows' = [rows EXCEPT ![e] = IF Holds(p, e) THEN Postponed(@) ELSE @]
  BY DEF Reschedule, Fault, NoFault
<1>5. ASSUME rows' = [rows EXCEPT ![e] = IF Holds(p, e) THEN Postponed(@) ELSE @], FreeCopy(f)
      PROVE  FreeCopy(f)'
  <2>1. ~(f = e /\ Holds(p, e))
    <3> SUFFICES ASSUME f = e, Holds(p, e) PROVE FALSE
      OBVIOUS
    <3>1. job[p].token # NoToken /\ ~rows[e].published
      BY <1>1 DEF Leases, JobsHaveTokens, LeasedIsPending, Holds
    <3>2. \A q \in Publishers : Holds(q, e) => q = p
      BY <3>1 DEF Leases, TokensDiffer, Holds
    <3> QED
      BY <1>1, <1>5, <3>1, <3>2 DEF FreeCopy
  <2>2. rows'[f] = rows[f]
    BY <1>5, <2>1 DEF Types
  <2> QED
    BY <1>1, <1>5, <2>1, <2>2, FreeCopyAdvance DEF Steps
<1> QED
  BY <1>3, <1>4, <1>5, AccountKept

\* Time: only a lease that ends under its holder costs a fault.
LEMMA CopiesTime ==
    ASSUME Types, Types', CopiesPaid, NEW e \in Events, Enqueue(e) \/ BecomeDue(e) \/ Expire(e), NEW f \in Events
    PROVE  copies'[f] + Cardinality(Sending(f)') <= faults' + (IF FreeCopy(f)' THEN 1 ELSE 0)
<1>1. job' = job /\ copies' = copies
  BY DEF Enqueue, BecomeDue, Expire
<1>2. copies'[f] + Cardinality(Sending(f)') <= copies[f] + Cardinality(Sending(f))
  <2>1. Sending(f)' = Sending(f)
    BY <1>1 DEF Sending
  <2> QED
    BY <1>1, <2>1, SendingFinite DEF Types
<1>3. rows'[f].published = rows[f].published /\ rows'[f].token = rows[f].token
  BY TimeEffect
<1>4. CASE Enqueue(e) \/ BecomeDue(e)
  <2>1. rows'[f].stale = rows[f].stale
    <3>1. CASE Enqueue(e)
      <4>1. PICK due \in BOOLEAN : rows' = [rows EXCEPT ![e] = [@ EXCEPT !.committed = TRUE, !.due = due]]
        BY <3>1 DEF Enqueue
      <4> QED
        BY <4>1 DEF Types, Row
    <3>2. CASE BecomeDue(e)
      BY <3>2 DEF BecomeDue, Types, Row
    <3> QED
      BY <1>4, <3>1, <3>2
  <2>2. FreeCopy(f) => FreeCopy(f)'
    BY <1>1, <1>3, <2>1 DEF FreeCopy, Holds
  <2>3. faults' = faults
    BY <1>4 DEF Enqueue, BecomeDue
  <2> QED
    BY <1>2, <2>2, <2>3, AccountKept
<1>5. CASE Expire(e)
  <2>1. \/ faults' = faults + 1
        \/ faults' = faults /\ ~\E p \in Publishers : Holds(p, e) /\ e \in Working(p)
    BY <1>5 DEF Expire, Fault, NoFault
  <2>2. f # e => rows'[f] = rows[f]
    BY <1>5 DEF Expire, Types
  <2>3. ASSUME ~\E p \in Publishers : Holds(p, e) /\ e \in Working(p), FreeCopy(f) PROVE FreeCopy(f)'
    BY <1>1, <1>3, <2>2, <2>3 DEF FreeCopy, Holds, Working
  <2> QED
    BY <1>2, <2>1, <2>3, AccountKept
<1> QED
  BY <1>4, <1>5

\* A publisher that stops sends nothing, and its batch is a fault.
LEMMA CopiesStop ==
    ASSUME Types, Types', CopiesPaid, NEW p \in Publishers, Stop(p), NEW f \in Events
    PROVE  copies'[f] + Cardinality(Sending(f)') <= faults' + (IF FreeCopy(f)' THEN 1 ELSE 0)
<1>1. Sending(f)' \subseteq Sending(f)
  BY DEF Stop, NoJob, Sending, Types
<1>2. Cardinality(Sending(f)') <= Cardinality(Sending(f)) /\ Cardinality(Sending(f)') \in Nat
  BY <1>1, SendingFinite, FS_Subset, FS_CardinalityType
<1>3. copies'[f] + Cardinality(Sending(f)') <= copies[f] + Cardinality(Sending(f))
  BY <1>2, SendingFinite DEF Stop, Types
<1>4. faults' = faults + 1
  BY DEF Stop, Fault
<1> QED
  BY <1>3, <1>4, AccountKept

\* Every step keeps the account.
LEMMA CopiesStep == Types /\ Types' /\ Leases /\ CopiesPaid /\ [Next]_vars => CopiesPaid'
<1> SUFFICES ASSUME Types, Types', Leases, CopiesPaid, [Next]_vars, NEW f \in Events
             PROVE  copies'[f] + Cardinality(Sending(f)') <= faults' + (IF FreeCopy(f)' THEN 1 ELSE 0)
  BY DEF CopiesPaid
<1>1. CASE UNCHANGED <<rows, job, copies, faults>>
  BY <1>1 DEF CopiesPaid, Sending, FreeCopy, Holds
<1> QED
  BY <1>1, CopiesTime, CopiesClaim, CopiesSend, CopiesMark, CopiesReschedule, CopiesStop
  DEF Next, Run, Quiet, vars, Start

\* Every copy of an event beyond the first has a fault of its own, however many
\* publishers there are.
THEOREM CopiesNeedFaultsCorrect == Spec => []CopiesNeedFaults
<1>1. Init => CopiesPaid
  <2> SUFFICES ASSUME Init, NEW e \in Events
               PROVE  copies[e] + Cardinality(Sending(e)) <= faults + (IF FreeCopy(e) THEN 1 ELSE 0)
    BY DEF CopiesPaid
  <2>1. Sending(e) = {}
    BY DEF Init, NoJob, Sending
  <2>2. Cardinality(Sending(e)) = 0
    BY <2>1, FS_EmptySet
  <2> QED
    BY <2>2 DEF Init
<1>2. Types /\ Leases /\ CopiesPaid /\ [Next]_vars => CopiesPaid'
  BY TypesStep, CopiesStep
<1>3. Types /\ CopiesPaid => CopiesNeedFaults
  BY CopiesFromPaid
<1> QED
  BY <1>1, <1>2, <1>3, Invariants, PTL DEF Spec

===============================================================================
