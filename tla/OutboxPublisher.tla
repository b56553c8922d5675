--------------------------- MODULE OutboxPublisher ----------------------------
(***************************************************************************)
(* The way of an event from its outbox row to the broker.  Publishers run  *)
(* in the gRPC server and in the outbox task, on one table.  A publisher   *)
(* claims a batch of rows with a fresh lock token, sends the events of the *)
(* batch concurrently and marks each row published or reschedules it, both *)
(* only where the row still has its token.  A lease that is not given back *)
(* ends when lock_ttl is over.                                             *)
(*                                                                         *)
(* The loop is in an external library; it is modelled from the signatures  *)
(* the service wraps, the table, the wiring and the integration tests.     *)
(* max_attempts and the length of a backoff are not modelled.              *)
(***************************************************************************)
EXTENDS Integers, FiniteSets

CONSTANTS Publishers, Events,
          Tokens,           \* lock tokens: random, so never used twice
          NoToken,
          BatchSize,
          MaxFaults         \* bound: see Fault

ASSUME OutboxAssumption == 
    /\ NoToken \notin Tokens
    /\ IsFiniteSet(Publishers) /\ IsFiniteSet(Events)
    /\ BatchSize \in Nat \ {0} /\ MaxFaults \in Nat

VARIABLES rows,       \* profile.outbox_events
          up,         \* which publishers run
          job,        \* the token and the batch of each publisher
          copies,     \* how often the broker has accepted each event
          faults      \* how many faults there were

vars == <<rows, up, job, copies, faults>>

Row == [committed : BOOLEAN,    \* the row is there
        due : BOOLEAN,          \* available_at has come
        published : BOOLEAN,    \* published_at is set
        attempts : Nat,         \* delivery_attempts
        token : Tokens \cup {NoToken},    \* lock_token
        stale : BOOLEAN]        \* locked_at is more than lock_ttl ago
Steps == {"send", "mark", "reschedule", "done"}
NoJob == [token |-> NoToken, step |-> [e \in Events |-> "done"]]

Working(p) == {e \in Events : job[p].step[e] # "done"}
Holds(p, e) == rows[e].token = job[p].token

\* A rejected or unanswered message, a failed statement, a publisher that ends
\* or is slower than its lease.
Fault == faults < MaxFaults /\ faults' = faults + 1
NoFault == UNCHANGED faults

\* A publisher is through with its batch when it is through with each event of it.
Advance(p, e, s) ==
    job' = [job EXCEPT ![p] = IF s = "done" /\ Working(p) = {e} THEN NoJob
                              ELSE [@ EXCEPT !.step[e] = s]]

-------------------------------------------------------------------------------
\* The transaction of a mutation commits.  available_at is the time of the event,
\* which a client may state: it can lie ahead.
Enqueue(e) ==
    /\ ~rows[e].committed
    /\ \E due \in BOOLEAN :
         rows' = [rows EXCEPT ![e] = [@ EXCEPT !.committed = TRUE, !.due = due]]
    /\ UNCHANGED <<up, job, copies, faults>>

\* available_at comes.
BecomeDue(e) ==
    /\ rows[e].committed /\ ~rows[e].due
    /\ rows' = [rows EXCEPT ![e].due = TRUE]
    /\ UNCHANGED <<up, job, copies, faults>>

\* lock_ttl is over, for a lease left behind or one whose holder is slow.
Expire(e) ==
    /\ rows[e].token # NoToken /\ ~rows[e].stale
    /\ rows' = [rows EXCEPT ![e].stale = TRUE]
    /\ IF \E p \in Publishers : Holds(p, e) /\ e \in Working(p) THEN Fault ELSE NoFault
    /\ UNCHANGED <<up, job, copies>>

\* MUTANT: leases are not respected.
Claimable_Leased(e) == rows[e].committed /\ rows[e].due /\ ~rows[e].published

\* MUTANT: a lease never ends by itself.
Claimable_NoExpiry(e) == Claimable_Leased(e) /\ rows[e].token = NoToken

Claimable(e) ==
    /\ rows[e].committed /\ rows[e].due /\ ~rows[e].published
    /\ rows[e].token = NoToken \/ rows[e].stale

\* A token that is in no row and with no publisher is as good as one never used.
FreshTokens == {t \in Tokens : /\ \A e \in Events : rows[e].token # t
                               /\ \A p \in Publishers : job[p].token # t}
NewToken == CHOOSE t \in FreshTokens : TRUE

ClaimBatch(p, batch) ==
    /\ rows' = [e \in Events |-> IF e \in batch
                                 THEN [rows[e] EXCEPT !.token = NewToken, !.stale = FALSE]
                                 ELSE rows[e]]
    /\ job' = [job EXCEPT ![p] =
                 [token |-> NewToken,
                  step |-> [e \in Events |-> IF e \in batch THEN "send" ELSE "done"]]]
    /\ UNCHANGED <<up, copies, faults>>

\* MUTANT: the limit is not given to the query.
ClaimPending_NoLimit(p) ==
    /\ up[p] /\ Working(p) = {} /\ FreshTokens # {}
    /\ \E batch \in SUBSET {e \in Events : Claimable(e)} : batch # {} /\ ClaimBatch(p, batch)

ClaimPending(p) ==
    /\ up[p] /\ Working(p) = {} /\ FreshTokens # {}
    /\ \E batch \in SUBSET {e \in Events : Claimable(e)} :
         batch # {} /\ Cardinality(batch) <= BatchSize /\ ClaimBatch(p, batch)

\* MUTANT: the error of the publisher is dropped.
AfterError_Dropped == "mark"

AfterError == "reschedule"

\* The broker accepts the event, or it does so and the answer is lost, or it does
\* not get it.
Send(p, e) ==
    /\ job[p].step[e] = "send"
    /\ \/ Advance(p, e, "mark") /\ copies' = [copies EXCEPT ![e] = @ + 1] /\ NoFault
       \/ Advance(p, e, AfterError) /\ copies' = [copies EXCEPT ![e] = @ + 1] /\ Fault
       \/ Advance(p, e, AfterError) /\ UNCHANGED copies /\ Fault
    /\ UNCHANGED <<rows, up>>

Marked(row) == [row EXCEPT !.published = TRUE, !.attempts = @ + 1, !.token = NoToken, !.stale = FALSE]
Postponed(row) == [row EXCEPT !.due = FALSE, !.attempts = @ + 1, !.token = NoToken, !.stale = FALSE]

\* A statement that fails leaves the lease behind.
MarkPublished(p, e) ==
    /\ job[p].step[e] = "mark"
    /\ \/ rows' = [rows EXCEPT ![e] = IF Holds(p, e) THEN Marked(@) ELSE @] /\ NoFault
       \/ UNCHANGED rows /\ Fault
    /\ Advance(p, e, "done")
    /\ UNCHANGED <<up, copies>>

\* MUTANT: the row is rescheduled whoever holds it.
Reschedule_AnyToken(p, e) ==
    /\ job[p].step[e] = "reschedule"
    /\ rows' = [rows EXCEPT ![e] = Postponed(@)]
    /\ NoFault
    /\ Advance(p, e, "done")
    /\ UNCHANGED <<up, copies>>

Reschedule(p, e) ==
    /\ job[p].step[e] = "reschedule"
    /\ \/ rows' = [rows EXCEPT ![e] = IF Holds(p, e) THEN Postponed(@) ELSE @] /\ NoFault
       \/ UNCHANGED rows /\ Fault
    /\ Advance(p, e, "done")
    /\ UNCHANGED <<up, copies>>

\* AfterStop cancels the publisher and waits for it no longer than the shutdown
\* may take; a crash does not wait.  Either way the batch ends where it is.
Stop(p) ==
    /\ up[p]
    /\ Fault
    /\ up' = [up EXCEPT ![p] = FALSE]
    /\ job' = [job EXCEPT ![p] = NoJob]
    /\ UNCHANGED <<rows, copies>>

\* BeforeStart, of the same process restarted.
Start(p) ==
    /\ ~up[p]
    /\ up' = [up EXCEPT ![p] = TRUE]
    /\ UNCHANGED <<rows, job, copies, faults>>

-------------------------------------------------------------------------------
Init ==
    /\ rows = [e \in Events |-> [committed |-> FALSE, due |-> FALSE, published |-> FALSE,
                                 attempts |-> 0, token |-> NoToken, stale |-> FALSE]]
    /\ up = [p \in Publishers |-> TRUE]
    /\ job = [p \in Publishers |-> NoJob]
    /\ copies = [e \in Events |-> 0]
    /\ faults = 0

Run(p) ==
    \/ ClaimPending(p)
    \/ \E e \in Events : Send(p, e) \/ MarkPublished(p, e) \/ Reschedule(p, e)

\* Everything is published.
Quiet == (\A e \in Events : rows[e].published) /\ UNCHANGED vars

Next ==
    \/ \E e \in Events : Enqueue(e) \/ BecomeDue(e) \/ Expire(e)
    \/ \E p \in Publishers : Run(p) \/ Stop(p) \/ Start(p)
    \/ Quiet

\* Time passes, and a publisher that was stopped is started again and goes on.
Fairness ==
    /\ \A e \in Events : WF_vars(BecomeDue(e))
    /\ \A e \in Events :
         WF_vars(Expire(e) /\ ~\E p \in Publishers : Holds(p, e) /\ e \in Working(p))
    /\ \A p \in Publishers :
         /\ WF_vars(ClaimPending(p)) /\ WF_vars(Start(p))
         /\ \A e \in Events : WF_vars(Send(p, e) \/ MarkPublished(p, e) \/ Reschedule(p, e))

Spec == Init /\ [][Next]_vars
FairSpec == Spec /\ Fairness

-------------------------------------------------------------------------------
TypeOK ==
    /\ rows \in [Events -> Row]
    /\ up \in [Publishers -> BOOLEAN]
    /\ job \in [Publishers -> [token : Tokens \cup {NoToken}, step : [Events -> Steps]]]
    /\ \A p \in Publishers : Cardinality(Working(p)) <= BatchSize
    /\ copies \in [Events -> Nat]
    /\ faults \in 0 .. MaxFaults

\* What is marked published, the broker has: no event is lost.
MarkedIsSent == \A e \in Events : rows[e].published => copies[e] >= 1

\* The broker gets an event once, and once more for a fault at most, whatever the
\* number of publishers: it is the lease that keeps them apart.
CopiesNeedFaults == \A e \in Events : copies[e] <= 1 + faults

\* A row that is published stays as it is.
StaysSettled(e) == rows[e].published => rows'[e] = rows[e]
\* A lease that is not over is ended by its holder only.
EndedByHolder(e) ==
    rows[e].token # NoToken /\ ~rows[e].stale /\ rows'[e].token # rows[e].token =>
        \E p \in Publishers : Holds(p, e) /\ e \in Working(p) /\ job'[p].step[e] = "done"

\* The lock token keeps publishers apart: one that was overtaken neither counts a
\* published event again nor puts it back, and none ends the lease of another.
TokensFence == [][\A e \in Events : StaysSettled(e) /\ EndedByHolder(e)]_vars

\* Every event that was committed is published in the end.
EveryEventIsPublished == \A e \in Events : rows[e].committed ~> rows[e].published
===============================================================================
