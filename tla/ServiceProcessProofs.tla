------------------------- MODULE ServiceProcessProofs -------------------------
(***************************************************************************)
(* What holds of a process for every flag, environment and file it may     *)
(* find when it starts.                                                    *)
(***************************************************************************)
EXTENDS ServiceProcess, SequenceTheorems, TLAPS

\* The calls an injector has behind it when it is at step n.
Before(n) == {Steps(kind)[i] : i \in 1 .. n - 1}

\* Where main can be, and how far the injector is by then.
Phases == {"wiring", "starting", "serving", "stopping", "working", "closing", "ended"}
StepsKept ==
    /\ kind \in Programs /\ step \in 1 .. Len(Steps(kind)) + 1
    /\ phase \in Phases
    /\ phase = "wiring" => step <= Len(Steps(kind)) /\ worker = "none"
    /\ phase \in {"starting", "serving", "stopping", "working"} => step = Len(Steps(kind)) + 1
    /\ phase \in {"starting", "serving", "stopping"} => kind = "grpc"
    /\ phase = "working" => kind # "grpc" /\ worker = "running"

\* What is open was opened once, after all it needs; until main closes it, it
\* is what the injector has opened; what is left to close is what is open, the
\* newest first.
OpenKept ==
    /\ open \in Seq(Components)
    /\ \A i \in DOMAIN open : \A c \in Needs(open[i]) : \E j \in 1 .. i - 1 : open[j] = c
    /\ \A i \in DOMAIN open : \A j \in 1 .. i - 1 : open[j] # open[i]
    /\ phase \notin {"closing", "ended"} => Range(open) = Before(step) \cap Components
    /\ phase = "closing" => todo = Reverse(open)
    /\ phase = "ended" => open = <<>> \/ how \in {"killed", "settingsPanic", "exited"}

\* Handlers run between the start and the stop of the server; only a worker
\* that runs is in a call, and only cmd/grpc closes under one.
UsersKept ==
    /\ request # None => phase \in {"serving", "stopping"}
    /\ using # None => worker = "running" /\ phase \notin {"wiring", "starting", "ended"}
    /\ using # None /\ phase # "closing" => using \in Range(open)
    /\ worker = "running" /\ phase = "closing" => kind = "grpc" /\ ~waited
    /\ phase \notin {"closing", "ended"} => ~waited

-------------------------------------------------------------------------------
\* The orders that wire generated: no call twice, what a component needs before
\* it, the configuration first and the worker last.
LEMMA StepsOrdered ==
    ASSUME NEW k \in Programs
    PROVE  /\ Len(Steps(k)) \in Nat /\ Len(Steps(k)) >= 7
           /\ \A i \in 1 .. Len(Steps(k)) : \A j \in 1 .. i - 1 : Steps(k)[j] # Steps(k)[i]
           /\ \A i \in 1 .. Len(Steps(k)) : Steps(k)[i] \in Components =>
                 \A c \in Needs(Steps(k)[i]) : c \in Components /\ \E j \in 1 .. i - 1 : Steps(k)[j] = c
           /\ \A i \in 1 .. Len(Steps(k)) : Steps(k)[i] = "worker" <=> i = Len(Steps(k))
           /\ \A i \in 1 .. Len(Steps(k)) : Steps(k)[i] = "config" <=> i = 1
           /\ \E i \in 1 .. Len(Steps(k)) : Steps(k)[i] = "pubsub"
<1>1. CASE k = "grpc"
  <2>1. Steps(k) = GrpcSteps
    BY <1>1 DEF Steps
  <2> QED
    BY <2>1 DEF GrpcSteps, Needs, Components
<1>2. CASE k = "outbox"
  <2>1. Steps(k) = OutboxSteps
    BY <1>2 DEF Steps
  <2> QED
    BY <2>1 DEF OutboxSteps, Needs, Components
<1>3. CASE k = "inbox"
  <2>1. Steps(k) = InboxSteps
    BY <1>3 DEF Steps
  <2> QED
    BY <2>1 DEF InboxSteps, Needs, Components
<1> QED
  BY <1>1, <1>2, <1>3 DEF Programs

\* Every injector opens what its worker calls, and cmd/grpc what its handlers
\* call.
LEMMA StepsSuffice ==
    ASSUME NEW k \in Programs
    PROVE  /\ WorkerNeeds(k) \subseteq {Steps(k)[i] : i \in 1 .. Len(Steps(k))}
           /\ WorkerNeeds(k) \subseteq Components
           /\ k = "grpc" => {"jwt", "pgx", "tx"} \subseteq
                               {Steps(k)[i] : i \in 1 .. Len(Steps(k))} \cap Components
<1>1. CASE k = "grpc"
  <2>1. Steps(k) = GrpcSteps /\ WorkerNeeds(k) = {"pubsub", "pgx"}
    BY <1>1 DEF Steps, WorkerNeeds
  <2>2. Len(GrpcSteps) = 10 /\ GrpcSteps[4] = "jwt" /\ GrpcSteps[6] = "pgx" /\ GrpcSteps[7] = "tx"
        /\ GrpcSteps[9] = "pubsub"
    BY DEF GrpcSteps
  <2> QED
    BY <2>1, <2>2 DEF Components
<1>2. CASE k = "outbox"
  <2>1. Steps(k) = OutboxSteps /\ WorkerNeeds(k) = {"pubsub", "pgx"}
    BY <1>2 DEF Steps, WorkerNeeds
  <2>2. Len(OutboxSteps) = 7 /\ OutboxSteps[4] = "pgx" /\ OutboxSteps[6] = "pubsub"
    BY DEF OutboxSteps
  <2> QED
    BY <1>2, <2>1, <2>2 DEF Components
<1>3. CASE k = "inbox"
  <2>1. Steps(k) = InboxSteps /\ WorkerNeeds(k) = {"pubsub", "pgx", "tx"}
    BY <1>3 DEF Steps, WorkerNeeds
  <2>2. Len(InboxSteps) = 8 /\ InboxSteps[4] = "pubsub" /\ InboxSteps[5] = "pgx" /\ InboxSteps[7] = "tx"
    BY DEF InboxSteps
  <2> QED
    BY <1>3, <2>1, <2>2 DEF Components
<1> QED
  BY <1>1, <1>2, <1>3 DEF Programs

\* Closing the newest component: it is last among the open ones, and what is
\* left to close is again what is left open.
LEMMA CloseNewest ==
    ASSUME NEW s \in Seq(Components), Reverse(s) # <<>>, NEW i \in DOMAIN s,
           s[i] = Head(Reverse(s)), \A n \in DOMAIN s : \A j \in 1 .. n - 1 : s[j] # s[n]
    PROVE  /\ RemoveAt(s, i) \in Seq(Components) /\ Len(RemoveAt(s, i)) = Len(s) - 1
           /\ \A j \in 1 .. Len(s) - 1 : RemoveAt(s, i)[j] = s[j]
           /\ Tail(Reverse(s)) = Reverse(RemoveAt(s, i))
<1>0. Len(s) \in Nat /\ DOMAIN s = 1 .. Len(s) /\ Reverse(s) = [j \in 1 .. Len(s) |-> s[(Len(s) - j) + 1]]
  BY DEF Reverse
<1>1. Len(s) >= 1
  BY <1>0
<1>2. Reverse(s) \in Seq(Components) /\ Len(Reverse(s)) = Len(s)
  <2>1. \A j \in 1 .. Len(s) : (Len(s) - j) + 1 \in 1 .. Len(s)
    BY <1>0
  <2> QED
    BY <1>0, <2>1, IsASeq, LenProperties
<1>3. Head(Reverse(s)) = s[Len(s)]
  BY <1>0, <1>1, <1>2
<1>4. i = Len(s)
  BY <1>0, <1>1, <1>3
<1>5. RemoveAt(s, i) = SubSeq(s, 1, Len(s) - 1)
  <2>1. SubSeq(s, i + 1, Len(s)) = <<>>
    BY <1>0, <1>4, SubSeqEmpty
  <2>2. SubSeq(s, 1, i - 1) \in Seq(Components)
    BY <1>0, <1>4
  <2> QED
    BY <1>4, <2>1, <2>2, ConcatEmptySeq DEF RemoveAt
<1>6. /\ RemoveAt(s, i) \in Seq(Components) /\ Len(RemoveAt(s, i)) = Len(s) - 1
      /\ \A j \in 1 .. Len(s) - 1 : RemoveAt(s, i)[j] = s[j]
  BY <1>0, <1>1, <1>5
<1>7. Tail(Reverse(s)) = Reverse(RemoveAt(s, i))
  <2> DEFINE t == RemoveAt(s, i)
             r == Reverse(s)
  <2>0. Len(t) = Len(s) - 1 /\ \A j \in 1 .. Len(s) - 1 : t[j] = s[j]
    BY <1>6
  <2>1. r \in Seq(Components) /\ r # <<>> /\ Len(r) = Len(s)
        /\ \A j \in 1 .. Len(s) : r[j] = s[(Len(s) - j) + 1]
    BY <1>0, <1>2
  <2> HIDE DEF t, r
  <2>2. Reverse(t) = [j \in 1 .. Len(s) - 1 |-> t[((Len(s) - 1) - j) + 1]]
    BY <2>0 DEF Reverse
  <2>3. Tail(r) \in Seq(Components) /\ Len(Tail(r)) = Len(s) - 1
        /\ \A j \in 1 .. Len(s) - 1 : Tail(r)[j] = r[j + 1]
    BY <1>0, <2>1, HeadTailProperties
  <2>4. Tail(r) = [j \in 1 .. Len(s) - 1 |-> Tail(r)[j]]
    <3>1. Tail(r) \in [1 .. Len(s) - 1 -> Components]
      BY <2>3, LenProperties
    <3> QED
      BY <3>1
  <2>5. ASSUME NEW j \in 1 .. Len(s) - 1 PROVE Tail(r)[j] = t[((Len(s) - 1) - j) + 1]
    <3>1. Tail(r)[j] = s[(Len(s) - (j + 1)) + 1]
      BY <1>0, <2>1, <2>3
    <3>2. ((Len(s) - 1) - j) + 1 \in 1 .. Len(s) - 1
          /\ ((Len(s) - 1) - j) + 1 = (Len(s) - (j + 1)) + 1
      BY <1>0
    <3> QED
      BY <2>0, <3>1, <3>2
  <2>6. Tail(r) = Reverse(t)
    BY <2>2, <2>4, <2>5
  <2> QED
    BY <2>6 DEF t, r
<1> QED
  BY <1>6, <1>7

-------------------------------------------------------------------------------
\* A process starts with its clean-ups in order, nothing open and nothing in use.
LEMMA StepsInit == Init => StepsKept /\ OpenKept /\ UsersKept
<1> SUFFICES ASSUME Init PROVE StepsKept /\ OpenKept /\ UsersKept
  OBVIOUS
<1>1. StepsKept
  BY StepsOrdered DEF Init, StepsKept, Phases
<1>2. Range(open) = {} /\ Before(step) = {} /\ open \in Seq(Components) /\ DOMAIN open = {}
  BY DEF Init, Range, Before
<1> QED
  BY <1>1, <1>2 DEF Init, OpenKept, UsersKept

\* The injector goes from step to step, and main through its phases.
LEMMA StepsStep == StepsKept /\ [Next]_vars => StepsKept'
<1> SUFFICES ASSUME StepsKept, [Next]_vars PROVE StepsKept'
  OBVIOUS
<1>0. /\ Len(Steps(kind)) \in Nat
      /\ \A i \in 1 .. Len(Steps(kind)) : Steps(kind)[i] = "worker" <=> i = Len(Steps(kind))
  <2>1. kind \in Programs
    BY DEF StepsKept
  <2> QED
    BY <2>1, StepsOrdered
<1> USE DEF Phases
<1>1. CASE LoadRuntimeConfig \/ OpenComponent \/ ProvideMiddleware \/ ProvideOutboxConfig
  <2>1. phase = "wiring" /\ CurrentStep # "worker" /\ kind' = kind /\ worker' = worker
    BY <1>1 DEF LoadRuntimeConfig, OpenComponent, ProvideMiddleware, ProvideOutboxConfig,
                Components, workerVars
  <2>2. step < Len(Steps(kind))
    BY <1>0, <2>1 DEF StepsKept, CurrentStep
  <2>3. \/ step' = step + 1 /\ phase' = "wiring"
        \/ step' = step /\ phase' \in {"closing", "ended"}
    BY <1>1, <2>1 DEF LoadRuntimeConfig, OpenComponent, ProvideMiddleware, ProvideOutboxConfig,
                      Proceeds, StartClosing
  <2> QED
    BY <1>0, <2>1, <2>2, <2>3 DEF StepsKept
<1>2. CASE StartTask \/ StartApp
  <2>1. phase = "wiring" /\ CurrentStep = "worker" /\ kind' = kind /\ step' = step + 1
    BY <1>2 DEF StartTask, StartApp, BuildWorker
  <2>2. step = Len(Steps(kind))
    BY <1>0, <2>1 DEF StepsKept, CurrentStep
  <2>3. \/ kind # "grpc" /\ (phase' = "closing" \/ (phase' = "working" /\ worker' = "running"))
        \/ kind = "grpc" /\ phase' = "starting"
    <3>1. CASE StartTask
      BY <3>1 DEF StartTask, StartClosing
    <3>2. CASE StartApp
      BY <3>2 DEF StartApp
    <3> QED
      BY <1>2, <3>1, <3>2
  <2> QED
    BY <1>0, <2>1, <2>2, <2>3 DEF StepsKept
<1>3. CASE Killed \/ StartServer \/ ServerFails \/ Accept \/ Answer \/ SignalServer \/ AfterStop
  BY <1>3 DEF StepsKept, Killed, StartServer, ServerFails, Accept, Answer, SignalServer,
              AfterStop, StartClosing, wiringVars, workerVars
<1>4. CASE WorkerCalls \/ WorkerReturns \/ WorkerStops \/ WorkerFails \/ SignalTask
  BY <1>4 DEF StepsKept, WorkerCalls, WorkerReturns, WorkerStops, WorkerFails, SignalTask,
              Running, StartClosing, wiringVars
<1>5. CASE CloseNext \/ Exit
  BY <1>5 DEF StepsKept, CloseNext, Exit, wiringVars, workerVars
<1>6. CASE UNCHANGED vars
  BY <1>6 DEF StepsKept, vars
<1> QED
  BY <1>1, <1>2, <1>3, <1>4, <1>5, <1>6 DEF Next, Wire, Done

\* What a step that opens and closes nothing leaves alone.
LEMMA OpenStep == StepsKept /\ OpenKept /\ [Next]_vars => OpenKept'
<1> SUFFICES ASSUME StepsKept, OpenKept, [Next]_vars PROVE OpenKept'
  OBVIOUS
<1>0. /\ Len(Steps(kind)) \in Nat /\ step \in Nat /\ step >= 1 /\ kind \in Programs
      /\ \A i \in 1 .. Len(Steps(kind)) : \A j \in 1 .. i - 1 : Steps(kind)[j] # Steps(kind)[i]
      /\ \A i \in 1 .. Len(Steps(kind)) : Steps(kind)[i] \in Components =>
            \A c \in Needs(Steps(kind)[i]) :
               c \in Components /\ \E j \in 1 .. i - 1 : Steps(kind)[j] = c
      /\ open \in Seq(Components) /\ Len(open) \in Nat /\ DOMAIN open = 1 .. Len(open)
  <2>1. kind \in Programs /\ step \in 1 .. Len(Steps(kind)) + 1 /\ open \in Seq(Components)
    BY DEF StepsKept, OpenKept
  <2>2. Len(Steps(kind)) \in Nat
    BY <2>1, StepsOrdered
  <2>3. step \in Nat /\ step >= 1
    BY <2>1, <2>2
  <2>4. Len(open) \in Nat /\ DOMAIN open = 1 .. Len(open)
    BY <2>1, LenProperties
  <2> QED
    BY <2>1, <2>2, <2>3, <2>4, StepsOrdered
<1>1. ASSUME open' = open, phase' \notin {"closing", "ended"} =>
                              /\ phase \notin {"closing", "ended"} /\ kind' = kind
                              /\ Before(step)' \cap Components = Before(step) \cap Components,
             phase' = "closing" => todo' = Reverse(open),
             phase' = "ended" => open = <<>> \/ how' \in {"killed", "settingsPanic", "exited"}
      PROVE  OpenKept'
  BY <1>1 DEF OpenKept, Range
<1>2. ASSUME phase = "wiring", step' = step + 1, kind' = kind
      PROVE  Before(step)' = Before(step) \cup {CurrentStep}
  BY <1>0, <1>2 DEF Before, CurrentStep
<1>3. CASE OpenComponent /\ step' = step + 1
  <2>1. /\ phase = "wiring" /\ CurrentStep \in Components /\ open' = Append(open, CurrentStep)
        /\ kind' = kind /\ phase' = "wiring" /\ step \in 1 .. Len(Steps(kind))
    BY <1>0, <1>3 DEF OpenComponent, Proceeds, StepsKept
  <2>2. Range(open) = Before(step) \cap Components
    BY <2>1 DEF OpenKept
  <2>3. /\ \A c \in Needs(CurrentStep) : c \in Range(open)
        /\ CurrentStep \notin Range(open)
    <3>1. \A c \in Needs(CurrentStep) : c \in Before(step) /\ c \in Components
      BY <1>0, <2>1 DEF CurrentStep, Before
    <3>2. CurrentStep \notin Before(step)
      BY <1>0, <2>1 DEF CurrentStep, Before
    <3> QED
      BY <2>2, <3>1, <3>2
  <2>4. /\ open' \in Seq(Components) /\ DOMAIN open' = 1 .. Len(open) + 1
        /\ open'[Len(open) + 1] = CurrentStep /\ \A i \in 1 .. Len(open) : open'[i] = open[i]
    BY <1>0, <2>1, AppendProperties
  <2>5. Range(open)' = Range(open) \cup {CurrentStep}
    BY <1>0, <2>4 DEF Range
  <2>6. Range(open)' = Before(step)' \cap Components
    BY <1>2, <1>3, <2>1, <2>2, <2>5
  <2>7. ASSUME NEW i \in DOMAIN open', NEW c \in Needs(open'[i])
        PROVE  \E j \in 1 .. i - 1 : open'[j] = c
    <3>1. CASE i = Len(open) + 1
      BY <1>0, <2>3, <2>4, <2>7, <3>1 DEF Range
    <3>2. CASE i # Len(open) + 1
      <4>1. i \in DOMAIN open /\ open'[i] = open[i]
        BY <1>0, <2>4, <3>2
      <4>2. PICK j \in 1 .. i - 1 : open[j] = c
        BY <2>7, <4>1 DEF OpenKept
      <4> QED
        BY <1>0, <2>4, <4>1, <4>2
    <3> QED
      BY <3>1, <3>2
  <2>8. ASSUME NEW i \in DOMAIN open', NEW j \in 1 .. i - 1
        PROVE  open'[j] # open'[i]
    <3>1. CASE i = Len(open) + 1
      BY <1>0, <2>3, <2>4, <3>1 DEF Range
    <3>2. CASE i # Len(open) + 1
      <4>1. i \in DOMAIN open /\ open'[i] = open[i] /\ j \in 1 .. Len(open)
        BY <1>0, <2>4, <3>2
      <4> QED
        BY <2>4, <4>1 DEF OpenKept
    <3> QED
      BY <3>1, <3>2
  <2> QED
    BY <2>1, <2>4, <2>6, <2>7, <2>8 DEF OpenKept
<1>4. CASE CloseNext
  <2>1. phase = "closing" /\ phase' = "closing" /\ todo = Reverse(open) /\ todo # <<>> /\ todo' = Tail(todo)
    BY <1>4 DEF CloseNext, OpenKept
  <2>2. PICK i \in DOMAIN open : open[i] = Head(todo) /\ open' = RemoveAt(open, i)
    BY <1>4 DEF CloseNext
  <2>3. /\ open' \in Seq(Components) /\ Len(open') = Len(open) - 1
        /\ \A j \in 1 .. Len(open) - 1 : open'[j] = open[j]
        /\ todo' = Reverse(open')
    <3>1. \A n \in DOMAIN open : \A j \in 1 .. n - 1 : open[j] # open[n]
      BY DEF OpenKept
    <3>2. Reverse(open) # <<>> /\ open[i] = Head(Reverse(open))
      BY <2>1, <2>2
    <3>3. /\ RemoveAt(open, i) \in Seq(Components) /\ Len(RemoveAt(open, i)) = Len(open) - 1
          /\ \A j \in 1 .. Len(open) - 1 : RemoveAt(open, i)[j] = open[j]
          /\ Tail(Reverse(open)) = Reverse(RemoveAt(open, i))
      BY <1>0, <3>1, <3>2, CloseNewest
    <3> QED
      BY <2>1, <2>2, <3>3
  <2>4. DOMAIN open' = 1 .. Len(open) - 1
    BY <2>3
  <2>5. ASSUME NEW i_1 \in DOMAIN open' PROVE i_1 \in DOMAIN open /\ open'[i_1] = open[i_1]
                  /\ \A j \in 1 .. i_1 - 1 : open'[j] = open[j]
    BY <1>0, <2>3, <2>4
  <2>6. \A n \in DOMAIN open' : \A c \in Needs(open'[n]) : \E j \in 1 .. n - 1 : open'[j] = c
    BY <2>5 DEF OpenKept
  <2>7. \A n \in DOMAIN open' : \A j \in 1 .. n - 1 : open'[j] # open'[n]
    BY <2>5 DEF OpenKept
  <2> QED
    BY <2>1, <2>3, <2>6, <2>7 DEF OpenKept
<1>5. CASE Exit
  <2>1. phase = "closing" /\ todo = <<>> /\ open' = open /\ phase' = "ended"
    BY <1>5 DEF Exit
  <2>2. open = <<>>
    BY <1>0, <2>1 DEF OpenKept, Reverse
  <2> QED
    BY <1>1, <2>1, <2>2
<1>6. CASE LoadRuntimeConfig \/ ProvideMiddleware \/ ProvideOutboxConfig \/ (OpenComponent /\ step' # step + 1)
           \/ StartTask \/ StartApp
  <2>1. phase = "wiring" /\ kind' = kind /\ open' = open
    BY <1>6 DEF LoadRuntimeConfig, OpenComponent, ProvideMiddleware, ProvideOutboxConfig,
                StartTask, StartApp, BuildWorker, Proceeds
  <2>2. phase' \notin {"closing", "ended"} => step' = step + 1 /\ CurrentStep \notin Components
    BY <1>6, <2>1 DEF LoadRuntimeConfig, OpenComponent, ProvideMiddleware, ProvideOutboxConfig,
                StartTask, StartApp, BuildWorker, Proceeds, StartClosing, Components
  <2>3. phase' = "closing" => todo' = Reverse(open)
    BY <1>6, <2>1 DEF LoadRuntimeConfig, OpenComponent, ProvideMiddleware, ProvideOutboxConfig,
                StartTask, StartApp, Proceeds, StartClosing, Cleanups
  <2>4. phase' = "ended" => how' = "settingsPanic"
    BY <1>6, <2>1 DEF LoadRuntimeConfig, OpenComponent, ProvideMiddleware, ProvideOutboxConfig,
                StartTask, StartApp, Proceeds, StartClosing
  <2> QED
    BY <1>1, <1>2, <2>1, <2>2, <2>3, <2>4
<1>7. CASE Killed \/ StartServer \/ ServerFails \/ Accept \/ Answer \/ SignalServer \/ AfterStop
  <2>1. open' = open /\ kind' = kind /\ step' = step
    BY <1>7 DEF Killed, StartServer, ServerFails, Accept, Answer, SignalServer, AfterStop,
                wiringVars
  <2>2. phase' = "closing" => todo' = Reverse(open)
    BY <1>7 DEF Killed, StartServer, ServerFails, Accept, Answer, SignalServer, AfterStop,
                StartClosing, Cleanups, OpenKept
  <2>3. /\ phase' \notin {"closing", "ended"} => phase \notin {"closing", "ended"}
        /\ phase' = "ended" => how' = "killed" \/ (phase = "ended" /\ how' = how)
    BY <1>7 DEF Killed, StartServer, ServerFails, Accept, Answer, SignalServer, AfterStop,
                StartClosing
  <2> QED
    BY <1>1, <2>1, <2>2, <2>3 DEF Before, OpenKept
<1>8. CASE WorkerCalls \/ WorkerReturns \/ WorkerStops \/ WorkerFails \/ SignalTask
  <2>1. open' = open /\ kind' = kind /\ step' = step
    BY <1>8 DEF WorkerCalls, WorkerReturns, WorkerStops, WorkerFails, SignalTask, wiringVars
  <2>2. phase' = "closing" => todo' = Reverse(open)
    BY <1>8 DEF WorkerCalls, WorkerReturns, WorkerStops, WorkerFails, SignalTask,
                StartClosing, Cleanups, OpenKept, Running
  <2>3. /\ phase' \notin {"closing", "ended"} => phase \notin {"closing", "ended"}
        /\ phase' = "ended" => how' = "exited"
    BY <1>8 DEF WorkerCalls, WorkerReturns, WorkerStops, WorkerFails, SignalTask, StartClosing,
                Running
  <2> QED
    BY <1>1, <2>1, <2>2, <2>3 DEF Before
<1>9. CASE UNCHANGED vars
  <2>1. /\ open' = open /\ kind' = kind /\ phase' = phase /\ todo' = todo /\ how' = how
        /\ Before(step)' = Before(step)
    BY <1>9 DEF vars, Before
  <2> QED
    BY <1>1, <2>1 DEF OpenKept
<1> QED
  BY <1>3, <1>4, <1>5, <1>6, <1>7, <1>8, <1>9 DEF Next, Wire, Done

\* A step closes nothing that is still in use.
LEMMA UsersStep == StepsKept /\ OpenKept /\ UsersKept /\ [Next]_vars => UsersKept'
<1> SUFFICES ASSUME StepsKept, OpenKept, UsersKept, [Next]_vars PROVE UsersKept'
  OBVIOUS
<1>1. CASE Wire
  <2>1. /\ phase \in {"wiring", "starting"} /\ request' = request /\ using' = using
        /\ waited' = waited
        /\ phase' = "wiring" \/ step' = step + 1 \/ phase' \in {"closing", "ended"}
    BY <1>1 DEF Wire, LoadRuntimeConfig, OpenComponent, ProvideMiddleware,
                ProvideOutboxConfig, StartTask, StartApp, BuildWorker, workerVars, Proceeds,
                StartClosing
  <2>2. phase' = "closing" => worker' # "running"
    BY <1>1 DEF Wire, LoadRuntimeConfig, OpenComponent, ProvideMiddleware,
                ProvideOutboxConfig, StartTask, StartApp, BuildWorker, workerVars, Proceeds,
                StartClosing, StepsKept
  <2> QED
    BY <2>1, <2>2 DEF UsersKept
<1>2. CASE WorkerCalls
  BY <1>2 DEF WorkerCalls, UsersKept, wiringVars
<1>3. CASE WorkerReturns \/ WorkerStops \/ WorkerFails \/ SignalTask
  BY <1>3 DEF WorkerReturns, WorkerStops, WorkerFails, SignalTask, StartClosing, UsersKept,
              StepsKept, Running
<1>4. CASE StartServer \/ ServerFails \/ Accept \/ Answer \/ SignalServer \/ AfterStop
  BY <1>4 DEF StartServer, ServerFails, Accept, Answer, SignalServer, AfterStop, StartClosing,
              UsersKept, StepsKept, workerVars
<1>5. CASE CloseNext \/ Exit
  BY <1>5 DEF CloseNext, Exit, UsersKept, workerVars
<1>6. CASE UNCHANGED vars
  BY <1>6 DEF UsersKept, vars, Range
<1>7. CASE Killed
  BY <1>7 DEF Killed, Listening, UsersKept
<1> QED
  BY <1>1, <1>2, <1>3, <1>4, <1>5, <1>6, <1>7 DEF Next, Done

\* The invariant of the opening and the closing.
LEMMA KeptCorrect == Spec => [](StepsKept /\ OpenKept /\ UsersKept)
  BY StepsInit, StepsStep, OpenStep, UsersStep, PTL DEF Spec

\* Whatever is open has what it was handed, whatever the injector fails at and
\* whenever main closes; a handler has what it needs, and the worker too but for
\* a cleanup of cmd/grpc that did not see it end.
THEOREM NeedsAreOpenCorrect == Spec => []NeedsAreOpen
<1>1. ASSUME StepsKept, OpenKept, UsersKept PROVE NeedsAreOpen
  <2>1. ASSUME NEW c \in Range(open) PROVE Needs(c) \subseteq Range(open)
    <3>1. PICK i \in DOMAIN open : open[i] = c
      BY DEF Range
    <3>2. DOMAIN open = 1 .. Len(open) /\ Len(open) \in Nat
      BY <1>1, LenProperties DEF OpenKept
    <3>3. ASSUME NEW d \in Needs(c) PROVE d \in Range(open)
      <4>1. PICK j \in 1 .. i - 1 : open[j] = d
        BY <1>1, <3>1, <3>3 DEF OpenKept
      <4> QED
        BY <3>1, <3>2, <4>1 DEF Range
    <3> QED
      BY <3>3
  <2>2. ASSUME request # None PROVE {"jwt", "pgx", "tx"} \subseteq Range(open)
    <3>1. kind = "grpc" /\ kind \in Programs /\ step = Len(Steps(kind)) + 1
          /\ Range(open) = Before(step) \cap Components
      BY <1>1, <2>2 DEF UsersKept, StepsKept, OpenKept
    <3>2. Before(step) = {Steps(kind)[i] : i \in 1 .. Len(Steps(kind))}
      BY <3>1, StepsOrdered DEF Before
    <3> QED
      BY <3>1, <3>2, StepsSuffice
  <2>3. ASSUME using # None, using \notin Range(open)
        PROVE  kind = "grpc" /\ phase = "closing" /\ ~waited
    BY <1>1, <2>3 DEF UsersKept
  <2> QED
    BY <2>1, <2>2, <2>3 DEF NeedsAreOpen
<1> QED
  BY KeptCorrect, <1>1, PTL

\* Nothing stays open behind a program that ended by way of main, and nothing
\* is closed twice.
THEOREM NothingLeftOpenCorrect == Spec => []NothingLeftOpen
<1>1. ASSUME OpenKept PROVE NothingLeftOpen
  <2>1. ASSUME phase = "closing" PROVE Range(todo) = Range(open) /\ Len(todo) = Len(open)
    <3>1. todo = [j \in 1 .. Len(open) |-> open[(Len(open) - j) + 1]]
      BY <1>1, <2>1 DEF OpenKept, Reverse
    <3>2. open \in Seq(Components) /\ Len(open) \in Nat /\ DOMAIN open = 1 .. Len(open)
      BY <1>1, LenProperties DEF OpenKept
    <3>3. \A j \in 1 .. Len(open) : (Len(open) - j) + 1 \in 1 .. Len(open)
                                    /\ (Len(open) - ((Len(open) - j) + 1)) + 1 = j
      BY <3>2
    <3>4. Len(todo) = Len(open)
      BY <3>1, <3>2
    <3>5. \A x \in Range(todo) : x \in Range(open)
      BY <3>1, <3>2, <3>3 DEF Range
    <3>6. ASSUME NEW x \in Range(open) PROVE x \in Range(todo)
      <4>1. PICK j \in 1 .. Len(open) : open[j] = x
        BY <3>2 DEF Range
      <4>2. (Len(open) - j) + 1 \in DOMAIN todo /\ todo[(Len(open) - j) + 1] = x
        BY <3>1, <3>3, <4>1
      <4> QED
        BY <4>2 DEF Range
    <3> QED
      BY <3>4, <3>5, <3>6
  <2> QED
    BY <1>1, <2>1 DEF OpenKept, NothingLeftOpen
<1> QED
  BY KeptCorrect, <1>1, PTL

-------------------------------------------------------------------------------
\* The configuration is what Load made of the host; the topic is picked from it
\* before there is a worker, and no publisher runs without one.
ConfigKept ==
    /\ host \in Hosts
    /\ step > 1 \/ config # None => config = Load(host)
    /\ step = 1 => pubsub = None /\ worker # "running"
    /\ pubsub # None \/ "pubsub" \in Before(step) => pubsub \in PubSubConfigs(config.messaging)
    /\ worker = "running" /\ kind # "inbox" => "pubsub" \in Before(step) /\ pubsub.topic # ""

\* Nothing is loaded before the process starts.
LEMMA ConfigInit == Init => ConfigKept
  BY DEF Init, ConfigKept, Before

\* A step changes what was loaded only by starting another process.
LEMMA ConfigStep == StepsKept /\ ConfigKept /\ [Next]_vars => ConfigKept'
<1> SUFFICES ASSUME StepsKept, ConfigKept, [Next]_vars PROVE ConfigKept'
  OBVIOUS
<1>0. /\ kind \in Programs /\ step \in Nat /\ step >= 1 /\ Len(Steps(kind)) \in Nat
      /\ \A i \in 1 .. Len(Steps(kind)) : Steps(kind)[i] = "config" <=> i = 1
      /\ \A i \in 1 .. Len(Steps(kind)) : Steps(kind)[i] = "worker" <=> i = Len(Steps(kind))
      /\ \E i \in 1 .. Len(Steps(kind)) : Steps(kind)[i] = "pubsub"
      /\ phase = "wiring" => step <= Len(Steps(kind)) /\ worker = "none"
  <2>1. kind \in Programs /\ step \in 1 .. Len(Steps(kind)) + 1
    BY DEF StepsKept
  <2>2. Len(Steps(kind)) \in Nat
    BY <2>1, StepsOrdered
  <2>3. step \in Nat /\ step >= 1
    BY <2>1, <2>2
  <2>4. phase = "wiring" => step <= Len(Steps(kind)) /\ worker = "none"
    BY DEF StepsKept
  <2> QED
    BY <2>1, <2>2, <2>3, <2>4, StepsOrdered
<1>1. ASSUME phase = "wiring", step' = step + 1, kind' = kind
      PROVE  Before(step)' = Before(step) \cup {CurrentStep}
  BY <1>0, <1>1 DEF Before, CurrentStep
<1>2. ASSUME UNCHANGED <<kind, host, config, pubsub, step>>, worker' = "running" => worker = "running"
      PROVE  ConfigKept'
  BY <1>2 DEF ConfigKept, Before
<1>3. CASE LoadRuntimeConfig
  <2>1. /\ phase = "wiring" /\ CurrentStep = "config" /\ config' = Load(host)
        /\ UNCHANGED <<kind, host, pubsub, worker>>
        /\ (config' = None /\ step' = step) \/ (config' # None /\ step' = step + 1)
    BY <1>3 DEF LoadRuntimeConfig, Proceeds, workerVars
  <2>2. step = 1 /\ pubsub = None /\ worker = "none" /\ "pubsub" \notin Before(step)
    BY <1>0, <2>1 DEF CurrentStep, ConfigKept, Before
  <2>3. "pubsub" \notin Before(step)'
    BY <1>1, <2>1, <2>2 DEF Before
  <2>4. Load(host)' = Load(host)
    BY <2>1
  <2> QED
    BY <2>1, <2>2, <2>3, <2>4 DEF ConfigKept
<1>4. CASE OpenComponent \/ ProvideMiddleware \/ ProvideOutboxConfig
  <2>1. /\ phase = "wiring" /\ CurrentStep # "config" /\ UNCHANGED <<kind, host, config, worker>>
        /\ step' = step \/ step' = step + 1
        /\ CurrentStep = "pubsub" => pubsub' \in PubSubConfigs(config.messaging)
        /\ CurrentStep # "pubsub" => pubsub' = pubsub
    BY <1>4 DEF OpenComponent, ProvideMiddleware, ProvideOutboxConfig, StartClosing, Proceeds,
                Components, workerVars
  <2>2. step > 1 /\ step' > 1 /\ config = Load(host) /\ worker = "none"
    BY <1>0, <2>1 DEF CurrentStep, ConfigKept
  <2>3. "pubsub" \in Before(step)' => "pubsub" \in Before(step) \/ CurrentStep = "pubsub"
    BY <1>1, <2>1 DEF Before
  <2>4. pubsub' # None \/ "pubsub" \in Before(step)' => pubsub' \in PubSubConfigs(config.messaging)
    BY <2>1, <2>3 DEF ConfigKept
  <2>5. Load(host)' = Load(host) /\ PubSubConfigs(config.messaging)' = PubSubConfigs(config.messaging)
    BY <2>1
  <2> QED
    BY <1>0, <2>1, <2>2, <2>4, <2>5 DEF ConfigKept
<1>5. CASE StartTask \/ StartApp
  <2>1. /\ phase = "wiring" /\ CurrentStep = "worker" /\ step' = step + 1
        /\ UNCHANGED <<kind, host, config, pubsub>>
        /\ worker' = "running" => CanWork
    BY <1>5 DEF StartTask, StartApp, BuildWorker
  <2>2. step = Len(Steps(kind)) /\ step > 1
    BY <1>0, <2>1, StepsOrdered DEF CurrentStep
  <2>3. "pubsub" \in Before(step)
    BY <1>0, <2>1, <2>2 DEF Before, CurrentStep
  <2>4. "pubsub" \in Before(step)'
    BY <1>1, <2>1, <2>3
  <2>5. worker' = "running" /\ kind # "inbox" => pubsub.topic # ""
    BY <2>1 DEF CanWork, PublisherConfigured
  <2>6. Load(host)' = Load(host) /\ PubSubConfigs(config.messaging)' = PubSubConfigs(config.messaging)
    BY <2>1
  <2>7. /\ host' \in Hosts /\ config' = Load(host)' /\ step' # 1
        /\ pubsub' \in PubSubConfigs(config.messaging)'
    BY <1>0, <2>1, <2>2, <2>3, <2>6 DEF ConfigKept
  <2>8. worker' = "running" /\ kind' # "inbox" => pubsub'.topic # ""
    BY <2>1, <2>5
  <2> QED
    BY <2>4, <2>7, <2>8 DEF ConfigKept
<1>6. CASE Killed \/ WorkerCalls \/ WorkerReturns \/ WorkerStops \/ WorkerFails \/ SignalTask
  BY <1>2, <1>6 DEF Killed, WorkerCalls, WorkerReturns, WorkerStops, WorkerFails, SignalTask,
                    wiringVars, workerVars
<1>7. CASE StartServer \/ ServerFails \/ Accept \/ Answer \/ SignalServer \/ AfterStop
           \/ CloseNext \/ Exit
  BY <1>2, <1>7 DEF StartServer, ServerFails, Accept, Answer, SignalServer, AfterStop, CloseNext,
                    Exit, wiringVars, workerVars
<1>8. CASE UNCHANGED vars
  BY <1>2, <1>8 DEF vars
<1> QED
  BY <1>3, <1>4, <1>5, <1>6, <1>7, <1>8 DEF Next, Wire, Done

-------------------------------------------------------------------------------
\* The grpc section after the port has been put into it: there is one if there
\* was one, with the same timeout.
SameGrpc(g, written, port) ==
    /\ written = None => g = None
    /\ written # None => g # None /\ g.timeout = written.timeout
    /\ written # None /\ port # "" => g.addr.port = port

\* What the environment puts into a file: the dsn and the port where there is a
\* place for them, and nothing that concerns the timeouts, the keys or the
\* messaging.
LEMMA Applied ==
    ASSUME NEW b, IsBootstrap(b), None \notin ServerSections,
           None \notin GrpcSections, NEW env, env["PORT"] \in STRING
    PROVE  LET a == ApplyEnvOverrides(b, env) IN
           /\ a.messaging = b.messaging
           /\ b.server = None => a.server = None
           /\ b.server # None => /\ a.server # None /\ a.server.handlers = b.server.handlers
                                 /\ a.server.keys \in Seq(STRING)
                                 /\ SameGrpc(a.server.grpc, b.server.grpc, env["PORT"])
           /\ a.data # None /\ a.data.client # None => a.data.client.keys \in Seq(STRING)
           /\ a.data # None /\ a.data.postgres # None /\ env["DATABASE_URL"] # "" =>
                 a.data.postgres.dsn = env["DATABASE_URL"]
<1> DEFINE w == IF env["DATABASE_URL"] # "" /\ b.data # None /\ b.data.postgres # None
                THEN [b EXCEPT !.data.postgres.dsn = env["DATABASE_URL"]] ELSE b
           a == IF env["PORT"] # "" /\ b.server # None /\ b.server.grpc # None
                THEN [w EXCEPT !.server.grpc.addr.port = env["PORT"]] ELSE w
<1>1. ApplyEnvOverrides(b, env) = a
  BY DEF ApplyEnvOverrides
<1>2. DOMAIN w = {"server", "data", "messaging"}
      /\ w.messaging = b.messaging /\ w.server = b.server
  BY DEF IsBootstrap
<1>3. b.data # None => /\ DOMAIN b.data = {"postgres", "client"}
                       /\ b.data.client # None => b.data.client.keys \in Seq(STRING)
                       /\ b.data.postgres # None => "dsn" \in DOMAIN b.data.postgres
  BY DEF IsBootstrap, Optional, DataSections
<1>4. w.data # None /\ w.data.client # None => w.data.client.keys \in Seq(STRING)
  BY <1>3 DEF IsBootstrap
<1>5. w.data # None /\ w.data.postgres # None /\ env["DATABASE_URL"] # "" =>
         w.data.postgres.dsn = env["DATABASE_URL"]
  BY <1>3 DEF IsBootstrap
<1>6. b.server # None => /\ DOMAIN b.server = {"grpc", "handlers", "keys"}
                         /\ b.server.keys \in Seq(STRING)
                         /\ b.server \in ServerSections
  BY DEF IsBootstrap, Optional, ServerSections
<1> HIDE DEF w
<1>7. a.messaging = w.messaging /\ a.data = w.data
  BY <1>2
<1>8. CASE b.server = None
  BY <1>1, <1>2, <1>4, <1>5, <1>7, <1>8
<1>9. CASE b.server # None
  <2> DEFINE g == [b.server.grpc EXCEPT !.addr.port = env["PORT"]]
             v == [b.server EXCEPT !.grpc.addr.port = env["PORT"]]
  <2>1. \/ a.server = b.server /\ (env["PORT"] = "" \/ b.server.grpc = None)
        \/ a.server = v /\ b.server.grpc # None
    <3>1. CASE env["PORT"] # "" /\ b.server.grpc # None
      <4>1. a = [w EXCEPT !.server.grpc.addr.port = env["PORT"]]
        BY <1>9, <3>1
      <4>2. a.server = [w.server EXCEPT !.grpc.addr.port = env["PORT"]]
        BY <1>2, <4>1
      <4> QED
        BY <1>2, <3>1, <4>2
    <3>2. CASE env["PORT"] = "" \/ b.server.grpc = None
      BY <1>2, <3>2
    <3> QED
      BY <3>1, <3>2
  <2>2. v.handlers = b.server.handlers /\ v.keys = b.server.keys
    BY <1>6, <1>9
  <2>3. ASSUME b.server.grpc # None
        PROVE  v \in ServerSections /\ v.grpc \in GrpcSections
               /\ SameGrpc(v.grpc, b.server.grpc, env["PORT"])
    <3>1. b.server.grpc \in GrpcSections
      BY <1>6, <1>9, <2>3 DEF ServerSections, Optional
    <3>2. /\ g \in GrpcSections
          /\ g.timeout = b.server.grpc.timeout /\ g.addr.port = env["PORT"]
      BY <3>1 DEF GrpcSections
    <3>3. v = [b.server EXCEPT !.grpc = g]
      BY <1>6, <1>9
    <3>4. v.grpc = g
      BY <1>6, <1>9, <3>3
    <3>5. g # None
      BY <3>2
    <3>6. v \in ServerSections
      BY <1>6, <1>9, <3>2, <3>3 DEF ServerSections, Optional
    <3> HIDE DEF g, v
    <3>7. SameGrpc(g, b.server.grpc, env["PORT"])
      BY <2>3, <3>2, <3>5 DEF SameGrpc
    <3> QED
      BY <3>2, <3>4, <3>6, <3>7
  <2>4. SameGrpc(a.server.grpc, b.server.grpc, env["PORT"])
    <3> HIDE DEF a, v, g
    <3>1. CASE a.server = b.server /\ (env["PORT"] = "" \/ b.server.grpc = None)
      BY <3>1 DEF SameGrpc
    <3>2. CASE a.server = v /\ b.server.grpc # None
      BY <2>3, <3>2
    <3> QED
      BY <2>1, <3>1, <3>2
  <2> HIDE DEF a, v, g
  <2> QED
    BY <1>1, <1>2, <1>4, <1>5, <1>6, <1>7, <1>9, <2>1, <2>2, <2>3, <2>4
<1> QED
  BY <1>8, <1>9

-------------------------------------------------------------------------------
\* The timeouts that are written: the handlers get theirs, and the shorter of
\* theirs and the server's ends a request.
LEMMA Deadlines ==
    ASSUME NEW k \in HandlerKinds
    PROVE  /\ \A t : t[k] \in Int /\ t[k] > 0 => BaseTimeouts(t)[k] = t[k]
           /\ \A h : h # None /\ h[k] \in Int /\ DurationOrZero(h[k]) > 0 => HandlerTimeouts(h)[k] = h[k]
           /\ \A d : d # None => DurationOrZero(d) = d
           /\ \A n \in Int : n > 0 => Positive(n, 1) = n
  BY DEF BaseTimeouts, HandlerTimeouts, Positive, DurationOrZero, HandlerKinds

\* What each section of a file becomes.
LEMMA Parsed ==
    ASSUME NEW b
    PROVE  /\ DOMAIN FromProto(b) = {"service", "server", "database", "client", "messaging"}
           /\ FromProto(b).server = ServerFromProto(b.server)
           /\ FromProto(b).database =
                 DatabaseFromProto(IF b.data = None THEN None ELSE b.data.postgres)
           /\ FromProto(b).client =
                 GrpcClientFromProto(IF b.data = None THEN None ELSE b.data.client)
           /\ FromProto(b).messaging = MessagingFromProto(b.messaging, b.data)
  BY DEF FromProto

\* The server section: a missing one has no keys.
LEMMA ParsedServer ==
    ASSUME NEW s
    PROVE  /\ {"handlers", "keys", "addr", "timeout"} \subseteq DOMAIN ServerFromProto(s)
           /\ s # None => /\ ServerFromProto(s).handlers = HandlerTimeouts(s.handlers)
                          /\ ServerFromProto(s).keys = s.keys
                          /\ s.grpc # None => ServerFromProto(s).addr = s.grpc.addr
                          /\ ServerFromProto(s).timeout =
                                (IF s.grpc = None THEN 0 ELSE DurationOrZero(s.grpc.timeout))
           /\ s = None => ServerFromProto(s).keys = <<>>
<1>1. CASE s = None
  <2>1. ServerFromProto(s) = NoServer
    BY <1>1 DEF ServerFromProto
  <2>2. {"handlers", "keys", "addr", "timeout"} \subseteq DOMAIN NoServer /\ NoServer.keys = <<>>
    BY DEF NoServer
  <2> QED
    BY <1>1, <2>1, <2>2
<1>2. CASE s # None
  <2> DEFINE addr == IF s.grpc = None THEN None ELSE s.grpc.addr
             timeout == IF s.grpc = None THEN 0 ELSE DurationOrZero(s.grpc.timeout)
             p == [addr |-> addr, timeout |-> timeout, keys |-> s.keys,
                   handlers |-> HandlerTimeouts(s.handlers)]
  <2>1. ServerFromProto(s) = p
    BY <1>2 DEF ServerFromProto
  <2>2. p.addr = addr /\ p.timeout = timeout /\ p.keys = s.keys
        /\ p.handlers = HandlerTimeouts(s.handlers)
        /\ {"handlers", "keys", "addr", "timeout"} \subseteq DOMAIN p
    OBVIOUS
  <2> HIDE DEF p
  <2> QED
    BY <1>2, <2>1, <2>2
<1> QED
  BY <1>1, <1>2

\* The client section: a missing one has no keys.
LEMMA ParsedClient ==
    ASSUME NEW c
    PROVE  /\ "keys" \in DOMAIN GrpcClientFromProto(c)
           /\ GrpcClientFromProto(c).keys = IF c = None THEN <<>> ELSE c.keys
  BY DEF GrpcClientFromProto, NoClient

\* The database section: the dsn is the one of the file.
LEMMA ParsedDatabase ==
    ASSUME NEW pg
    PROVE  /\ DatabaseFromProto(pg).dsn = IF pg = None THEN "" ELSE pg.dsn
           /\ DatabaseFromProto(pg).schema = IF pg = None THEN "" ELSE pg.schema
  BY DEF DatabaseFromProto, NoDatabase

\* The messaging section: the topics are those of the file.
LEMMA ParsedMessaging ==
    ASSUME NEW b, NEW data, NEW msg, msg = MessagingFromProto(b.messaging, data)
    PROVE  /\ msg.schema = IF data = None \/ data.postgres = None THEN "" ELSE data.postgres.schema
           /\ DOMAIN msg.topics = DOMAIN TopicsOf(b)
           /\ \A key \in DOMAIN TopicsOf(b) : msg.topics[key] = PubSubFromProto(TopicsOf(b)[key])
<1>1. msg.topics = IF b.messaging = None THEN NoEntries
                   ELSE [key \in DOMAIN b.messaging.topics |-> PubSubFromProto(b.messaging.topics[key])]
  BY DEF MessagingFromProto
<1>2. /\ DOMAIN msg.topics = DOMAIN TopicsOf(b)
      /\ \A key \in DOMAIN TopicsOf(b) : msg.topics[key] = PubSubFromProto(TopicsOf(b)[key])
  BY <1>1 DEF NoEntries, TopicsOf
<1>3. msg.schema = IF data = None \/ data.postgres = None THEN "" ELSE data.postgres.schema
  BY DEF MessagingFromProto
<1> QED
  BY <1>2, <1>3

\* What FillDefaults and the service information leave of what the file says.
LEMMA Filled ==
    ASSUME NEW b, NEW info
    PROVE  LET rc == FillDefaults([FromProto(b) EXCEPT !.service = info]) IN
           /\ rc.database = FromProto(b).database /\ rc.messaging = FromProto(b).messaging
           /\ rc.server.handlers = FromProto(b).server.handlers
           /\ rc.server.addr = FromProto(b).server.addr
           /\ rc.server.timeout = FromProto(b).server.timeout
           /\ rc.server.keys = IF FromProto(b).server.keys = <<>> THEN DefaultKeys
                               ELSE FromProto(b).server.keys
           /\ rc.client.keys = IF FromProto(b).client.keys = <<>> THEN rc.server.keys
                               ELSE FromProto(b).client.keys
<1> DEFINE p == FromProto(b)
           q == [p EXCEPT !.service = info]
           rc == FillDefaults(q)
<1>1. /\ DOMAIN p = {"service", "server", "database", "client", "messaging"}
      /\ {"handlers", "keys", "addr", "timeout"} \subseteq DOMAIN p.server
      /\ "keys" \in DOMAIN p.client
  BY Parsed, ParsedServer, ParsedClient
<1> HIDE DEF p
<1>2. DOMAIN q = DOMAIN p /\ q.server = p.server /\ q.client = p.client
      /\ q.database = p.database /\ q.messaging = p.messaging
  BY <1>1
<1> HIDE DEF q
<1>3. /\ rc.database = p.database /\ rc.messaging = p.messaging
      /\ rc.server.handlers = p.server.handlers
      /\ rc.server.addr = p.server.addr /\ rc.server.timeout = p.server.timeout
      /\ rc.server.keys = IF p.server.keys = <<>> THEN DefaultKeys ELSE p.server.keys
      /\ rc.client.keys = IF p.client.keys = <<>> THEN rc.server.keys ELSE p.client.keys
  BY <1>1, <1>2 DEF FillDefaults
<1> QED
  BY <1>3 DEF p, q

\* A configuration that was loaded from b.
Loaded(b, info) == FillDefaults([FromProto(b) EXCEPT !.service = info])

\* What a process reads of it.
ReadsFrom(b, rc) ==
    /\ rc.database.dsn = IF b.data = None \/ b.data.postgres = None THEN "" ELSE b.data.postgres.dsn
    /\ rc.messaging.schema = rc.database.schema
    /\ DOMAIN rc.messaging.topics = DOMAIN TopicsOf(b)
    /\ \A key \in DOMAIN TopicsOf(b) : rc.messaging.topics[key] = PubSubFromProto(TopicsOf(b)[key])
    /\ b.server # None => rc.server.handlers = HandlerTimeouts(b.server.handlers)
    /\ b.server # None =>
          rc.server.timeout = IF b.server.grpc = None THEN 0 ELSE DurationOrZero(b.server.grpc.timeout)
    /\ b.server # None /\ b.server.grpc # None => rc.server.addr = b.server.grpc.addr
    /\ (b.server # None => b.server.keys \in Seq(STRING)) => Len(rc.server.keys) > 0
    /\ Len(rc.server.keys) > 0
       /\ (b.data # None /\ b.data.client # None => b.data.client.keys \in Seq(STRING)) =>
          Len(rc.client.keys) > 0

\* What a process reads of a configuration is what the file it was loaded from
\* says, or a default.
LEMMA Configured ==
    ASSUME NEW b, NEW info, NEW rc, rc = Loaded(b, info)
    PROVE  ReadsFrom(b, rc)
<1> DEFINE pg == IF b.data = None THEN None ELSE b.data.postgres
           client == IF b.data = None THEN None ELSE b.data.client
           p == FromProto(b)
<1>1. /\ p.server = ServerFromProto(b.server) /\ p.database = DatabaseFromProto(pg)
      /\ p.client = GrpcClientFromProto(client)
      /\ p.messaging = MessagingFromProto(b.messaging, b.data)
  BY Parsed
<1>2. /\ rc.database = p.database /\ rc.messaging = p.messaging
      /\ rc.server.handlers = p.server.handlers
      /\ rc.server.addr = p.server.addr /\ rc.server.timeout = p.server.timeout
      /\ rc.server.keys = IF p.server.keys = <<>> THEN DefaultKeys ELSE p.server.keys
      /\ rc.client.keys = IF p.client.keys = <<>> THEN rc.server.keys ELSE p.client.keys
  BY Filled DEF Loaded
<1>3. Len(DefaultKeys) > 0 /\ \A s \in Seq(STRING) : s # <<>> => Len(s) > 0
  <2>1. Len(DefaultKeys) = 5
    BY DEF DefaultKeys
  <2> QED
    BY <2>1, EmptySeq
<1>4. p.client.keys = IF client = None THEN <<>> ELSE client.keys
  BY <1>1, ParsedClient
<1> HIDE DEF p
<1>5. /\ rc.database.dsn = IF pg = None THEN "" ELSE pg.dsn
      /\ rc.database.schema = IF pg = None THEN "" ELSE pg.schema
  <2>1. rc.database = DatabaseFromProto(pg)
    BY <1>1, <1>2
  <2> QED
    BY <2>1, ParsedDatabase, Zenon
<1>6. /\ rc.messaging.schema =
            IF b.data = None \/ b.data.postgres = None THEN "" ELSE b.data.postgres.schema
      /\ DOMAIN rc.messaging.topics = DOMAIN TopicsOf(b)
      /\ \A key \in DOMAIN TopicsOf(b) : rc.messaging.topics[key] = PubSubFromProto(TopicsOf(b)[key])
  <2>1. rc.messaging = MessagingFromProto(b.messaging, b.data)
    BY <1>1, <1>2
  <2> QED
    BY <2>1, ParsedMessaging, Zenon
<1>7. /\ rc.server.handlers = ServerFromProto(b.server).handlers
      /\ p.server.keys = ServerFromProto(b.server).keys
      /\ rc.server.timeout = ServerFromProto(b.server).timeout
      /\ rc.server.addr = ServerFromProto(b.server).addr
  BY <1>1, <1>2
<1>8. /\ b.server # None => p.server.keys = b.server.keys
      /\ b.server = None => p.server.keys = <<>>
  BY <1>7, ParsedServer
<1>9. (b.server # None => b.server.keys \in Seq(STRING)) => Len(rc.server.keys) > 0
  BY <1>2, <1>3, <1>8
<1>10. Len(rc.server.keys) > 0
          /\ (b.data # None /\ b.data.client # None => b.data.client.keys \in Seq(STRING)) =>
       Len(rc.client.keys) > 0
  BY <1>2, <1>3, <1>4
<1>11. rc.messaging.schema = rc.database.schema
  BY <1>5, <1>6
<1>12. rc.database.dsn =
          IF b.data = None \/ b.data.postgres = None THEN "" ELSE b.data.postgres.dsn
  BY <1>5
<1>13. /\ b.server # None => rc.server.handlers = HandlerTimeouts(b.server.handlers)
       /\ b.server # None /\ b.server.grpc # None => rc.server.addr = b.server.grpc.addr
  BY <1>7, ParsedServer
<1>14. b.server # None =>
          rc.server.timeout = IF b.server.grpc = None THEN 0 ELSE DurationOrZero(b.server.grpc.timeout)
  BY <1>7, ParsedServer
<1> QED
  BY <1>6, <1>9, <1>10, <1>11, <1>12, <1>13, <1>14, Zenon DEF ReadsFrom

\* The topic that is picked is one of the file.
LEMMA TopicPicked ==
    ASSUME NEW b, NEW msg,
           DOMAIN msg.topics = DOMAIN TopicsOf(b),
           \A key \in DOMAIN TopicsOf(b) : msg.topics[key] = PubSubFromProto(TopicsOf(b)[key]),
           pubsub \in PubSubConfigs(msg)
    PROVE  TopicAsWritten(b)
<1>1. /\ NoTopic.project = ""
      /\ \A key \in DOMAIN TopicsOf(b) :
            IF key \in Usable(b) THEN msg.topics[key] = TopicsOf(b)[key] /\ msg.topics[key].project # ""
            ELSE msg.topics[key].project = ""
  <2>1. NoTopic.project = ""
    BY DEF NoTopic
  <2>2. ASSUME NEW key \in DOMAIN TopicsOf(b)
        PROVE  IF key \in Usable(b) THEN msg.topics[key] = TopicsOf(b)[key] /\ msg.topics[key].project # ""
               ELSE msg.topics[key].project = ""
    <3> DEFINE topic == TopicsOf(b)[key]
    <3>1. key \in Usable(b) <=> topic # None /\ topic.project # ""
      BY DEF Usable
    <3>2. msg.topics[key] = IF topic = None THEN NoTopic ELSE topic
      BY DEF PubSubFromProto
    <3> HIDE DEF topic
    <3>3. IF key \in Usable(b) THEN msg.topics[key] = topic /\ msg.topics[key].project # ""
          ELSE msg.topics[key].project = ""
      BY <2>1, <3>1, <3>2
    <3> QED
      BY <3>3 DEF topic
  <2> QED
    BY <2>1, <2>2
<1>2. PICK entry \in Selected(msg.topics, NoTopic) :
         pubsub = IF entry.project = "" THEN NoTopic ELSE entry
  BY DEF PubSubConfigs
<1>3. Usable(b) \subseteq DOMAIN TopicsOf(b)
  BY DEF Usable
<1>4. CASE "default" \in DOMAIN TopicsOf(b)
  <2>1. entry = msg.topics["default"]
    BY <1>2, <1>4 DEF Selected
  <2>2. IF "default" \in Usable(b) THEN pubsub = TopicsOf(b)["default"] /\ pubsub.project # ""
        ELSE pubsub = NoTopic
    BY <1>1, <1>2, <1>4, <2>1
  <2> QED
    BY <1>1, <1>4, <2>2 DEF TopicAsWritten
<1>5. CASE "default" \notin DOMAIN TopicsOf(b) /\ DOMAIN TopicsOf(b) = {}
  <2>1. pubsub = NoTopic
    BY <1>2, <1>5 DEF Selected
  <2> QED
    BY <1>3, <1>5, <2>1 DEF TopicAsWritten
<1>6. CASE "default" \notin DOMAIN TopicsOf(b) /\ DOMAIN TopicsOf(b) # {}
  <2>1. PICK key \in DOMAIN TopicsOf(b) : entry = msg.topics[key]
    BY <1>2, <1>6 DEF Selected
  <2>2. IF key \in Usable(b) THEN pubsub = TopicsOf(b)[key] /\ pubsub.project # ""
        ELSE pubsub = NoTopic
    BY <1>1, <1>2, <2>1
  <2> QED
    BY <1>1, <1>3, <1>6, <2>2 DEF TopicAsWritten
<1> QED
  BY <1>4, <1>5, <1>6

\* What the deadlines of a configuration owe to the timeouts that are written.
LEMMA DeadlinesKept ==
    ASSUME NEW b, IsBootstrap(b),
           b.server # None =>
              /\ config.server.handlers = HandlerTimeouts(b.server.handlers)
              /\ config.server.timeout = IF b.server.grpc = None THEN 0
                                         ELSE DurationOrZero(b.server.grpc.timeout)
    PROVE  DeadlinesAsWritten(b)
<1> SUFFICES ASSUME NEW k \in HandlerKinds
             PROVE  LET server == IF b.server = None \/ b.server.grpc = None THEN 0
                                  ELSE DurationOrZero(b.server.grpc.timeout)
                        handler == IF b.server = None \/ b.server.handlers = None THEN 0
                                   ELSE DurationOrZero(b.server.handlers[k]) IN
                    /\ server > 0 => Deadline(config, k) <= server
                    /\ handler > 0 => Deadline(config, k) <= handler
                    /\ server > 0 /\ handler > 0 => Deadline(config, k) \in {server, handler}
  BY DEF DeadlinesAsWritten
<1> DEFINE server == IF b.server = None \/ b.server.grpc = None THEN 0
                     ELSE DurationOrZero(b.server.grpc.timeout)
           handler == IF b.server = None \/ b.server.handlers = None THEN 0
                      ELSE DurationOrZero(b.server.handlers[k])
           own == BaseTimeouts(config.server.handlers)[k]
<1>1. CASE b.server = None
  BY <1>1
<1>2. CASE b.server # None
  <2>1. server \in Int /\ handler \in Int /\ (b.server.handlers # None => b.server.handlers[k] \in Optional(Int))
    BY <1>2 DEF IsBootstrap, ServerSections, GrpcSections, Optional, DurationOrZero, HandlerKinds
  <2>2. config.server.timeout = server
    BY <1>2
  <2>3. ServerTimeout(config) \in Int /\ (server > 0 => ServerTimeout(config) = server)
    BY <2>1, <2>2 DEF ServerTimeout, Positive
  <2>4. handler > 0 => own = handler
    <3> SUFFICES ASSUME handler > 0 PROVE own = handler
      OBVIOUS
    <3>1. b.server.handlers # None /\ handler = DurationOrZero(b.server.handlers[k])
      BY <1>2
    <3>2. b.server.handlers[k] \in Int /\ handler = b.server.handlers[k]
      BY <2>1, <3>1 DEF DurationOrZero, Optional
    <3>3. config.server.handlers[k] = handler
      BY <1>2, <3>1, <3>2, Deadlines
    <3> QED
      BY <2>1, <3>3, Deadlines
  <2>5. Deadline(config, k) = IF own \in 1 .. ServerTimeout(config) THEN own ELSE ServerTimeout(config)
    BY DEF Deadline
  <2> HIDE DEF server, handler, own
  <2>6. /\ server > 0 => Deadline(config, k) <= server
        /\ handler > 0 => Deadline(config, k) <= handler
        /\ server > 0 /\ handler > 0 => Deadline(config, k) \in {server, handler}
    BY <2>1, <2>3, <2>4, <2>5
  <2> QED
    BY <2>6 DEF server, handler
<1> QED
  BY <1>1, <1>2

\* The process runs with what it was told, and a publisher only with a topic.
THEOREM RuntimeAsWrittenCorrect == Spec => []RuntimeAsWritten
<1>1. ASSUME ConfigKept PROVE RuntimeAsWritten
  <2> SUFFICES ASSUME config # None PROVE RuntimeAsWritten
    BY DEF RuntimeAsWritten
  <2> DEFINE path == ResolveConfPath(host)
             env == LoadEnvFiles(host, path)
             written == host.yaml[path]
             a == ApplyEnvOverrides(written, env)
  <2>1. /\ config = Load(host) /\ host \in Hosts
        /\ pubsub # None => pubsub \in PubSubConfigs(config.messaging)
        /\ worker = "running" /\ kind # "inbox" =>
              pubsub.topic # "" /\ pubsub \in PubSubConfigs(config.messaging)
    BY <1>1 DEF ConfigKept
  <2>2. /\ path \in DOMAIN host.yaml /\ env # None
        /\ config = Loaded(a, BuildServiceInfo(host, env))
    BY <2>1 DEF Load, Loaded
  <2>0. IsBootstrap(written) /\ env["PORT"] \in STRING
        /\ None \notin ServerSections /\ None \notin GrpcSections
    BY <2>1, <2>2, HostsAssumption
  <2>3. /\ a.messaging = written.messaging
        /\ written.server = None => a.server = None
        /\ written.server # None => /\ a.server # None /\ a.server.handlers = written.server.handlers
                                    /\ a.server.keys \in Seq(STRING)
                                    /\ SameGrpc(a.server.grpc, written.server.grpc, env["PORT"])
        /\ a.data # None /\ a.data.client # None => a.data.client.keys \in Seq(STRING)
        /\ a.data # None /\ a.data.postgres # None /\ env["DATABASE_URL"] # "" =>
              a.data.postgres.dsn = env["DATABASE_URL"]
    BY <2>0, Applied
  <2> HIDE DEF path, env, written, a
  <2>4. /\ config.database.dsn =
              IF a.data = None \/ a.data.postgres = None THEN "" ELSE a.data.postgres.dsn
        /\ config.messaging.schema = config.database.schema
        /\ DOMAIN config.messaging.topics = DOMAIN TopicsOf(written)
        /\ \A key \in DOMAIN TopicsOf(written) :
              config.messaging.topics[key] = PubSubFromProto(TopicsOf(written)[key])
        /\ written.server # None =>
              /\ config.server.handlers = HandlerTimeouts(written.server.handlers)
              /\ config.server.timeout = IF written.server.grpc = None THEN 0
                                         ELSE DurationOrZero(written.server.grpc.timeout)
        /\ written.server # None /\ written.server.grpc # None /\ env["PORT"] # "" =>
              config.server.addr.port = env["PORT"]
        /\ Len(config.server.keys) > 0 /\ Len(config.client.keys) > 0
    <3>1. ReadsFrom(a, config)
      BY <2>2, Configured
    <3>2. TopicsOf(a) = TopicsOf(written)
      BY <2>3 DEF TopicsOf
    <3> QED
      BY <2>3, <3>1, <3>2 DEF ReadsFrom, SameGrpc
  <2>5. EnvironmentWins(written, env)
    BY <2>3, <2>4 DEF EnvironmentWins
  <2>6. DeadlinesAsWritten(written)
    BY <2>0, <2>4, DeadlinesKept
  <2>7. pubsub # None => TopicAsWritten(written)
    BY <2>1, <2>4, TopicPicked
  <2>8. ASSUME worker = "running", kind # "inbox"
         PROVE  pubsub.project # "" /\ pubsub.topic # ""
    <3>1. pubsub.topic # "" /\ pubsub \in PubSubConfigs(config.messaging)
      BY <2>1, <2>8
    <3>2. PICK entry : pubsub = IF entry.project = "" THEN NoTopic ELSE entry
      BY <3>1 DEF PubSubConfigs
    <3> QED
      BY <3>1, <3>2 DEF NoTopic
  <2> QED
    BY <2>4, <2>5, <2>6, <2>7, <2>8 DEF RuntimeAsWritten, path, env, written
<1>2. Spec => [](StepsKept /\ ConfigKept)
  BY StepsInit, StepsStep, ConfigInit, ConfigStep, PTL DEF Spec
<1> QED
  BY <1>1, <1>2, PTL
===============================================================================
