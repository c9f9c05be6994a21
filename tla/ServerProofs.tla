---------------------------- MODULE ServerProofs ----------------------------
(***************************************************************************)
(* The worker has a job for every request of the scheduler, its accounts   *)
(* keep step, and clients are told once.                                   *)
(*                                                                         *)
(* The checked invariants speak of the worker between two batches; WInv    *)
(* says what holds in the middle of one.  A request that has been          *)
(* completed keeps its job until it is told (Left), one that a stop ended  *)
(* keeps its place until the batch is completed (StoppedNow), and what a   *)
(* request has emitted is what the scheduler counts and what the step in   *)
(* flight has added to it (Made).                                          *)
(***************************************************************************)
EXTENDS Server, VramPlan, DeviceMemory, DataLemmas

-----------------------------------------------------------------------------
(* The invariant.                                                          *)

\* A job as the properties see it: its output, the scores sent with it, and the next score.
Job == [out : Seq(Nat), scores : Seq(Nat), next : Int]

\* The shape of what the handlers see.
HttpPart ==
  /\ serving \in BOOLEAN
  /\ handler \in [Clients -> {"new", "open", "answered", "gone"}]
  /\ commands \in Seq(Clients)
  /\ log \in [Clients -> Seq(Events)]
  /\ read \in [Clients -> Nat] /\ \A c \in Clients : read[c] <= Len(log[c])

\* What the scheduler counts for each request.
SchedPart ==
  /\ sched = [waiting |-> sched.waiting, chunks |-> sched.chunks, generated |-> sched.generated]
  /\ sched.waiting \subseteq Clients
  /\ DOMAIN sched.chunks \subseteq Clients /\ DOMAIN sched.generated \subseteq Clients
  /\ \A c \in DOMAIN sched.chunks : sched.chunks[c] \in 1..Chunks
  /\ \A c \in DOMAIN sched.generated :
       sched.generated[c] \in Nat /\ sched.generated[c] < MaxNew[c]

\* The shape of what the worker keeps beside it.
WorkPart ==
  /\ batch \in [decode : SUBSET Clients, prefill : SUBSET Clients, done : SUBSET Clients]
  /\ batch.done \subseteq batch.prefill
  /\ \A c \in DOMAIN jobs : jobs[c] \in Job
  /\ \A c \in DOMAIN pending : pending[c] \in Int
  /\ pc \in {"init", "tokenizer", "drain", "wait", "run", "emit", "finish", "sweep",
              "burst", "burstfinish", "stopped"}
  /\ local \in [todo : SUBSET Clients, stopped : SUBSET Clients, accepted : Nat, produced : Nat]

\* A request is sent once, and is the worker's only when it has left the channel.
CommandPart ==
  /\ IsInjective(commands)
  /\ \A c \in Range(commands) : handler[c] # "new" /\ c \notin DOMAIN jobs
  /\ \A c \in DOMAIN jobs : c \in Clients /\ handler[c] # "new"
  /\ IsFiniteSet(DOMAIN jobs)
  /\ pc = "stopped" => DOMAIN jobs = {} /\ commands = <<>>
  /\ pc \in {"init", "tokenizer"} => DOMAIN jobs = {}
  /\ pc = "init" => ~serving /\ commands = <<>>

\* Those that have just been completed, and still have a job.
Left == IF pc \in {"finish", "burstfinish"} THEN local.todo ELSE {}

\* Jobs are for those the scheduler has, in the one or the other state, and pending tokens for
\* those of them that have had a row.
JobPart ==
  pc # "stopped" =>
    /\ DOMAIN jobs = sched.waiting \cup Running \cup Left
    /\ DOMAIN pending = DOMAIN sched.generated \cup MidPrompt \cup Left
    /\ sched.waiting \cap (Running \cup Left) = {}
    /\ DOMAIN sched.chunks \cap (DOMAIN sched.generated \cup Left) = {}
    /\ DOMAIN sched.generated \cap Left = {}

\* The batch in flight has a row for everyone that decodes, and ends no prompt too late.
RowPart ==
  pc \in {"run", "emit", "burst"} =>
    /\ batch.decode = DOMAIN sched.generated
    /\ batch.prefill \subseteq DOMAIN sched.chunks
    /\ \A c \in batch.prefill : sched.chunks[c] = 1 => c \in batch.done

\* How far the step in flight has come.
LocalPart ==
  /\ pc = "emit" => /\ local.todo \subseteq batch.decode
                    /\ local.stopped \subseteq batch.decode \ local.todo
  /\ pc = "burst" =>
       /\ \E c \in Clients : batch.decode = {c}
       /\ local.todo \subseteq batch.decode /\ local.stopped \subseteq batch.decode
       /\ IF local.todo = {}
          THEN local.stopped # {} \/ local.produced = local.accepted + 1
          ELSE local.stopped = {} /\ local.produced <= local.accepted
       /\ local.produced <= local.accepted + 1
       /\ \A c \in batch.decode : sched.generated[c] + local.accepted + 1 <= MaxNew[c]
       /\ batch.prefill = {}

\* The requests of the batch a stop has ended.
StoppedNow == IF pc \in {"emit", "burst"} THEN local.stopped ELSE {}

\* How many tokens of the step in flight a request has emitted.
Made(c) ==
  IF pc = "emit" /\ c \notin local.todo THEN 1
  ELSE IF pc = "burst" THEN local.produced ELSE 0

\* What a request has emitted is what the scheduler counts and what the step has added.
OutPart ==
  pc # "stopped" =>
    /\ \A c \in sched.waiting \cup DOMAIN sched.chunks : jobs[c].out = <<>>
    /\ \A c \in DOMAIN sched.generated :
         /\ pending[c] = sched.generated[c] + 1
         /\ c \notin StoppedNow => jobs[c].out = [i \in 1..(sched.generated[c] + Made(c)) |-> i]
         /\ Len(jobs[c].out) <= sched.generated[c] + Made(c)

\* What is pending for a prompt that is not through is none of its output.
StrayPart ==
  pc # "stopped" => \A c \in MidPrompt : pending[c] = Stray

\* The score of a token is in the job before the token goes out.
ScorePart ==
  \A c \in DOMAIN jobs :
    /\ Len(jobs[c].out) <= MaxNew[c]
    /\ jobs[c].scores = IF c \in Scored THEN jobs[c].out ELSE <<>>
    /\ c \notin Scored => jobs[c].next = NoScores
    /\ c \in Scored \cap DOMAIN sched.generated /\ Made(c) = 0 => jobs[c].next = pending[c]

\* The head's tokens end in the pending one.
HeadPart ==
  pc # "stopped" =>
    \A c \in head.for \cap DOMAIN pending :
      LET n == Len(head.tokens)
      IN  /\ n \in 1..pending[c]
          /\ head.tokens = [i \in 1..n |-> pending[c] - n + i]

\* Whose next event is the last.
Ending == StoppedNow \cup Left

\* Nothing follows the end of a request, and before that only an undecodable token ends its text.
LogPart ==
  /\ ToldOnce
  /\ \A c \in Clients : handler[c] = "new" \/ c \in Range(commands) => log[c] = <<>>
  /\ \A c \in DOMAIN jobs :
       /\ Range(log[c]) \subseteq {"delta", "undecodable"}
       /\ "undecodable" \in Range(log[c]) => c \in Ending

\* The inductive invariant.
WInv ==
  /\ HttpPart /\ SchedPart /\ WorkPart /\ CommandPart /\ JobPart /\ RowPart /\ LocalPart
  /\ OutPart /\ StrayPart /\ ScorePart /\ HeadPart /\ LogPart

-----------------------------------------------------------------------------
(* What it implies, and how it begins.                                     *)

\* The invariant is what the runs check, and more.
LEMMA WInvImplies == WInv => RequestsKnown /\ ToldOnce /\ AccountsInStep
<1> SUFFICES ASSUME WInv PROVE RequestsKnown /\ ToldOnce /\ AccountsInStep
  OBVIOUS
<1>1. TypeOK
  <2>1. \A c \in Clients : log[c] \in Seq(Events) /\ read[c] \in 0..Len(log[c])
    <3> SUFFICES ASSUME NEW c \in Clients PROVE log[c] \in Seq(Events) /\ read[c] \in 0..Len(log[c])
      OBVIOUS
    <3>1. log[c] \in Seq(Events) /\ read[c] \in Nat /\ read[c] <= Len(log[c])
      BY DEF WInv, HttpPart
    <3>2. Len(log[c]) \in Nat
      BY <3>1, LenProperties
    <3> QED BY <3>1, <3>2
  <2>2. \A c \in DOMAIN sched.generated : sched.generated[c] \in 0..MaxNew[c]
    BY ServerAssumption DEF WInv, SchedPart
  <2> QED BY <2>1, <2>2 DEF WInv, HttpPart, SchedPart, WorkPart, TypeOK
<1>2. JobsKnown
  BY DEF WInv, JobPart, CommandPart, JobsKnown, Left, Running
<1>3. PendingInStep
  <2> SUFFICES ASSUME pc \in {"drain", "wait", "run"}
               PROVE  /\ DOMAIN pending = DOMAIN sched.generated \cup MidPrompt
                      /\ \A c \in DOMAIN sched.generated :
                           /\ pending[c] = sched.generated[c] + 1
                           /\ jobs[c].out = [i \in 1..sched.generated[c] |-> i]
                      /\ \A c \in MidPrompt : pending[c] = Stray /\ jobs[c].out = <<>>
    BY DEF PendingInStep
  <2>1. DOMAIN pending = DOMAIN sched.generated \cup MidPrompt
    BY DEF WInv, JobPart, Left
  <2>2. ASSUME NEW c \in DOMAIN sched.generated
        PROVE  pending[c] = sched.generated[c] + 1
             /\ jobs[c].out = [i \in 1..sched.generated[c] |-> i]
    <3>1. Made(c) = 0 /\ c \notin StoppedNow
      BY DEF Made, StoppedNow
    <3>2. sched.generated[c] + Made(c) = sched.generated[c]
      BY <3>1 DEF WInv, SchedPart
    <3>3. /\ pending[c] = sched.generated[c] + 1
          /\ jobs[c].out = [i \in 1..(sched.generated[c] + Made(c)) |-> i]
      BY <3>1 DEF WInv, OutPart
    <3> QED BY <3>2, <3>3
  <2>3. \A c \in MidPrompt : pending[c] = Stray /\ jobs[c].out = <<>>
    BY DEF WInv, OutPart, StrayPart, MidPrompt
  <2> QED BY <2>1, <2>2, <2>3
<1>4. ScoresAligned /\ OutputBounded
  BY DEF WInv, ScorePart, ScoresAligned, OutputBounded
<1>5. HeadInStep
  BY DEF WInv, HeadPart, HeadInStep
<1> QED BY <1>1, <1>2, <1>3, <1>4, <1>5 DEF RequestsKnown, AccountsInStep, WInv, LogPart

\* The server starts with nothing.
LEMMA WorkerStarts == Init => WInv
<1> SUFFICES ASSUME Init PROVE WInv
  OBVIOUS
<1> USE DEF Init, NoBatch, NoLocal, Empty
<1>1. Range(commands) = {} /\ IsInjective(commands) /\ commands \in Seq(Clients) /\ DOMAIN jobs = {}
  BY EmptySeq DEF Range, IsInjective
<1>2. HttpPart /\ SchedPart /\ WorkPart
  <2>1. \A c \in Clients : log[c] = <<>> /\ Len(log[c]) = 0
    OBVIOUS
  <2>2. log \in [Clients -> Seq(Events)]
    BY EmptySeq
  <2>3. HttpPart
    <3>1. \A c \in Clients : read[c] <= Len(log[c])
      BY <2>1
    <3>2. handler \in [Clients -> {"new", "open", "answered", "gone"}] /\ read \in [Clients -> Nat]
          /\ serving \in BOOLEAN
      OBVIOUS
    <3> HIDE DEF Init
    <3> QED BY <1>1, <2>2, <3>1, <3>2 DEF HttpPart
  <2>4. SchedPart
    BY DEF SchedPart
  <2>5. WorkPart
    BY DEF WorkPart
  <2> QED BY <2>3, <2>4, <2>5
<1>3. CommandPart
  BY <1>1, FS_EmptySet DEF CommandPart
<1>4. JobPart /\ RowPart /\ LocalPart /\ OutPart /\ StrayPart /\ HeadPart
  BY DEF JobPart, RowPart, LocalPart, OutPart, StrayPart, HeadPart, Left, Running, MidPrompt
<1>5. ScorePart
  BY DEF ScorePart
<1>6. LogPart
  BY DEF LogPart, ToldOnce
<1> QED BY <1>2, <1>3, <1>4, <1>5, <1>6 DEF WInv

\* What the worker has does not depend on who listens.
LEMMA WorkerSame ==
  ASSUME WInv, UNCHANGED <<worker, log>>, HttpPart', CommandPart',
         \A c \in Clients : handler'[c] = "new" \/ c \in Range(commands)' => log[c] = <<>>
  PROVE  WInv'
<1>1. UNCHANGED <<sched, batch, jobs, pending, head, pc, local, log>>
  BY DEF worker
<1>2. SchedPart' /\ WorkPart' /\ JobPart' /\ RowPart'
  BY <1>1 DEF WInv, SchedPart, WorkPart, JobPart, RowPart, Left, Running, MidPrompt
<1>3. LocalPart' /\ OutPart' /\ StrayPart'
  BY <1>1 DEF WInv, LocalPart, OutPart, StrayPart, StoppedNow, Made, MidPrompt
<1>4. ScorePart' /\ HeadPart'
  BY <1>1 DEF WInv, ScorePart, HeadPart, Made
<1>5. LogPart'
  <2>1. ToldOnce' /\ Ending' = Ending
    BY <1>1 DEF WInv, LogPart, ToldOnce, Ending, StoppedNow, Left
  <2>2. \A c \in DOMAIN jobs' :
          /\ Range(log[c])' \subseteq {"delta", "undecodable"}
          /\ "undecodable" \in Range(log[c])' => c \in Ending'
    BY <1>1, <2>1 DEF WInv, LogPart
  <2> QED BY <1>1, <2>1, <2>2 DEF LogPart
<1> QED BY <1>2, <1>3, <1>4, <1>5 DEF WInv

-----------------------------------------------------------------------------
(* Handlers and clients.                                                   *)

\* Handlers only read what has been sent, and send a command once.
LEMMA HandlerKeeps ==
  ASSUME WInv, NEW c \in Clients, HandlerStep(c) \/ Reject(c) \/ Disconnect(c)
  PROVE  WInv'
<1>1. UNCHANGED <<serving, worker, commands, log>>
  BY DEF HandlerStep, Receive, Closed, Reject, Disconnect
<1>2. handler' \in [Clients -> {"new", "open", "answered", "gone"}]
      /\ \A d \in Clients : handler'[d] = "new" => handler[d] = "new"
  BY DEF HandlerStep, Receive, Closed, Reject, Disconnect, WInv, HttpPart
<1>3. read' \in [Clients -> Nat] /\ \A d \in Clients : read'[d] <= Len(log[d])
  <2>1. CASE Receive(c)
    <3>1. /\ read \in [Clients -> Nat] /\ read[c] < Len(log[c]) /\ Len(log[c]) \in Nat
          /\ \A d \in Clients : read[d] <= Len(log[d])
      BY <2>1, LenProperties DEF Receive, WInv, HttpPart
    <3>2. read' = [read EXCEPT ![c] = @ + 1]
      BY <2>1 DEF Receive
    <3>3. read[c] + 1 <= Len(log[c]) /\ read[c] + 1 \in Nat
      BY <3>1
    <3> QED BY <3>1, <3>2, <3>3
  <2>2. CASE UNCHANGED read
    BY <2>2 DEF WInv, HttpPart
  <2> QED BY <2>1, <2>2 DEF HandlerStep, Closed, Reject, Disconnect
<1>4. HttpPart'
  BY <1>1, <1>2, <1>3 DEF WInv, HttpPart
<1>5. UNCHANGED <<serving, commands, jobs, pc>> /\ Range(commands) \subseteq Clients
  BY <1>1 DEF worker, WInv, HttpPart, Range
<1>6. CommandPart'
  BY <1>2, <1>5 DEF WInv, CommandPart
<1>7. \A d \in Clients : handler'[d] = "new" \/ d \in Range(commands)' => log[d] = <<>>
  BY <1>2, <1>5 DEF WInv, LogPart
<1> QED BY <1>1, <1>4, <1>6, <1>7, WorkerSame

\* A command in the channel is from a client nobody has heard of.
LEMMA SendKeeps == ASSUME WInv, NEW c \in Clients, Send(c) PROVE WInv'
<1>1. UNCHANGED <<serving, read, worker, log, jobs, pc>> /\ handler[c] = "new" /\ pc # "init"
  BY DEF Send, worker, WInv, CommandPart
<1>2. c \notin Range(commands) /\ c \notin DOMAIN jobs /\ log[c] = <<>>
  BY <1>1 DEF WInv, CommandPart, LogPart
<1>3. CASE pc = "stopped"
  <2>1. handler' = [handler EXCEPT ![c] = "answered"] /\ commands' = commands
    BY <1>3 DEF Send
  <2>2. HttpPart'
    BY <1>1, <2>1 DEF WInv, HttpPart
  <2>3. Range(commands) = {}
    BY <1>3 DEF WInv, CommandPart, Range
  <2>4. CommandPart'
    BY <1>1, <1>3, <2>1, <2>3 DEF WInv, CommandPart
  <2>5. \A d \in Clients : handler'[d] = "new" \/ d \in Range(commands)' => log[d] = <<>>
    BY <2>1, <2>3 DEF WInv, LogPart, HttpPart
  <2> QED BY <1>1, <2>2, <2>4, <2>5, WorkerSame
<1>4. CASE pc # "stopped"
  <2>1. handler' = [handler EXCEPT ![c] = "open"] /\ commands' = Append(commands, c)
    BY <1>4 DEF Send
  <2>2. commands \in Seq(Clients) /\ IsInjective(commands)
    BY DEF WInv, HttpPart, CommandPart
  <2>3. commands' \in Seq(Clients) /\ IsInjective(commands')
             /\ Range(commands') = Range(commands) \cup {c}
        /\ commands' # <<>>
    BY <1>2, <2>1, <2>2, QueueAppend
  <2>4. \A d \in Clients : handler'[d] = IF d = c THEN "open" ELSE handler[d]
    BY <2>1 DEF WInv, HttpPart
  <2>5. HttpPart'
    BY <1>1, <2>1, <2>3 DEF WInv, HttpPart
  <2>6. Range(commands) \subseteq Clients
    BY <2>2 DEF Range
  <2>7. CommandPart'
    <3>1. \A d \in Range(commands') : handler'[d] # "new" /\ d \notin DOMAIN jobs
      BY <1>2, <2>3, <2>4, <2>6 DEF WInv, CommandPart
    <3>2. \A d \in DOMAIN jobs : d \in Clients /\ handler'[d] # "new"
      BY <2>4 DEF WInv, CommandPart
    <3> QED BY <1>1, <1>4, <2>3, <3>1, <3>2 DEF WInv, CommandPart
  <2>8. \A d \in Clients : handler'[d] = "new" \/ d \in Range(commands') => log[d] = <<>>
    BY <1>2, <2>3, <2>4 DEF WInv, LogPart
  <2> QED BY <1>1, <2>5, <2>7, <2>8, WorkerSame
<1> QED BY <1>3, <1>4

\* The end of the router only drops receivers.
LEMMA ShutKeeps == ASSUME WInv, Shut PROVE WInv'
<1>1. UNCHANGED <<read, worker, commands, log, jobs, pc>> /\ serving' = FALSE
  BY DEF Shut, worker
<1>2. handler' \in [Clients -> {"new", "open", "answered", "gone"}]
           /\ \A d \in Clients : handler'[d] # "new"
  BY DEF Shut
<1>3. HttpPart'
  BY <1>1, <1>2 DEF WInv, HttpPart
<1>4. Range(commands) \subseteq Clients
  BY DEF WInv, HttpPart, Range
<1>5. CommandPart'
  BY <1>1, <1>2, <1>4 DEF WInv, CommandPart
<1>6. \A d \in Clients : handler'[d] = "new" \/ d \in Range(commands)' => log[d] = <<>>
  BY <1>1, <1>2 DEF WInv, LogPart
<1> QED BY <1>1, <1>3, <1>5, <1>6, WorkerSame

-----------------------------------------------------------------------------
(* Steps that only move the worker on.                                     *)

\* A step of the worker that only moves it on, where no request is between two states.
LEMMA PlaceKeeps ==
  ASSUME WInv, UNCHANGED <<handler, read, sched, batch, jobs, pending, head, log>>, pc # "stopped",
         serving' \in BOOLEAN, commands' = commands \/ commands' = <<>>,
         pc' \in {"tokenizer", "drain", "wait", "run", "emit", "finish", "sweep",
                  "burst", "burstfinish", "stopped"},
         local' \in [todo : SUBSET Clients, stopped : SUBSET Clients,
                     accepted : Nat, produced : Nat],
         pc' = "stopped" => DOMAIN jobs = {} /\ commands' = <<>>,
         pc' = "tokenizer" => DOMAIN jobs = {},
         RowPart', LocalPart', Left = {}, Left' = {}, StoppedNow = {}, StoppedNow' = {},
         \A c \in DOMAIN sched.generated : Made(c) = 0 /\ Made(c)' = 0
  PROVE  WInv'
<1>1. Range(commands') \subseteq Range(commands) /\ commands' \in Seq(Clients)
           /\ IsInjective(commands')
  <2>1. CASE commands' = <<>>
    <3>1. DOMAIN commands' = {} /\ commands' \in Seq(Clients)
      BY <2>1, EmptySeq
    <3> QED BY <3>1 DEF Range, IsInjective
  <2>2. CASE commands' = commands
    BY <2>2 DEF WInv, HttpPart, CommandPart
  <2> QED BY <2>1, <2>2
<1>2. HttpPart' /\ SchedPart' /\ WorkPart'
  <2>1. HttpPart'
    BY <1>1 DEF WInv, HttpPart
  <2>2. SchedPart'
    BY DEF WInv, SchedPart
  <2>3. WorkPart'
    BY DEF WInv, WorkPart
  <2> QED BY <2>1, <2>2, <2>3
<1>3. CommandPart'
  BY <1>1 DEF WInv, CommandPart
<1>4. JobPart' /\ StrayPart'
  BY DEF WInv, JobPart, StrayPart, Running, MidPrompt
<1>5. OutPart'
  <2>1. \A c \in DOMAIN sched.generated :
          /\ pending[c] = sched.generated[c] + 1
          /\ c \notin StoppedNow => jobs[c].out = [i \in 1..(sched.generated[c] + Made(c)) |-> i]
          /\ Len(jobs[c].out) <= sched.generated[c] + Made(c)
    BY DEF WInv, OutPart
  <2>2. \A c \in sched.waiting \cup DOMAIN sched.chunks : jobs[c].out = <<>>
    BY DEF WInv, OutPart
  <2> QED BY <2>1, <2>2 DEF OutPart
<1>6. ScorePart'
  <2>1. ASSUME NEW c \in DOMAIN jobs
        PROVE  /\ Len(jobs[c].out) <= MaxNew[c]
               /\ jobs[c].scores = IF c \in Scored THEN jobs[c].out ELSE <<>>
               /\ c \notin Scored => jobs[c].next = NoScores
               /\ c \in Scored \cap DOMAIN sched.generated => jobs[c].next = pending[c]
    BY DEF WInv, ScorePart
  <2> QED BY <2>1 DEF ScorePart
<1>7. HeadPart'
  BY DEF WInv, HeadPart
<1>8. LogPart'
  <2>1. ToldOnce' /\ Ending' = Ending
    BY DEF WInv, LogPart, ToldOnce, Ending
  <2>2. \A c \in Clients : handler'[c] = "new" \/ c \in Range(commands') => log'[c] = <<>>
    BY <1>1 DEF WInv, LogPart
  <2>3. \A c \in DOMAIN jobs' :
          /\ Range(log'[c]) \subseteq {"delta", "undecodable"}
          /\ "undecodable" \in Range(log'[c]) => c \in Ending'
    BY <2>1 DEF WInv, LogPart
  <2> QED BY <2>1, <2>2, <2>3 DEF LogPart
<1> QED BY <1>2, <1>3, <1>4, <1>5, <1>6, <1>7, <1>8 DEF WInv

\* The worker starts, waits, and looks for what to do.
LEMMA IdleKeeps ==
  ASSUME WInv, Initialize \/ LoadTokenizer \/ WaitOver \/ PlanNothing
  PROVE  WInv'
<1>1. /\ UNCHANGED <<handler, read, sched, batch, jobs, pending, head, log, local>>
      /\ commands' = commands \/ commands' = <<>>
  BY DEF Initialize, LoadTokenizer, WaitOver, PlanNothing, http
<1>2. serving' \in BOOLEAN
  BY DEF Initialize, LoadTokenizer, WaitOver, PlanNothing, http, WInv, HttpPart
<1>3. pc \in {"init", "tokenizer", "drain", "wait"}
      /\ pc' \in {"tokenizer", "drain", "wait", "stopped"}
  BY DEF Initialize, LoadTokenizer, WaitOver, PlanNothing
<1>4. local' \in [todo : SUBSET Clients, stopped : SUBSET Clients, accepted : Nat, produced : Nat]
  BY <1>1 DEF WInv, WorkPart
<1>5. pc \in {"init", "tokenizer"} => DOMAIN jobs = {}
  BY DEF WInv, CommandPart
<1>6. pc' = "tokenizer" => DOMAIN jobs = {}
  BY <1>5 DEF Initialize, LoadTokenizer, WaitOver, PlanNothing
<1>7. pc' = "stopped" => DOMAIN jobs = {}
  BY <1>5 DEF Initialize, LoadTokenizer, WaitOver, PlanNothing, Empty
<1>8. pc' = "stopped" => commands' = <<>>
  BY DEF Initialize, LoadTokenizer, WaitOver, PlanNothing, WInv, CommandPart
<1>9. RowPart' /\ LocalPart' /\ Left = {} /\ Left' = {} /\ StoppedNow = {} /\ StoppedNow' = {}
      /\ \A c \in DOMAIN sched.generated : Made(c) = 0 /\ Made(c)' = 0
  BY <1>3 DEF RowPart, LocalPart, Left, StoppedNow, Made
<1> QED BY <1>1, <1>2, <1>3, <1>4, <1>6, <1>7, <1>8, <1>9, PlaceKeeps

\* The step begins: nothing of it has gone out.
LEMMA BeginKeeps == ASSUME WInv, Execute \/ Speculate PROVE WInv'
<1>1. /\ UNCHANGED <<serving, handler, read, commands, sched, batch, jobs, pending, head, log>>
      /\ pc = "run" /\ local'.todo = batch.decode /\ local'.stopped = {} /\ local'.produced = 0
      /\ local' \in [todo : SUBSET Clients, stopped : SUBSET Clients, accepted : Nat,
           produced : Nat]
  <2>1. batch.decode \subseteq Clients
    BY DEF WInv, WorkPart
  <2>2. CASE Execute
    BY <2>1, <2>2 DEF Execute, NoLocal, http
  <2>3. CASE Speculate
    <3>1. PICK n \in 0..DraftDepth : local' = [NoLocal EXCEPT !.todo = batch.decode, !.accepted = n]
      BY <2>3 DEF Speculate
    <3>2. n \in Nat
      OBVIOUS
    <3> QED BY <2>1, <2>3, <3>1, <3>2 DEF Speculate, NoLocal, http
  <2> QED BY <2>2, <2>3
<1>2. /\ batch.decode = DOMAIN sched.generated /\ batch.prefill \subseteq DOMAIN sched.chunks
      /\ \A c \in batch.prefill : sched.chunks[c] = 1 => c \in batch.done
  BY <1>1 DEF WInv, RowPart
<1>3. pc' \in {"emit", "burst"}
  BY DEF Execute, Speculate
<1>4. RowPart'
  BY <1>1, <1>2 DEF RowPart
<1>5. Left = {} /\ Left' = {} /\ StoppedNow = {} /\ StoppedNow' = {}
      /\ \A c \in DOMAIN sched.generated : Made(c) = 0 /\ Made(c)' = 0
  BY <1>1, <1>2, <1>3 DEF Left, StoppedNow, Made
<1>6. LocalPart'
  <2>1. CASE Execute
    BY <1>1, <2>1 DEF Execute, LocalPart
  <2>2. CASE Speculate
    <3>1. PICK n \in 0..DraftDepth : local' = [NoLocal EXCEPT !.todo = batch.decode, !.accepted = n]
      BY <2>2 DEF Speculate
    <3>2. DraftDepth > 0 /\ pc' = "burst"
      BY <2>2 DEF Speculate
    <3>3. batch.prefill = {} /\ Cardinality(batch.decode) = 1
      BY <3>2 DEF DraftDepth
    <3>4. IsFiniteSet(batch.decode)
      <4>1. batch.decode \subseteq DOMAIN jobs
        BY <1>1, <1>2 DEF WInv, JobPart, Running
      <4> QED BY <4>1, FS_Subset DEF WInv, CommandPart
    <3>5. PICK c : batch.decode = {c}
      BY <3>3, <3>4, FS_Singleton
    <3>6. c \in Clients /\ MaxNew[c] \in Nat /\ sched.generated[c] \in Nat
          /\ sched.generated[c] < MaxNew[c]
      BY <1>2, <3>5, ServerAssumption DEF WInv, SchedPart
    <3>7. DraftDepth \in Int /\ DraftDepth <= MaxNew[c] - sched.generated[c] - 1
      <4>1. PICK m : m = MaxNew[c] - sched.generated[c] - 1
        OBVIOUS
      <4>2. DraftDepth = Min({Depth, m})
        <5>1. {MaxNew[d] - sched.generated[d] - 1 : d \in batch.decode} = {m}
          BY <3>5, <4>1
        <5>2. {Depth} \cup {m} = {Depth, m}
          OBVIOUS
        <5> QED BY <3>2, <5>1, <5>2 DEF DraftDepth
      <4>3. m \in Int /\ Depth \in Int
        BY <3>6, <4>1, ServerAssumption
      <4> QED BY <4>1, <4>2, <4>3, MinOfTwo
    <3>8. local'.accepted = n /\ n \in Nat /\ n <= MaxNew[c] - sched.generated[c] - 1
      <4>1. local'.accepted = n
        BY <3>1 DEF NoLocal
      <4>2. PICK m : m = MaxNew[c] - sched.generated[c] - 1
        OBVIOUS
      <4>3. m \in Int
        BY <3>6, <4>2
      <4>4. n \in Int /\ 0 <= n /\ n <= DraftDepth
        BY <3>7
      <4> QED BY <3>7, <4>1, <4>2, <4>3, <4>4
    <3>9. sched.generated[c] + n + 1 <= MaxNew[c]
      BY <3>6, <3>8
    <3> QED BY <1>1, <3>2, <3>3, <3>5, <3>6, <3>8, <3>9 DEF LocalPart
  <2> QED BY <2>1, <2>2
<1> QED BY <1>1, <1>3, <1>4, <1>5, <1>6, PlaceKeeps DEF WInv, HttpPart

\* The step ends: nobody is between two states.
LEMMA EndKeeps == ASSUME WInv, BeginSweep \/ NextRound PROVE WInv'
<1>1. /\ UNCHANGED <<serving, handler, read, commands, sched, batch, jobs, pending, head, log>>
      /\ pc \in {"finish", "sweep", "burstfinish"} /\ local.todo = {} /\ pc' \in {"sweep", "drain"}
  BY DEF BeginSweep, NextRound, http
<1>2. DOMAIN jobs \subseteq Clients
  BY DEF WInv, CommandPart
<1>3. local' \in [todo : SUBSET Clients, stopped : SUBSET Clients, accepted : Nat, produced : Nat]
  BY <1>2 DEF BeginSweep, NextRound, NoLocal, WInv, WorkPart
<1>4. RowPart' /\ LocalPart' /\ Left = {} /\ Left' = {} /\ StoppedNow = {} /\ StoppedNow' = {}
      /\ \A c \in DOMAIN sched.generated : Made(c) = 0 /\ Made(c)' = 0
  BY <1>1 DEF RowPart, LocalPart, Left, StoppedNow, Made
<1> QED BY <1>1, <1>3, <1>4, PlaceKeeps DEF WInv, HttpPart

-----------------------------------------------------------------------------
(* What clients are told.                                                  *)

\* What ToldOnce says of the events of one client.
Told(s) ==
  \A i, j \in DOMAIN s :
    i < j => /\ s[i] \notin {"done", "error"}
             /\ s[i] = "undecodable" => s[j] \in {"done", "error"}

\* An event may follow when nothing has ended the text, or it is the end.
LEMMA ToldMore ==
  ASSUME NEW s \in Seq(Events), Told(s), Range(s) \subseteq {"delta", "undecodable"},
       NEW e \in Events,
         "undecodable" \in Range(s) => e \in {"done", "error"}
  PROVE  /\ Told(s \o <<e>>) /\ s \o <<e>> \in Seq(Events) /\ Range(s \o <<e>>) = Range(s) \cup {e}
         /\ Len(s \o <<e>>) = Len(s) + 1 /\ s \o <<e>> = Append(s, e)
<1> DEFINE n == Len(s)
           r == Append(s, e)
<1>1. n \in Nat /\ DOMAIN s = 1..n
  BY LenProperties
<1>2. r \in Seq(Events) /\ Len(r) = n + 1 /\ DOMAIN r = 1..(n + 1)
      /\ r[n + 1] = e /\ \A i \in 1..n : r[i] = s[i]
  BY <1>1, AppendProperties, LenProperties
<1>3. s \o <<e>> = r
  BY AppendIsConcat
<1>4. Range(r) = Range(s) \cup {e}
  BY AppendRange
<1>5. \A i \in 1..n : s[i] \in Range(s)
  BY <1>1 DEF Range
<1> HIDE DEF n, r
<1>6. Told(r)
  <2> SUFFICES ASSUME NEW i \in 1..(n + 1), NEW j \in 1..(n + 1), i < j
               PROVE  r[i] \notin {"done", "error"}
                    /\ (r[i] = "undecodable" => r[j] \in {"done", "error"})
    BY <1>2 DEF Told
  <2>1. i \in 1..n /\ r[i] = s[i] /\ r[i] \in {"delta", "undecodable"}
    BY <1>1, <1>2, <1>5
  <2>2. CASE j = n + 1
    BY <1>2, <1>5, <2>1, <2>2
  <2>3. CASE j # n + 1
    <3>1. j \in 1..n /\ r[j] = s[j]
      BY <1>1, <1>2, <2>3
    <3>2. i \in DOMAIN s /\ j \in DOMAIN s
      BY <1>1, <2>1, <3>1
    <3>3. s[i] = "undecodable" => s[j] \in {"done", "error"}
      BY <3>2 DEF Told
    <3> QED BY <2>1, <3>1, <3>3
  <2> QED BY <2>2, <2>3
<1> QED BY <1>1, <1>2, <1>3, <1>4, <1>6 DEF n, r

\* ToldOnce, client by client.
LEMMA ToldEach == ToldOnce <=> \A c \in Clients : Told(log[c])
BY DEF ToldOnce, Told

\* Sending changes the log of one client, if he still listens.
LEMMA SentTo ==
  ASSUME WInv, NEW c \in Clients, NEW es, log[c] \o es \in Seq(Events),
         Len(log[c]) <= Len(log[c] \o es), log' = Sent(c, es)
  PROVE  /\ log' \in [Clients -> Seq(Events)] /\ \A d \in Clients \ {c} : log'[d] = log[d]
         /\ log'[c] = log[c] \/ log'[c] = log[c] \o es
         /\ \A d \in Clients : Len(log[d]) \in Nat /\ Len(log[d]) <= Len(log'[d])
<1>1. log \in [Clients -> Seq(Events)]
  BY DEF WInv, HttpPart
<1>2. \A d \in Clients : Len(log[d]) \in Nat
  BY <1>1, LenProperties
<1>3. CASE IsClosed(c)
  BY <1>1, <1>2, <1>3 DEF Sent
<1>4. CASE ~IsClosed(c)
  <2>1. log' = [log EXCEPT ![c] = log[c] \o es]
    BY <1>4 DEF Sent
  <2> QED BY <1>1, <1>2, <2>1
<1> QED BY <1>3, <1>4

\* The router stays as it is, and logs grow.
LEMMA HttpSame ==
  ASSUME WInv, UNCHANGED http, commands' \in Seq(Clients), log' \in [Clients -> Seq(Events)],
         \A d \in Clients : Len(log[d]) \in Nat /\ Len(log[d]) <= Len(log'[d])
  PROVE  HttpPart'
<1>1. UNCHANGED <<serving, handler, read>>
  BY DEF http
<1>2. \A d \in Clients : read'[d] <= Len(log'[d])
  <2> SUFFICES ASSUME NEW d \in Clients PROVE read[d] <= Len(log'[d])
    BY <1>1
  <2>1. read[d] \in Nat /\ read[d] <= Len(log[d]) /\ Len(log[d]) \in Nat
    BY DEF WInv, HttpPart
  <2>2. Len(log'[d]) \in Nat
    <3>1. log'[d] \in Seq(Events)
      OBVIOUS
    <3> QED BY <3>1, LenProperties
  <2> QED BY <2>1, <2>2
<1> QED BY <1>1, <1>2 DEF WInv, HttpPart

-----------------------------------------------------------------------------
(* Taking commands, planning and errors.                                   *)

\* Between two steps no request is between two states.
LEMMA AtRest ==
  ASSUME pc \notin {"emit", "burst", "finish", "burstfinish"}
  PROVE  Left = {} /\ StoppedNow = {} /\ Ending = {} /\ \A c : Made(c) = 0
BY DEF Left, StoppedNow, Ending, Made

\* accept_command: the request and its job are the worker's, or it is refused and heard of once.
LEMMA TakeKeeps == ASSUME WInv, TakeCommand PROVE WInv'
<1>0. PICK c : c = commands[1]
  OBVIOUS
<1>1. /\ UNCHANGED <<http, serving, handler, read, batch, pending, head, local>>
      /\ pc \in {"drain", "wait"} /\ pc' = "drain" /\ commands # <<>> /\ commands' = Tail(commands)
      /\ \/ /\ sched' = [sched EXCEPT !.waiting = @ \cup {c}]
            /\ jobs' = With(jobs, c, NewJob) /\ UNCHANGED log
         \/ log' = Sent(c, <<"error">>) /\ UNCHANGED <<sched, jobs>>
  BY <1>0 DEF TakeCommand, AcceptCommand, http
<1>2. /\ c \in Clients /\ c \in Range(commands) /\ commands' \in Seq(Clients)
      /\ IsInjective(commands') /\ Range(commands') = Range(commands) \ {c}
  <2>1. commands \in Seq(Clients) /\ IsInjective(commands) /\ Head(commands) = c
    BY <1>0 DEF WInv, HttpPart, CommandPart
  <2> QED BY <1>1, <2>1, QueueTail
<1>3. handler[c] # "new" /\ c \notin DOMAIN jobs /\ log[c] = <<>>
  BY <1>2 DEF WInv, CommandPart, LogPart
<1>4. /\ Left = {} /\ Left' = {} /\ StoppedNow = {} /\ StoppedNow' = {} /\ Ending = {}
           /\ Ending' = {}
      /\ \A d : Made(d) = 0 /\ Made(d)' = 0
  BY <1>1 DEF Left, StoppedNow, Ending, Made
<1>5. /\ DOMAIN jobs = sched.waiting \cup Running
           /\ DOMAIN pending = DOMAIN sched.generated \cup MidPrompt
      /\ sched.waiting \cap Running = {} /\ DOMAIN sched.chunks \cap DOMAIN sched.generated = {}
  BY <1>1, <1>4 DEF WInv, JobPart
<1>6. RowPart' /\ LocalPart'
  BY <1>1 DEF RowPart, LocalPart
<1>7. /\ WorkPart' /\ CommandPart' /\ SchedPart' /\ JobPart' /\ OutPart' /\ ScorePart'
      /\ StrayPart'
  <2>1. CASE sched' = [sched EXCEPT !.waiting = @ \cup {c}] /\ jobs' = With(jobs, c, NewJob)
    <3>1. /\ sched'.waiting = sched.waiting \cup {c} /\ sched'.chunks = sched.chunks
          /\ sched'.generated = sched.generated
          /\ sched' = [waiting |-> sched'.waiting, chunks |-> sched'.chunks,
                       generated |-> sched'.generated]
      BY <2>1 DEF WInv, SchedPart
    <3>2. /\ DOMAIN jobs' = DOMAIN jobs \cup {c} /\ jobs'[c] = NewJob
          /\ \A d \in DOMAIN jobs : jobs'[d] = jobs[d]
      BY <1>3, <2>1 DEF With
    <3>3. NewJob \in Job /\ NewJob.out = <<>> /\ NewJob.scores = <<>> /\ NewJob.next = NoScores
          /\ Len(NewJob.out) = 0
      BY EmptySeq DEF NewJob, Job, NoScores
    <3>4. SchedPart'
      BY <1>2, <3>1 DEF WInv, SchedPart
    <3>5. WorkPart'
      BY <1>1, <3>2, <3>3 DEF WInv, WorkPart
    <3>6. CommandPart'
      <4>1. IsFiniteSet(DOMAIN jobs')
        BY <3>2, FS_AddElement DEF WInv, CommandPart
      <4> QED BY <1>1, <1>2, <1>3, <3>2, <4>1 DEF WInv, CommandPart
    <3>7. JobPart' /\ StrayPart'
      BY <1>1, <1>3, <1>4, <1>5, <3>1, <3>2 DEF WInv, JobPart, StrayPart, Running, MidPrompt
    <3>8. OutPart'
      <4>1. ASSUME NEW d \in sched'.waiting \cup DOMAIN sched'.chunks PROVE jobs'[d].out = <<>>
        BY <1>1, <1>5, <3>1, <3>2, <3>3 DEF WInv, OutPart, Running
      <4>2. ASSUME NEW d \in DOMAIN sched'.generated
            PROVE  /\ pending'[d] = sched'.generated[d] + 1
                   /\ d \notin StoppedNow' =>
                        jobs'[d].out = [i \in 1..(sched'.generated[d] + Made(d)') |-> i]
                   /\ Len(jobs'[d].out) <= sched'.generated[d] + Made(d)'
        <5>1. jobs'[d] = jobs[d]
          BY <1>5, <3>1, <3>2 DEF Running
        <5>2. /\ pending[d] = sched.generated[d] + 1
              /\ jobs[d].out = [i \in 1..(sched.generated[d] + Made(d)) |-> i]
              /\ Len(jobs[d].out) <= sched.generated[d] + Made(d)
          BY <1>1, <1>4, <3>1 DEF WInv, OutPart
        <5>3. sched'.generated[d] + Made(d)' = sched.generated[d] + Made(d)
          BY <1>4, <3>1
        <5> QED BY <1>1, <3>1, <5>1, <5>2, <5>3
      <4> QED BY <4>1, <4>2 DEF OutPart
    <3>9. ScorePart'
      <4>1. MaxNew[c] \in Nat
        BY <1>2, ServerAssumption
      <4>2. ASSUME NEW d \in DOMAIN jobs'
            PROVE  /\ Len(jobs'[d].out) <= MaxNew[d]
                   /\ jobs'[d].scores = IF d \in Scored THEN jobs'[d].out ELSE <<>>
                   /\ d \notin Scored => jobs'[d].next = NoScores
                   /\ d \in Scored \cap DOMAIN sched'.generated => jobs'[d].next = pending'[d]
        <5>1. CASE d = c
          <6>1. c \notin DOMAIN sched.generated
            BY <1>3, <1>5 DEF Running
          <6> QED BY <3>1, <3>2, <3>3, <4>1, <5>1, <6>1
        <5>2. CASE d # c
          BY <1>1, <1>4, <3>1, <3>2, <5>2 DEF WInv, ScorePart
        <5> QED BY <5>1, <5>2
      <4> QED BY <4>2 DEF ScorePart
    <3> QED BY <3>4, <3>5, <3>6, <3>7, <3>8, <3>9
  <2>2. CASE UNCHANGED <<sched, jobs>>
    <3>1. SchedPart' /\ WorkPart'
      BY <1>1, <2>2 DEF WInv, SchedPart, WorkPart
    <3>2. CommandPart'
      BY <1>1, <1>2, <2>2 DEF WInv, CommandPart
    <3>3. JobPart' /\ StrayPart'
      BY <1>1, <1>4, <2>2 DEF WInv, JobPart, StrayPart, Running, MidPrompt
    <3>4. OutPart'
      <4>1. ASSUME NEW d \in DOMAIN sched.generated
            PROVE  /\ pending[d] = sched.generated[d] + 1
                   /\ jobs[d].out = [i \in 1..(sched.generated[d] + 0) |-> i]
                   /\ Len(jobs[d].out) <= sched.generated[d] + 0
        BY <1>1, <1>4 DEF WInv, OutPart
      <4>2. \A d \in sched.waiting \cup DOMAIN sched.chunks : jobs[d].out = <<>>
        BY <1>1 DEF WInv, OutPart
      <4> QED BY <1>1, <1>4, <2>2, <4>1, <4>2 DEF OutPart
    <3>5. ScorePart'
      BY <1>1, <1>4, <2>2 DEF WInv, ScorePart
    <3> QED BY <3>1, <3>2, <3>3, <3>4, <3>5
  <2> QED BY <1>1, <2>1, <2>2
<1>8. HttpPart' /\ LogPart'
  <2>1. <<>> \in Seq(Events) /\ Range(<<>>) = {} /\ Told(<<>>) /\ "error" \in Events
    BY EmptySeq DEF Range, Told, Events
  <2>2. /\ Told(<<>> \o <<"error">>) /\ <<>> \o <<"error">> \in Seq(Events)
        /\ Len(<<>> \o <<"error">>) = Len(<<>>) + 1
    BY <2>1, ToldMore
  <2>3. Len(<<>>) = 0
    OBVIOUS
  <2>4. /\ log' \in [Clients -> Seq(Events)] /\ \A d \in Clients \ {c} : log'[d] = log[d]
        /\ log'[c] = log[c] \/ (log'[c] = <<>> \o <<"error">> /\ jobs' = jobs)
        /\ \A d \in Clients : Len(log[d]) \in Nat /\ Len(log[d]) <= Len(log'[d])
    <3>1. CASE log' = log
      BY <3>1, LenProperties DEF WInv, HttpPart
    <3>2. CASE log' = Sent(c, <<"error">>) /\ jobs' = jobs
      <4>1. log[c] \o <<"error">> = <<>> \o <<"error">>
        BY <1>3
      <4>2. log[c] \o <<"error">> \in Seq(Events) /\ Len(log[c]) <= Len(log[c] \o <<"error">>)
        BY <1>3, <2>2, <2>3, <4>1
      <4> QED BY <1>2, <3>2, <4>1, <4>2, SentTo
    <3> QED BY <1>1, <3>1, <3>2
  <2>5. HttpPart'
    BY <1>1, <1>2, <2>4, HttpSame
  <2>6. ToldOnce'
    <3>1. \A d \in Clients : Told(log[d])
      BY ToldEach DEF WInv, LogPart
    <3>2. \A d \in Clients : Told(log'[d])
      BY <2>2, <2>4, <3>1
    <3> QED BY <3>2 DEF ToldOnce, Told
  <2>7. \A d \in Clients : handler'[d] = "new" \/ d \in Range(commands') => log'[d] = <<>>
    BY <1>1, <1>2, <1>3, <2>4 DEF WInv, LogPart
  <2>8. \A d \in DOMAIN jobs' : /\ Range(log'[d]) \subseteq {"delta", "undecodable"}
                                /\ "undecodable" \notin Range(log'[d])
    <3> SUFFICES ASSUME NEW d \in DOMAIN jobs'
                 PROVE  Range(log'[d]) \subseteq {"delta", "undecodable"}
                      /\ "undecodable" \notin Range(log'[d])
      OBVIOUS
    <3>1. CASE d = c
      <4>1. log'[c] = log[c]
        BY <1>3, <2>4, <3>1
      <4> QED BY <1>3, <2>1, <3>1, <4>1
    <3>2. CASE d # c
      <4>1. d \in DOMAIN jobs
        BY <1>1, <3>2 DEF With
      <4>2. d \in Clients
        BY <4>1 DEF WInv, CommandPart
      <4> QED BY <1>4, <2>4, <3>2, <4>1, <4>2 DEF WInv, LogPart
    <3> QED BY <3>1, <3>2
  <2> QED BY <1>4, <2>5, <2>6, <2>7, <2>8 DEF LogPart
<1>9. HeadPart'
  BY <1>1 DEF WInv, HeadPart
<1> QED BY <1>6, <1>7, <1>8, <1>9 DEF WInv

\* next_batch: the admitted leave the queue for their prompts, with the jobs they have.
LEMMA PlanKeeps == ASSUME WInv, PlanBatch PROVE WInv'
<1>1. PICK admitted \in SUBSET sched.waiting :
        LET chunks == [c \in DOMAIN sched.chunks \cup admitted |->
                         IF c \in admitted THEN Chunks ELSE sched.chunks[c]]
        IN  /\ \E prefill \in SUBSET DOMAIN chunks : \E done \in SUBSET prefill :
                 /\ {c \in prefill : chunks[c] = 1} \subseteq done
                 /\ batch' = [decode |-> DOMAIN sched.generated, prefill |-> prefill,
                              done |-> done]
            /\ sched' = [sched EXCEPT !.waiting = @ \ admitted, !.chunks = chunks]
  BY DEF PlanBatch
<1>2. PICK chunks : chunks = [c \in DOMAIN sched.chunks \cup admitted |->
                                IF c \in admitted THEN Chunks ELSE sched.chunks[c]]
  OBVIOUS
<1>3. /\ UNCHANGED <<http, serving, handler, read, jobs, pending, head, local, commands, log>>
      /\ pc = "drain" /\ pc' = "run"
  BY DEF PlanBatch, http
<1>4. PICK prefill \in SUBSET DOMAIN chunks : \E done \in SUBSET prefill :
                 /\ {c \in prefill : chunks[c] = 1} \subseteq done
                 /\ batch' = [decode |-> DOMAIN sched.generated, prefill |-> prefill,
                              done |-> done]
  BY <1>1, <1>2
<1>5. PICK done \in SUBSET prefill :
                 /\ {c \in prefill : chunks[c] = 1} \subseteq done
                 /\ batch' = [decode |-> DOMAIN sched.generated, prefill |-> prefill,
                              done |-> done]
  BY <1>4
<1>6. /\ sched'.waiting = sched.waiting \ admitted /\ sched'.chunks = chunks
      /\ sched'.generated = sched.generated
      /\ sched' = [waiting |-> sched'.waiting, chunks |-> sched'.chunks,
                   generated |-> sched'.generated]
  BY <1>1, <1>2 DEF WInv, SchedPart
<1>7. /\ DOMAIN chunks = DOMAIN sched.chunks \cup admitted
      /\ \A c \in DOMAIN chunks : chunks[c] = IF c \in admitted THEN Chunks ELSE sched.chunks[c]
  BY <1>2
<1>8. /\ sched.waiting \subseteq Clients /\ DOMAIN sched.chunks \subseteq Clients
      /\ DOMAIN sched.generated \subseteq Clients
      /\ \A c \in DOMAIN sched.chunks : sched.chunks[c] \in 1..Chunks
      /\ \A c \in DOMAIN sched.generated :
           sched.generated[c] \in Nat /\ sched.generated[c] < MaxNew[c]
  BY DEF WInv, SchedPart
<1>9. /\ Left = {} /\ Left' = {} /\ StoppedNow = {} /\ StoppedNow' = {} /\ Ending = {}
           /\ Ending' = {}
      /\ \A d : Made(d) = 0 /\ Made(d)' = 0
  BY <1>3 DEF Left, StoppedNow, Ending, Made
<1>10. /\ DOMAIN jobs = sched.waiting \cup Running
            /\ DOMAIN pending = DOMAIN sched.generated \cup MidPrompt
       /\ sched.waiting \cap Running = {} /\ DOMAIN sched.chunks \cap DOMAIN sched.generated = {}
  BY <1>3, <1>9 DEF WInv, JobPart
<1>11. HttpPart' /\ CommandPart' /\ HeadPart'
  BY <1>3 DEF WInv, HttpPart, CommandPart, HeadPart
<1>12. SchedPart'
  <2>1. Chunks \in 1..Chunks
    BY ServerAssumption
  <2>2. \A c \in DOMAIN chunks : chunks[c] \in 1..Chunks
    BY <1>7, <1>8, <2>1
  <2> QED BY <1>6, <1>7, <1>8, <2>2 DEF SchedPart
<1>13. WorkPart'
  <2>1. batch' \in [decode : SUBSET Clients, prefill : SUBSET Clients, done : SUBSET Clients]
        /\ batch'.done \subseteq batch'.prefill
    BY <1>5, <1>7, <1>8
  <2> QED BY <1>3, <2>1 DEF WInv, WorkPart
<1>14. JobPart' /\ StrayPart'
  <2>1. MidPrompt' = MidPrompt
    <3>1. \A c \in DOMAIN chunks : chunks[c] < Chunks <=>
                                     c \in DOMAIN sched.chunks /\ sched.chunks[c] < Chunks
      <4>1. Chunks \in Nat /\ admitted \cap DOMAIN sched.chunks = {}
        BY <1>10, ServerAssumption DEF Running
      <4> QED BY <1>7, <1>8, <4>1
    <3> QED BY <1>6, <1>7, <3>1 DEF MidPrompt
  <2>2. JobPart'
    BY <1>3, <1>6, <1>7, <1>9, <1>10, <2>1 DEF JobPart, Running
  <2>3. StrayPart'
    BY <1>3, <2>1 DEF WInv, StrayPart
  <2> QED BY <2>2, <2>3
<1>15. RowPart' /\ LocalPart'
  <2>1. LocalPart'
    BY <1>3 DEF LocalPart
  <2>2. RowPart'
    BY <1>3, <1>5, <1>6 DEF RowPart
  <2> QED BY <2>1, <2>2
<1>16. OutPart'
  <2>1. ASSUME NEW d \in DOMAIN sched.generated
        PROVE  /\ pending[d] = sched.generated[d] + 1
               /\ jobs[d].out = [i \in 1..(sched.generated[d] + 0) |-> i]
               /\ Len(jobs[d].out) <= sched.generated[d] + 0
    BY <1>3, <1>9 DEF WInv, OutPart
  <2>2. \A d \in sched.waiting \cup DOMAIN sched.chunks : jobs[d].out = <<>>
    BY <1>3 DEF WInv, OutPart
  <2>3. \A d \in sched'.waiting \cup DOMAIN sched'.chunks : jobs'[d].out = <<>>
    BY <1>3, <1>6, <1>7, <2>2
  <2> QED BY <1>3, <1>6, <1>9, <2>1, <2>3 DEF OutPart
<1>17. ScorePart'
  <2>1. ASSUME NEW c \in DOMAIN jobs
        PROVE  /\ Len(jobs[c].out) <= MaxNew[c]
               /\ jobs[c].scores = IF c \in Scored THEN jobs[c].out ELSE <<>>
               /\ c \notin Scored => jobs[c].next = NoScores
               /\ c \in Scored \cap DOMAIN sched.generated => jobs[c].next = pending[c]
    BY <1>9 DEF WInv, ScorePart
  <2> QED BY <1>3, <1>6, <2>1 DEF ScorePart
<1>18. LogPart'
  <2>1. ToldOnce'
    BY <1>3 DEF WInv, LogPart, ToldOnce
  <2> QED BY <1>3, <1>9, <2>1 DEF WInv, LogPart
<1> QED BY <1>11, <1>12, <1>13, <1>14, <1>15, <1>16, <1>17, <1>18 DEF WInv

\* fail_all: everybody who has a job hears of it once more, and nobody has a job after that.
LEMMA FailKeeps == ASSUME WInv, Fail PROVE WInv'
<1>1. /\ UNCHANGED <<http, serving, handler, read, sched, batch, pending, head, local>>
      /\ jobs' = [c \in {} |-> 0] /\ commands' = <<>> /\ pc' = "stopped"
      /\ log' = [c \in Clients |-> IF c \in DOMAIN jobs /\ ~IsClosed(c)
                                   THEN Append(log[c], "error") ELSE log[c]]
  BY DEF Fail, Stop, http, Empty
<1>2. DOMAIN jobs' = {} /\ Range(commands') = {} /\ IsInjective(commands')
      /\ commands' \in Seq(Clients)
  BY <1>1, EmptySeq DEF Range, IsInjective
<1>3. ASSUME NEW c \in Clients
      PROVE  /\ log'[c] \in Seq(Events) /\ Told(log'[c])
             /\ Len(log[c]) \in Nat /\ Len(log[c]) <= Len(log'[c])
  <2>1. log[c] \in Seq(Events) /\ Told(log[c]) /\ Len(log[c]) \in Nat
    BY ToldEach, LenProperties DEF WInv, HttpPart, LogPart
  <2>2. CASE c \in DOMAIN jobs /\ ~IsClosed(c)
    <3>1. Range(log[c]) \subseteq {"delta", "undecodable"} /\ "error" \in Events
      BY <2>2 DEF WInv, LogPart, Events
    <3>2. /\ Told(log[c] \o <<"error">>) /\ log[c] \o <<"error">> \in Seq(Events)
          /\ Len(log[c] \o <<"error">>) = Len(log[c]) + 1
          /\ log[c] \o <<"error">> = Append(log[c], "error")
      BY <2>1, <3>1, ToldMore
    <3>3. log'[c] = log[c] \o <<"error">>
      BY <1>1, <2>2, <3>2
    <3> QED BY <2>1, <3>2, <3>3
  <2>3. CASE ~(c \in DOMAIN jobs /\ ~IsClosed(c))
    <3>1. log'[c] = log[c]
      BY <1>1, <2>3
    <3> QED BY <2>1, <3>1
  <2> QED BY <2>2, <2>3
<1>4. HttpPart'
  <2>1. log' \in [Clients -> Seq(Events)]
    BY <1>1, <1>3
  <2> QED BY <1>1, <1>2, <1>3, <2>1, HttpSame
<1>5. SchedPart' /\ WorkPart' /\ CommandPart'
  <2>1. SchedPart'
    BY <1>1 DEF WInv, SchedPart
  <2>2. WorkPart'
    BY <1>1, <1>2 DEF WInv, WorkPart
  <2>3. CommandPart'
    BY <1>1, <1>2, FS_EmptySet DEF CommandPart
  <2> QED BY <2>1, <2>2, <2>3
<1>6. /\ JobPart' /\ RowPart' /\ LocalPart' /\ OutPart' /\ StrayPart' /\ HeadPart'
      /\ ScorePart'
  BY <1>1, <1>2 DEF JobPart, RowPart, LocalPart, OutPart, StrayPart, HeadPart, ScorePart
<1>7. LogPart'
  <2>1. ToldOnce'
    BY <1>3 DEF ToldOnce, Told
  <2>2. \A c \in Clients : handler'[c] = "new" \/ c \in Range(commands') => log'[c] = <<>>
    <3> SUFFICES ASSUME NEW c \in Clients, handler[c] = "new" PROVE log'[c] = <<>>
      BY <1>1, <1>2
    <3>1. log[c] = <<>> /\ c \notin DOMAIN jobs
      BY DEF WInv, LogPart, CommandPart
    <3> QED BY <1>1, <3>1
  <2> QED BY <1>2, <2>1, <2>2 DEF LogPart
<1> QED BY <1>4, <1>5, <1>6, <1>7 DEF WInv

-----------------------------------------------------------------------------
(* Sweeping and finishing.                                                 *)

\* A request without a client goes from the scheduler and from the worker's maps.
LEMMA SweepKeeps == ASSUME WInv, NEW c \in Clients, SweepOne(c) PROVE WInv'
<1>1. /\ UNCHANGED <<http, serving, handler, read, batch, head, pc, commands, log>>
      /\ pc = "sweep" /\ local' = [local EXCEPT !.todo = @ \ {c}]
  BY DEF SweepOne, http
<1>2. /\ sched.waiting \subseteq Clients /\ DOMAIN sched.chunks \subseteq Clients
      /\ DOMAIN sched.generated \subseteq Clients
      /\ \A d \in DOMAIN sched.chunks : sched.chunks[d] \in 1..Chunks
      /\ \A d \in DOMAIN sched.generated :
           sched.generated[d] \in Nat /\ sched.generated[d] < MaxNew[d]
  BY DEF WInv, SchedPart
<1>3. /\ Left = {} /\ Left' = {} /\ StoppedNow = {} /\ StoppedNow' = {} /\ Ending = {}
           /\ Ending' = {}
      /\ \A d : Made(d) = 0 /\ Made(d)' = 0
  BY <1>1 DEF Left, StoppedNow, Ending, Made
<1>4. /\ DOMAIN jobs = sched.waiting \cup Running
           /\ DOMAIN pending = DOMAIN sched.generated \cup MidPrompt
      /\ sched.waiting \cap Running = {} /\ DOMAIN sched.chunks \cap DOMAIN sched.generated = {}
  BY <1>1, <1>3 DEF WInv, JobPart
<1>5. PICK X \in SUBSET Clients :
         /\ sched'.waiting = sched.waiting \ X
         /\ DOMAIN sched'.chunks = DOMAIN sched.chunks \ X
         /\ DOMAIN sched'.generated = DOMAIN sched.generated \ X
         /\ \A d \in DOMAIN sched'.chunks : sched'.chunks[d] = sched.chunks[d]
         /\ \A d \in DOMAIN sched'.generated : sched'.generated[d] = sched.generated[d]
         /\ sched' = [waiting |-> sched'.waiting, chunks |-> sched'.chunks,
                      generated |-> sched'.generated]
         /\ DOMAIN jobs' = DOMAIN jobs \ X /\ \A d \in DOMAIN jobs' : jobs'[d] = jobs[d]
         /\ DOMAIN pending' = DOMAIN pending \ X
         /\ \A d \in DOMAIN pending' : pending'[d] = pending[d]
  <2>1. CASE IsClosed(c)
    <3>1. /\ sched' = [waiting |-> sched.waiting \ {c},
                       chunks |-> [d \in DOMAIN sched.chunks \ {c} |-> sched.chunks[d]],
                       generated |-> [d \in DOMAIN sched.generated \ {c} |-> sched.generated[d]]]
          /\ jobs' = [d \in DOMAIN jobs \ {c} |-> jobs[d]]
          /\ pending' = [d \in DOMAIN pending \ {c} |-> pending[d]]
      BY <2>1 DEF SweepOne, Without
    <3>2. {c} \in SUBSET Clients
      OBVIOUS
    <3> QED BY <3>1, <3>2
  <2>2. CASE ~IsClosed(c)
    <3>1. UNCHANGED <<sched, jobs, pending>>
      BY <2>2 DEF SweepOne
    <3>2. sched = [waiting |-> sched.waiting, chunks |-> sched.chunks,
                   generated |-> sched.generated]
      BY DEF WInv, SchedPart
    <3>3. {} \in SUBSET Clients
      OBVIOUS
    <3> QED BY <3>1, <3>2, <3>3
  <2> QED BY <2>1, <2>2
<1>6. HttpPart' /\ CommandPart'
  <2>1. HttpPart'
    BY <1>1 DEF WInv, HttpPart
  <2>2. IsFiniteSet(DOMAIN jobs')
    BY <1>5, FS_Subset DEF WInv, CommandPart
  <2>3. CommandPart'
    BY <1>1, <1>5, <2>2 DEF WInv, CommandPart
  <2> QED BY <2>1, <2>3
<1>7. SchedPart'
  BY <1>2, <1>5 DEF SchedPart
<1>8. WorkPart'
  <2>1. local' \in [todo : SUBSET Clients, stopped : SUBSET Clients,
                    accepted : Nat, produced : Nat]
    BY <1>1 DEF WInv, WorkPart
  <2>2. \A d \in DOMAIN jobs' : jobs'[d] \in Job
    BY <1>5 DEF WInv, WorkPart
  <2>3. \A d \in DOMAIN pending' : pending'[d] \in Int
    BY <1>5 DEF WInv, WorkPart
  <2> QED BY <1>1, <2>1, <2>2, <2>3 DEF WInv, WorkPart
<1>9. JobPart' /\ StrayPart'
  <2>1. MidPrompt' = MidPrompt \ X
    BY <1>5 DEF MidPrompt
  <2>2. JobPart'
    BY <1>3, <1>4, <1>5, <2>1 DEF JobPart, Running
  <2>3. StrayPart'
    <3>1. \A d \in MidPrompt : d \in DOMAIN pending /\ pending[d] = Stray
      BY <1>1, <1>4 DEF WInv, StrayPart
    <3> QED BY <1>5, <2>1, <3>1 DEF StrayPart
  <2> QED BY <2>2, <2>3
<1>10. RowPart' /\ LocalPart'
  BY <1>1 DEF RowPart, LocalPart
<1>11. OutPart'
  <2>1. ASSUME NEW d \in DOMAIN sched.generated
        PROVE  /\ pending[d] = sched.generated[d] + 1
               /\ jobs[d].out = [i \in 1..(sched.generated[d] + 0) |-> i]
               /\ Len(jobs[d].out) <= sched.generated[d] + 0
    BY <1>1, <1>3 DEF WInv, OutPart
  <2>2. \A d \in sched.waiting \cup DOMAIN sched.chunks : jobs[d].out = <<>>
    BY <1>1 DEF WInv, OutPart
  <2>3. \A d \in sched'.waiting \cup DOMAIN sched'.chunks : jobs'[d].out = <<>>
    BY <1>4, <1>5, <2>2 DEF Running
  <2>4. ASSUME NEW d \in DOMAIN sched'.generated
        PROVE  /\ pending'[d] = sched'.generated[d] + 1
               /\ jobs'[d].out = [i \in 1..(sched'.generated[d] + 0) |-> i]
               /\ Len(jobs'[d].out) <= sched'.generated[d] + 0
    <3>1. d \in DOMAIN sched.generated /\ sched'.generated[d] = sched.generated[d]
          /\ pending'[d] = pending[d] /\ jobs'[d] = jobs[d]
      BY <1>4, <1>5 DEF Running
    <3> QED BY <2>1, <3>1
  <2> QED BY <1>3, <2>3, <2>4 DEF OutPart
<1>12. ScorePart'
  <2>1. ASSUME NEW d \in DOMAIN jobs
        PROVE  /\ Len(jobs[d].out) <= MaxNew[d]
               /\ jobs[d].scores = IF d \in Scored THEN jobs[d].out ELSE <<>>
               /\ d \notin Scored => jobs[d].next = NoScores
               /\ d \in Scored \cap DOMAIN sched.generated => jobs[d].next = pending[d]
    BY <1>3 DEF WInv, ScorePart
  <2>2. ASSUME NEW d \in DOMAIN jobs'
        PROVE  /\ Len(jobs'[d].out) <= MaxNew[d]
               /\ jobs'[d].scores = IF d \in Scored THEN jobs'[d].out ELSE <<>>
               /\ d \notin Scored => jobs'[d].next = NoScores
               /\ d \in Scored \cap DOMAIN sched'.generated => jobs'[d].next = pending'[d]
    <3>1. d \in DOMAIN jobs /\ jobs'[d] = jobs[d]
      BY <1>5
    <3>2. d \in DOMAIN sched'.generated => d \in DOMAIN sched.generated /\ pending'[d] = pending[d]
      BY <1>4, <1>5
    <3> QED BY <2>1, <3>1, <3>2
  <2> QED BY <2>2 DEF ScorePart
<1>13. HeadPart'
  BY <1>1, <1>5 DEF WInv, HeadPart
<1>14. LogPart'
  <2>1. ToldOnce'
    BY <1>1 DEF WInv, LogPart, ToldOnce
  <2> QED BY <1>1, <1>3, <1>5, <2>1 DEF WInv, LogPart
<1> QED BY <1>6, <1>7, <1>8, <1>9, <1>10, <1>11, <1>12, <1>13, <1>14 DEF WInv

\* What a step does to the logs is a matter of the one client it is about.
LEMMA ToldStill ==
  ASSUME WInv, NEW c \in Clients, \A d \in Clients \ {c} : log'[d] = log[d], Told(log'[c])
  PROVE  ToldOnce'
<1>1. \A d \in Clients : Told(log[d])
  BY ToldEach DEF WInv, LogPart
<1>2. \A d \in Clients : Told(log'[d])
  BY <1>1
<1> QED BY <1>2 DEF ToldOnce, Told

\* finish_job: what is left of the text, the end, and nothing more.
LEMMA FinishKeeps == ASSUME WInv, NEW c \in Clients, Finish(c) PROVE WInv'
<1>1. /\ UNCHANGED <<http, serving, handler, read, sched, batch, head, pc, commands>>
      /\ pc \in {"finish", "burstfinish"} /\ c \in local.todo
      /\ local' = [local EXCEPT !.todo = @ \ {c}]
      /\ jobs' = [d \in DOMAIN jobs \ {c} |-> jobs[d]]
      /\ pending' = [d \in DOMAIN pending \ {c} |-> pending[d]]
  BY DEF Finish, FinishJob, Without, http
<1>2. local'.todo = local.todo \ {c}
      /\ local' \in [todo : SUBSET Clients, stopped : SUBSET Clients, accepted : Nat,
           produced : Nat]
  BY <1>1 DEF WInv, WorkPart
<1>3. /\ Left = local.todo /\ Left' = local.todo \ {c} /\ StoppedNow = {} /\ StoppedNow' = {}
      /\ Ending = local.todo /\ Ending' = local.todo \ {c} /\ \A d : Made(d) = 0 /\ Made(d)' = 0
  BY <1>1, <1>2 DEF Left, StoppedNow, Ending, Made
<1>4. /\ DOMAIN jobs = sched.waiting \cup Running \cup local.todo
      /\ DOMAIN pending = DOMAIN sched.generated \cup MidPrompt \cup local.todo
      /\ sched.waiting \cap (Running \cup local.todo) = {}
      /\ DOMAIN sched.chunks \cap (DOMAIN sched.generated \cup local.todo) = {}
      /\ DOMAIN sched.generated \cap local.todo = {}
  BY <1>1, <1>3 DEF WInv, JobPart
<1>5. /\ DOMAIN jobs' = DOMAIN jobs \ {c} /\ \A d \in DOMAIN jobs' : jobs'[d] = jobs[d]
      /\ DOMAIN pending' = DOMAIN pending \ {c}
           /\ \A d \in DOMAIN pending' : pending'[d] = pending[d]
      /\ c \in DOMAIN jobs
  BY <1>1, <1>4
<1>6. PICK rest \in {<<>>, <<"delta">>} :
        /\ "undecodable" \in Range(log[c]) => rest = <<>>
        /\ log' = Sent(c, Append(rest, "done"))
  BY DEF Finish, FinishJob
<1>7. /\ log' \in [Clients -> Seq(Events)] /\ \A d \in Clients \ {c} : log'[d] = log[d]
      /\ Told(log'[c])
      /\ \A d \in Clients : Len(log[d]) \in Nat /\ Len(log[d]) <= Len(log'[d])
  <2>1. log[c] \in Seq(Events) /\ Told(log[c]) /\ Range(log[c]) \subseteq {"delta", "undecodable"}
        /\ "delta" \in Events /\ "done" \in Events /\ Len(log[c]) \in Nat
    BY <1>5, ToldEach, LenProperties DEF WInv, LogPart, HttpPart, Events
  <2>2. PICK es : es = Append(rest, "done")
    OBVIOUS
  <2>3. /\ log[c] \o es \in Seq(Events) /\ Told(log[c] \o es)
        /\ Len(log[c]) <= Len(log[c] \o es)
    <3>1. CASE rest = <<>>
      <4>1. es = <<"done">>
        BY <2>2, <3>1
      <4>2. /\ Told(log[c] \o <<"done">>) /\ log[c] \o <<"done">> \in Seq(Events)
            /\ Len(log[c] \o <<"done">>) = Len(log[c]) + 1
        BY <2>1, ToldMore
      <4> QED BY <2>1, <4>1, <4>2
    <3>2. CASE rest = <<"delta">>
      <4>1. PICK s : s = log[c] \o <<"delta">>
        OBVIOUS
      <4>2. "undecodable" \notin Range(log[c])
        BY <1>6, <3>2
      <4>3. Told(s) /\ s \in Seq(Events) /\ Range(s) = Range(log[c]) \cup {"delta"}
            /\ Len(s) = Len(log[c]) + 1
        BY <2>1, <4>1, <4>2, ToldMore
      <4>4. Range(s) \subseteq {"delta", "undecodable"}
        BY <2>1, <4>3
      <4>5. /\ Told(s \o <<"done">>) /\ s \o <<"done">> \in Seq(Events)
            /\ Len(s \o <<"done">>) = Len(s) + 1
        BY <2>1, <4>3, <4>4, ToldMore
      <4>6. log[c] \o es = s \o <<"done">>
        <5>1. es = <<"delta">> \o <<"done">>
          BY <2>2, <3>2
        <5> QED BY <2>1, <4>1, <5>1, ConcatAssociative
      <4> QED BY <2>1, <4>3, <4>5, <4>6
    <3> QED BY <3>1, <3>2
  <2>4. log' = Sent(c, es)
    BY <1>6, <2>2
  <2> QED BY <2>1, <2>3, <2>4, SentTo
<1>8. HttpPart' /\ CommandPart'
  <2>1. HttpPart'
    BY <1>1, <1>7, HttpSame DEF WInv, HttpPart
  <2>2. IsFiniteSet(DOMAIN jobs')
    BY <1>5, FS_Subset DEF WInv, CommandPart
  <2>3. CommandPart'
    BY <1>1, <1>5, <2>2 DEF WInv, CommandPart
  <2> QED BY <2>1, <2>3
<1>9. SchedPart' /\ WorkPart' /\ JobPart' /\ StrayPart'
  <2>1. SchedPart'
    BY <1>1 DEF WInv, SchedPart
  <2>2. WorkPart'
    BY <1>1, <1>2, <1>5 DEF WInv, WorkPart
  <2>3. JobPart'
    BY <1>1, <1>3, <1>4, <1>5 DEF JobPart, Running, MidPrompt
  <2>4. StrayPart'
    <3>1. \A d \in MidPrompt : d \in DOMAIN pending' /\ pending[d] = Stray
      BY <1>1, <1>4, <1>5 DEF WInv, StrayPart, MidPrompt
    <3> QED BY <1>1, <1>5, <3>1 DEF StrayPart, MidPrompt
  <2> QED BY <2>1, <2>2, <2>3, <2>4
<1>10. RowPart' /\ LocalPart'
  BY <1>1 DEF RowPart, LocalPart
<1>11. c \notin sched.waiting /\ c \notin DOMAIN sched.chunks /\ c \notin DOMAIN sched.generated
  BY <1>1, <1>4
<1>12. OutPart'
  <2>1. ASSUME NEW d \in DOMAIN sched.generated
        PROVE  /\ pending'[d] = sched.generated[d] + 1
               /\ jobs'[d].out = [i \in 1..(sched.generated[d] + 0) |-> i]
               /\ Len(jobs'[d].out) <= sched.generated[d] + 0
    <3>1. pending'[d] = pending[d] /\ jobs'[d] = jobs[d]
      BY <1>4, <1>5, <1>11 DEF Running
    <3>2. /\ pending[d] = sched.generated[d] + 1
          /\ jobs[d].out = [i \in 1..(sched.generated[d] + 0) |-> i]
          /\ Len(jobs[d].out) <= sched.generated[d] + 0
      BY <1>1, <1>3 DEF WInv, OutPart
    <3> QED BY <3>1, <3>2
  <2>2. \A d \in sched.waiting \cup DOMAIN sched.chunks : jobs[d].out = <<>>
    BY <1>1 DEF WInv, OutPart
  <2>3. \A d \in sched.waiting \cup DOMAIN sched.chunks : jobs'[d].out = <<>>
    BY <1>4, <1>5, <1>11, <2>2 DEF Running
  <2> QED BY <1>1, <1>3, <2>1, <2>3 DEF OutPart
<1>13. ScorePart'
  <2>1. ASSUME NEW d \in DOMAIN jobs'
        PROVE  /\ Len(jobs'[d].out) <= MaxNew[d]
               /\ jobs'[d].scores = IF d \in Scored THEN jobs'[d].out ELSE <<>>
               /\ d \notin Scored => jobs'[d].next = NoScores
               /\ d \in Scored \cap DOMAIN sched'.generated => jobs'[d].next = pending'[d]
    <3>1. /\ Len(jobs[d].out) <= MaxNew[d]
          /\ jobs[d].scores = IF d \in Scored THEN jobs[d].out ELSE <<>>
          /\ d \notin Scored => jobs[d].next = NoScores
          /\ d \in Scored \cap DOMAIN sched.generated => jobs[d].next = pending[d]
      BY <1>3, <1>5 DEF WInv, ScorePart
    <3>2. jobs'[d] = jobs[d] /\ (d \in DOMAIN sched.generated => pending'[d] = pending[d])
      BY <1>4, <1>5
    <3> QED BY <1>1, <3>1, <3>2
  <2> QED BY <2>1 DEF ScorePart
<1>14. HeadPart'
  BY <1>1, <1>5 DEF WInv, HeadPart
<1>15. LogPart'
  <2>1. ToldOnce'
    BY <1>7, ToldStill
  <2>2. \A d \in Clients : handler'[d] = "new" \/ d \in Range(commands') => log'[d] = <<>>
    <3>1. handler[c] # "new" /\ c \notin Range(commands)
      BY <1>5 DEF WInv, CommandPart
    <3> QED BY <1>1, <1>7, <3>1 DEF WInv, LogPart
  <2>3. \A d \in DOMAIN jobs' :
          /\ Range(log'[d]) \subseteq {"delta", "undecodable"}
          /\ "undecodable" \in Range(log'[d]) => d \in Ending'
    <3> SUFFICES ASSUME NEW d \in DOMAIN jobs'
                 PROVE  /\ Range(log'[d]) \subseteq {"delta", "undecodable"}
                        /\ "undecodable" \in Range(log'[d]) => d \in Ending'
      OBVIOUS
    <3>1. d # c /\ d \in DOMAIN jobs /\ d \in Clients
      BY <1>5 DEF WInv, CommandPart
    <3>2. log'[d] = log[d]
      BY <1>7, <3>1
    <3>3. /\ Range(log[d]) \subseteq {"delta", "undecodable"}
          /\ "undecodable" \in Range(log[d]) => d \in Ending
      BY <3>1 DEF WInv, LogPart
    <3> QED BY <1>3, <3>1, <3>2, <3>3
  <2> QED BY <2>1, <2>2, <2>3 DEF LogPart
<1> QED BY <1>8, <1>9, <1>10, <1>12, <1>13, <1>14, <1>15 DEF WInv

-----------------------------------------------------------------------------
(* Emitting tokens.                                                        *)

\* One more token, and its score with it.
LEMMA PushOne ==
  ASSUME NEW n \in Nat, NEW j \in Job, NEW c, j.out = [i \in 1..n |-> i],
         j.scores = IF c \in Scored THEN j.out ELSE <<>>,
         j.next = IF c \in Scored THEN n + 1 ELSE NoScores,
         NEW r, r = Pushed(j, n + 1)
  PROVE  /\ r \in Job /\ r.out = [i \in 1..(n + 1) |-> i] /\ Len(r.out) = n + 1
         /\ r.scores = (IF c \in Scored THEN r.out ELSE <<>>) /\ r.next = NoScores
<1>1. j.out \in Seq(Nat) /\ Len(j.out) = n /\ j.scores \in Seq(Nat) /\ n + 1 \in Nat
  BY LenProperties DEF Job
<1>2. PICK a : a = Append(j.out, n + 1)
  OBVIOUS
<1>3. a \in Seq(Nat) /\ Len(a) = n + 1 /\ a = [i \in 1..(n + 1) |-> i]
  <2>1. a \in Seq(Nat) /\ Len(a) = n + 1 /\ a[n + 1] = n + 1 /\ \A i \in 1..n : a[i] = j.out[i]
    BY <1>1, <1>2, AppendProperties
  <2>2. a = [i \in 1..(n + 1) |-> a[i]]
    BY <2>1, LenProperties
  <2>3. \A i \in 1..(n + 1) : a[i] = i
    BY <2>1
  <2> QED BY <2>1, <2>2, <2>3
<1>4. CASE c \in Scored
  <2>1. r = [j EXCEPT !.out = a, !.scores = a, !.next = NoScores]
    <3>1. j.next # NoScores /\ Append(j.scores, j.next) = a
      BY <1>1, <1>2, <1>4 DEF NoScores
    <3> QED BY <1>2, <3>1 DEF Pushed
  <2>2. r = [out |-> a, scores |-> a, next |-> NoScores]
    BY <2>1 DEF Job
  <2>3. [out |-> a, scores |-> a, next |-> NoScores] \in Job
    BY <1>3 DEF Job, NoScores
  <2>4. r.out = a /\ r.scores = a /\ r.next = NoScores
    BY <2>2
  <2>5. r \in Job
    BY <2>2, <2>3
  <2> QED BY <1>3, <1>4, <2>4, <2>5
<1>5. CASE c \notin Scored
  <2>1. r = [j EXCEPT !.out = a, !.next = NoScores]
    BY <1>2, <1>5 DEF Pushed, Job
  <2> QED BY <1>1, <1>3, <1>5, <2>1 DEF Job
<1> QED BY <1>4, <1>5

\* What a token brings its client: text, or that there will be none, and then it is the last.
LEMMA EmitTells ==
  ASSUME WInv, NEW c \in DOMAIN jobs, c \notin Ending, NEW o \in Outcomes(c), log' = Sent(c, o.sent)
  PROVE  /\ log' \in [Clients -> Seq(Events)] /\ \A d \in Clients \ {c} : log'[d] = log[d]
         /\ Told(log'[c])
         /\ \A d \in Clients : Len(log[d]) \in Nat /\ Len(log[d]) <= Len(log'[d])
         /\ Range(log'[c]) \subseteq {"delta", "undecodable"}
         /\ "undecodable" \in Range(log'[c]) => o.stop
<1>1. /\ c \in Clients /\ log[c] \in Seq(Events) /\ Told(log[c]) /\ Len(log[c]) \in Nat
      /\ Range(log[c]) \subseteq {"delta"}
      /\ "delta" \in Events /\ "undecodable" \in Events
  BY ToldEach, LenProperties DEF WInv, LogPart, HttpPart, CommandPart, Events
<1>2. o.sent = <<>> \/ o.sent = <<"delta">> \/ (o.sent = <<"undecodable">> /\ o.stop)
  BY DEF Outcomes
<1>3. PICK es : es = log[c] \o o.sent
  OBVIOUS
<1>4. /\ es \in Seq(Events) /\ Len(log[c]) <= Len(es) /\ Told(es)
      /\ Range(es) \subseteq {"delta", "undecodable"}
      /\ "undecodable" \in Range(es) => o.stop
  <2>1. CASE o.sent = <<>>
    <3>1. es = log[c]
      BY <1>1, <1>3, <2>1, ConcatEmptySeq
    <3> QED BY <1>1, <3>1
  <2>2. CASE o.sent # <<>>
    <3>1. PICK e \in {"delta", "undecodable"} : o.sent = <<e>> /\ (e = "undecodable" => o.stop)
      BY <1>2, <2>2
    <3>2. /\ Told(log[c] \o <<e>>) /\ log[c] \o <<e>> \in Seq(Events)
          /\ Range(log[c] \o <<e>>) = Range(log[c]) \cup {e}
          /\ Len(log[c] \o <<e>>) = Len(log[c]) + 1
      <4>1. e \in Events /\ "undecodable" \notin Range(log[c])
            /\ Range(log[c]) \subseteq {"delta", "undecodable"}
        BY <1>1
      <4> QED BY <1>1, <4>1, ToldMore
    <3> QED BY <1>1, <1>3, <3>1, <3>2
  <2> QED BY <2>1, <2>2
<1>5. /\ log' \in [Clients -> Seq(Events)] /\ \A d \in Clients \ {c} : log'[d] = log[d]
      /\ log'[c] = log[c] \/ log'[c] = es
      /\ \A d \in Clients : Len(log[d]) \in Nat /\ Len(log[d]) <= Len(log'[d])
  BY <1>1, <1>3, <1>4, SentTo
<1> QED BY <1>1, <1>4, <1>5

\* The tokens for the head are right as long as they are the same.
LEMMA HeadSame == ASSUME HeadPart, UNCHANGED <<head, pending, pc>> PROVE HeadPart'
BY DEF HeadPart

\* A token goes out, in whichever step: the output, its scores and what is told keep together.
LEMMA EmitKeeps ==
  ASSUME WInv, NEW c \in Clients, pc \in {"emit", "burst"},
         UNCHANGED <<http, sched, batch, pending, head, pc, commands>>,
         c \in DOMAIN sched.generated, c \notin StoppedNow,
         NEW o \in Outcomes(c), log' = Sent(c, o.sent),
         NEW n \in Nat, n = sched.generated[c] + Made(c), n + 1 <= MaxNew[c],
         NEW j \in Job, j.out = jobs[c].out, j.scores = jobs[c].scores,
         j.next = IF c \in Scored THEN n + 1 ELSE NoScores,
         DOMAIN jobs' = DOMAIN jobs, \A d \in DOMAIN jobs \ {c} : jobs'[d] = jobs[d],
         jobs'[c] = IF o.pushed THEN Pushed(j, n + 1) ELSE j,
         local' \in [todo : SUBSET Clients, stopped : SUBSET Clients,
                     accepted : Nat, produced : Nat],
         LocalPart', StoppedNow' = IF o.stop THEN StoppedNow \cup {c} ELSE StoppedNow,
         sched.generated[c] + Made(c)' = n + 1, Made(c)' # 0,
         \A d \in DOMAIN sched.generated \ {c} : Made(d)' = Made(d)
  PROVE  WInv'
<1>1. UNCHANGED <<serving, handler, read>> /\ Left = {} /\ Left' = {} /\ Ending = StoppedNow
      /\ Ending' = StoppedNow'
  BY DEF http, Left, Ending
<1>2. /\ DOMAIN jobs = sched.waiting \cup Running
      /\ DOMAIN pending = DOMAIN sched.generated \cup MidPrompt
      /\ sched.waiting \cap Running = {}
      /\ DOMAIN sched.chunks \cap DOMAIN sched.generated = {}
  BY <1>1 DEF WInv, JobPart
<1>3. c \in DOMAIN jobs /\ c \notin sched.waiting /\ c \notin DOMAIN sched.chunks
  BY <1>2 DEF Running
<1>4. /\ log' \in [Clients -> Seq(Events)] /\ \A d \in Clients \ {c} : log'[d] = log[d]
      /\ Told(log'[c])
      /\ \A d \in Clients : Len(log[d]) \in Nat /\ Len(log[d]) <= Len(log'[d])
      /\ Range(log'[c]) \subseteq {"delta", "undecodable"}
      /\ "undecodable" \in Range(log'[c]) => o.stop
  BY <1>1, <1>3, EmitTells
<1>5. /\ jobs[c].out = [i \in 1..n |-> i]
      /\ jobs[c].scores = IF c \in Scored THEN jobs[c].out ELSE <<>>
      /\ jobs[c] \in Job
  BY <1>3 DEF WInv, OutPart, ScorePart, WorkPart
<1>6. /\ jobs'[c] \in Job /\ Len(jobs'[c].out) <= n + 1
      /\ o.pushed => jobs'[c].out = [i \in 1..(n + 1) |-> i]
      /\ jobs'[c].scores = IF c \in Scored THEN jobs'[c].out ELSE <<>>
      /\ c \notin Scored => jobs'[c].next = NoScores
  <2>1. CASE o.pushed
    <3>1. jobs'[c] = Pushed(j, n + 1)
      BY <2>1
    <3>2. j.out = [i \in 1..n |-> i] /\ j.scores = IF c \in Scored THEN j.out ELSE <<>>
      BY <1>5
    <3>3. PICK r : r = Pushed(j, n + 1)
      OBVIOUS
    <3>4. /\ r \in Job /\ r.out = [i \in 1..(n + 1) |-> i] /\ Len(r.out) = n + 1
          /\ r.scores = (IF c \in Scored THEN r.out ELSE <<>>) /\ r.next = NoScores
      BY <3>2, <3>3, PushOne
    <3> QED BY <3>1, <3>3, <3>4
  <2>2. CASE ~o.pushed
    <3>1. Len(jobs[c].out) = n /\ n <= n + 1
      BY <1>5, LenProperties DEF Job
    <3> QED BY <1>5, <2>2, <3>1
  <2> QED BY <2>1, <2>2
<1>7. ~o.pushed => o.stop
  BY DEF Outcomes
<1>8. HttpPart' /\ CommandPart' /\ SchedPart' /\ HeadPart' /\ RowPart'
  <2>1. HttpPart'
    BY <1>4, HttpSame DEF WInv, HttpPart
  <2>2. CommandPart'
    BY <1>1 DEF WInv, CommandPart
  <2>3. SchedPart'
    BY DEF WInv, SchedPart
  <2>4. HeadPart'
    BY HeadSame DEF WInv
  <2>5. RowPart'
    BY DEF WInv, RowPart
  <2> QED BY <2>1, <2>2, <2>3, <2>4, <2>5
<1>9. WorkPart' /\ JobPart' /\ StrayPart'
  <2>1. \A d \in DOMAIN jobs' : jobs'[d] \in Job
    BY <1>6 DEF WInv, WorkPart
  <2>2. WorkPart'
    BY <2>1 DEF WInv, WorkPart
  <2>3. JobPart'
    BY <1>1, <1>2 DEF JobPart, Running, MidPrompt
  <2>4. StrayPart'
    BY DEF WInv, StrayPart, MidPrompt
  <2> QED BY <2>2, <2>3, <2>4
<1>10. OutPart'
  <2>1. \A d \in sched.waiting \cup DOMAIN sched.chunks : jobs'[d].out = <<>>
    BY <1>2, <1>3 DEF WInv, OutPart, Running
  <2>2. ASSUME NEW d \in DOMAIN sched.generated
        PROVE  /\ pending'[d] = sched'.generated[d] + 1
               /\ d \notin StoppedNow' =>
                    jobs'[d].out = [i \in 1..(sched'.generated[d] + Made(d)') |-> i]
               /\ Len(jobs'[d].out) <= sched'.generated[d] + Made(d)'
    <3>1. /\ pending[d] = sched.generated[d] + 1
          /\ d \notin StoppedNow => jobs[d].out = [i \in 1..(sched.generated[d] + Made(d)) |-> i]
          /\ Len(jobs[d].out) <= sched.generated[d] + Made(d)
      BY DEF WInv, OutPart
    <3>2. CASE d = c
      BY <1>6, <1>7, <3>1, <3>2
    <3>3. CASE d # c
      <4>1. jobs'[d] = jobs[d] /\ Made(d)' = Made(d)
        BY <1>2, <3>3 DEF Running
      <4> QED BY <3>1, <3>3, <4>1
    <3> QED BY <3>2, <3>3
  <2> QED BY <2>1, <2>2 DEF OutPart
<1>11. ScorePart'
  <2>1. ASSUME NEW d \in DOMAIN jobs
        PROVE  /\ Len(jobs'[d].out) <= MaxNew[d]
               /\ jobs'[d].scores = IF d \in Scored THEN jobs'[d].out ELSE <<>>
               /\ d \notin Scored => jobs'[d].next = NoScores
               /\ d \in Scored \cap DOMAIN sched.generated /\ Made(d)' = 0 =>
                    jobs'[d].next = pending[d]
    <3>1. CASE d = c
      <4>1. Len(jobs'[c].out) \in Nat /\ MaxNew[c] \in Nat
        BY <1>6, LenProperties, ServerAssumption DEF Job
      <4> QED BY <1>6, <3>1, <4>1
    <3>2. CASE d # c
      BY <3>2 DEF WInv, ScorePart
    <3> QED BY <3>1, <3>2
  <2> QED BY <2>1 DEF ScorePart
<1>12. LogPart'
  <2>1. ToldOnce'
    BY <1>4, ToldStill
  <2>2. \A d \in Clients : handler'[d] = "new" \/ d \in Range(commands') => log'[d] = <<>>
    <3>1. handler[c] # "new" /\ c \notin Range(commands)
      BY <1>3 DEF WInv, CommandPart
    <3> QED BY <1>1, <1>4, <3>1 DEF WInv, LogPart
  <2>3. \A d \in DOMAIN jobs' :
          /\ Range(log'[d]) \subseteq {"delta", "undecodable"}
          /\ "undecodable" \in Range(log'[d]) => d \in Ending'
    <3> SUFFICES ASSUME NEW d \in DOMAIN jobs
                 PROVE  /\ Range(log'[d]) \subseteq {"delta", "undecodable"}
                        /\ "undecodable" \in Range(log'[d]) => d \in Ending'
      OBVIOUS
    <3>1. CASE d = c
      BY <1>1, <1>4, <3>1
    <3>2. CASE d # c
      <4>1. log'[d] = log[d]
        BY <1>4, <3>2 DEF WInv, CommandPart
      <4>2. /\ Range(log[d]) \subseteq {"delta", "undecodable"}
            /\ "undecodable" \in Range(log[d]) => d \in Ending
        BY DEF WInv, LogPart
      <4> QED BY <1>1, <4>1, <4>2
    <3> QED BY <3>1, <3>2
  <2> QED BY <2>1, <2>2, <2>3 DEF LogPart
<1> QED BY <1>8, <1>9, <1>10, <1>11, <1>12 DEF WInv

\* A regular step emits the token that has waited since the step before.
LEMMA PendingKeeps == ASSUME WInv, NEW c \in Clients, EmitPending(c) PROVE WInv'
<1>1. PICK o \in Outcomes(c) :
        /\ Emit(c, pending[c], o)
        /\ local' = [local EXCEPT !.todo = @ \ {c},
                                  !.stopped = IF o.stop THEN @ \cup {c} ELSE @]
  BY DEF EmitPending
<1>2. /\ UNCHANGED <<http, sched, batch, pending, head, pc, commands>>
      /\ pc = "emit" /\ c \in local.todo
  BY DEF EmitPending
<1>3. /\ batch.decode = DOMAIN sched.generated /\ local.todo \subseteq batch.decode
      /\ local.stopped \subseteq batch.decode \ local.todo
  BY <1>2 DEF WInv, RowPart, LocalPart
<1>4. /\ local'.todo = local.todo \ {c}
      /\ local'.stopped = IF o.stop THEN local.stopped \cup {c} ELSE local.stopped
      /\ local' \in [todo : SUBSET Clients, stopped : SUBSET Clients, accepted : Nat,
           produced : Nat]
  BY <1>1 DEF WInv, WorkPart
<1>5. /\ c \in DOMAIN sched.generated /\ c \notin StoppedNow /\ Made(c) = 0 /\ Made(c)' = 1
      /\ \A d \in DOMAIN sched.generated \ {c} : Made(d)' = Made(d)
      /\ StoppedNow' = IF o.stop THEN StoppedNow \cup {c} ELSE StoppedNow
  BY <1>2, <1>3, <1>4 DEF StoppedNow, Made
<1>6. PICK n : n = sched.generated[c]
  OBVIOUS
<1>7. /\ n \in Nat /\ n + 1 <= MaxNew[c] /\ n = sched.generated[c] + Made(c)
      /\ pending[c] = n + 1 /\ sched.generated[c] + Made(c)' = n + 1
  <2>1. sched.generated[c] \in Nat /\ sched.generated[c] < MaxNew[c] /\ MaxNew[c] \in Nat
    BY <1>5, ServerAssumption DEF WInv, SchedPart
  <2>2. pending[c] = sched.generated[c] + 1
    BY <1>2, <1>5 DEF WInv, OutPart
  <2> QED BY <1>5, <1>6, <2>1, <2>2
<1>8. c \in DOMAIN jobs
  BY <1>2, <1>5 DEF WInv, JobPart, Running
<1>9. PICK j : j = jobs[c]
  OBVIOUS
<1>10. /\ j \in Job /\ j.out = jobs[c].out /\ j.scores = jobs[c].scores
       /\ j.next = IF c \in Scored THEN n + 1 ELSE NoScores
  BY <1>5, <1>7, <1>8, <1>9 DEF WInv, ScorePart, WorkPart
<1>11. /\ log' = Sent(c, o.sent)
       /\ DOMAIN jobs' = DOMAIN jobs /\ \A d \in DOMAIN jobs \ {c} : jobs'[d] = jobs[d]
       /\ jobs'[c] = IF o.pushed THEN Pushed(j, n + 1) ELSE j
  BY <1>1, <1>7, <1>8, <1>9 DEF Emit
<1>12. LocalPart'
  <2>1. local'.todo \subseteq batch.decode /\ local'.stopped \subseteq batch.decode \ local'.todo
    BY <1>2, <1>3, <1>4
  <2> QED BY <1>2, <2>1 DEF LocalPart
<1>13. Made(c)' # 0
  BY <1>5
<1> QED BY <1>2, <1>4, <1>5, <1>7, <1>10, <1>11, <1>12, <1>13, EmitKeeps

\* A speculative step emits the pending token and then, score by score, the accepted ones.
LEMMA BurstKeeps == ASSUME WInv, NEW c \in Clients, EmitBurst(c) PROVE WInv'
<1>0. PICK i, ready :
        /\ i = local.produced
        /\ ready = IF i > 0 /\ c \in Scored THEN [jobs EXCEPT ![c].next = pending[c] + i] ELSE jobs
  OBVIOUS
<1>1. PICK o \in Outcomes(c) :
        /\ jobs' = IF o.pushed THEN [ready EXCEPT ![c] = Pushed(@, pending[c] + i)] ELSE ready
        /\ log' = Sent(c, o.sent)
        /\ local' = [local EXCEPT !.produced = i + 1,
                                  !.todo = IF o.stop \/ i = local.accepted THEN {} ELSE @,
                                  !.stopped = IF o.stop THEN {c} ELSE @]
  BY <1>0 DEF EmitBurst
<1>2. /\ UNCHANGED <<http, sched, batch, pending, head, pc, commands>>
      /\ pc = "burst" /\ c \in local.todo
  BY DEF EmitBurst
<1>3. /\ batch.decode = DOMAIN sched.generated /\ batch.decode = {c}
      /\ local.todo = {c} /\ local.stopped = {} /\ i <= local.accepted
      /\ sched.generated[c] + local.accepted + 1 <= MaxNew[c]
      /\ batch.prefill = {}
  BY <1>0, <1>2 DEF WInv, RowPart, LocalPart
<1>4. /\ local'.todo = IF o.stop \/ i = local.accepted THEN {} ELSE {c}
      /\ local'.stopped = IF o.stop THEN {c} ELSE {}
      /\ local'.accepted = local.accepted /\ local'.produced = i + 1
      /\ i \in Nat /\ local.accepted \in Nat
      /\ local' \in [todo : SUBSET Clients, stopped : SUBSET Clients, accepted : Nat,
           produced : Nat]
  <2>1. i \in Nat /\ i + 1 \in Nat /\ local.accepted \in Nat
        /\ local \in [todo : SUBSET Clients, stopped : SUBSET Clients, accepted : Nat,
             produced : Nat]
    BY <1>0 DEF WInv, WorkPart
  <2> QED BY <1>1, <1>3, <2>1
<1>5. /\ c \in DOMAIN sched.generated /\ c \notin StoppedNow /\ Made(c) = i /\ Made(c)' = i + 1
      /\ DOMAIN sched.generated \ {c} = {}
      /\ StoppedNow' = IF o.stop THEN StoppedNow \cup {c} ELSE StoppedNow
  BY <1>0, <1>2, <1>3, <1>4 DEF StoppedNow, Made
<1>6. PICK n : n = sched.generated[c] + i
  OBVIOUS
<1>7. /\ n \in Nat /\ n + 1 <= MaxNew[c] /\ n = sched.generated[c] + Made(c)
      /\ pending[c] + i = n + 1 /\ sched.generated[c] + Made(c)' = n + 1 /\ Made(c)' # 0
      /\ i = 0 => pending[c] = n + 1
  <2>1. sched.generated[c] \in Nat /\ MaxNew[c] \in Nat
    BY <1>5, ServerAssumption DEF WInv, SchedPart
  <2>2. pending[c] = sched.generated[c] + 1
    BY <1>2, <1>5 DEF WInv, OutPart
  <2>3. PICK a, g, m : a = local.accepted /\ g = sched.generated[c] /\ m = MaxNew[c]
    OBVIOUS
  <2>4. a \in Nat /\ g \in Nat /\ m \in Nat /\ i \in Nat /\ i <= a /\ g + a + 1 <= m
        /\ pending[c] = g + 1 /\ n = g + i
    BY <1>3, <1>4, <1>6, <2>1, <2>2, <2>3
  <2> QED BY <1>5, <2>3, <2>4
<1>8. c \in DOMAIN jobs /\ DOMAIN ready = DOMAIN jobs
      /\ \A d \in DOMAIN jobs \ {c} : ready[d] = jobs[d]
  <2>1. c \in DOMAIN jobs
    BY <1>2, <1>5 DEF WInv, JobPart, Running
  <2> QED BY <1>0, <2>1
<1>9. PICK j : j = ready[c]
  OBVIOUS
<1>10. /\ j \in Job /\ j.out = jobs[c].out /\ j.scores = jobs[c].scores
       /\ j.next = IF c \in Scored THEN n + 1 ELSE NoScores
  <2>1. /\ jobs[c] \in Job
        /\ c \notin Scored => jobs[c].next = NoScores
        /\ c \in Scored /\ i = 0 => jobs[c].next = pending[c]
    BY <1>5, <1>8 DEF WInv, ScorePart, WorkPart
  <2>2. CASE i > 0 /\ c \in Scored
    <3>1. j = [jobs[c] EXCEPT !.next = n + 1]
      BY <1>0, <1>7, <1>8, <1>9, <2>2
    <3>2. n + 1 \in Nat
      BY <1>7
    <3> QED BY <2>1, <2>2, <3>1, <3>2 DEF Job
  <2>3. CASE ~(i > 0 /\ c \in Scored)
    <3>1. j = jobs[c] /\ (c \in Scored => i = 0)
      BY <1>0, <1>4, <1>9, <2>3
    <3> QED BY <1>7, <2>1, <3>1
  <2> QED BY <2>2, <2>3
<1>11. /\ log' = Sent(c, o.sent)
       /\ DOMAIN jobs' = DOMAIN jobs /\ \A d \in DOMAIN jobs \ {c} : jobs'[d] = jobs[d]
       /\ jobs'[c] = IF o.pushed THEN Pushed(j, n + 1) ELSE j
  BY <1>1, <1>7, <1>8, <1>9
<1>12. LocalPart'
  <2>1. local'.produced <= local'.accepted + 1
    BY <1>3, <1>4
  <2>2. IF local'.todo = {}
        THEN local'.stopped # {} \/ local'.produced = local'.accepted + 1
        ELSE local'.stopped = {} /\ local'.produced <= local'.accepted
    <3>1. i # local.accepted => i + 1 <= local.accepted
      BY <1>3, <1>4
    <3> QED BY <1>4, <3>1
  <2>3. local'.todo \subseteq batch.decode /\ local'.stopped \subseteq batch.decode
    BY <1>3, <1>4
  <2> QED BY <1>2, <1>3, <1>4, <2>1, <2>2, <2>3 DEF LocalPart
<1> QED
  <2>1. \A d \in DOMAIN sched.generated \ {c} : Made(d)' = Made(d)
    BY <1>5
  <2>2. pc \in {"emit", "burst"}
    BY <1>2
  <2> QED BY <1>2, <1>4, <1>5, <1>7, <1>10, <1>11, <1>12, <2>1, <2>2, EmitKeeps

-----------------------------------------------------------------------------
(* Completing a batch.                                                     *)

\* The worker's local variables at the start of what it does for the requests of `S`.
LEMMA LocalType ==
  ASSUME NEW S \in SUBSET Clients
  PROVE  [NoLocal EXCEPT !.todo = S] \in
           [todo : SUBSET Clients, stopped : SUBSET Clients, accepted : Nat, produced : Nat]
BY DEF NoLocal

\* A step that completes a batch in which the requests `G` decoded, made so many tokens each, and
\* some of them ended.
Completes(G, made, ended) ==
  /\ pc \in {"emit", "burst"} /\ local.todo = {}
  /\ G = DOMAIN sched.generated /\ DOMAIN made = G
  /\ ended \subseteq G /\ local.stopped \subseteq ended
  /\ \A c \in G : made[c] \in Nat /\ sched.generated[c] + made[c] <= MaxNew[c]
  /\ \A c \in G \ ended : sched.generated[c] + made[c] # MaxNew[c] /\ Made(c) = made[c]
  /\ sched' = SchedAfter(made, ended) /\ batch' = NoBatch /\ pc' \in {"finish", "burstfinish"}
  /\ local' = [NoLocal EXCEPT !.todo = ended] /\ UNCHANGED <<http, commands, log>>
  /\ DOMAIN pending' = DOMAIN pending \cup batch.prefill
  /\ \A c \in DOMAIN pending' : pending'[c] \in Int
  /\ \A c \in G \ ended : pending'[c] = sched.generated[c] + made[c] + 1
  /\ \A c \in batch.done : pending'[c] = 1
  /\ \A c \in batch.prefill \ batch.done : pending'[c] = Stray
  /\ \A c \in DOMAIN pending \ (G \cup batch.prefill) : pending'[c] = pending[c]
  /\ DOMAIN jobs' = DOMAIN jobs
  /\ \A d \in DOMAIN jobs :
       /\ jobs'[d] \in Job /\ jobs'[d].out = jobs[d].out /\ jobs'[d].scores = jobs[d].scores
       /\ jobs'[d].next = IF d \in Scored /\ d \in G \cup batch.prefill
                          THEN pending'[d] ELSE jobs[d].next
  /\ HeadPart'

\* A batch is completed: prompts that end begin to decode, what was made is counted, and those
\* that are through are left to be told.
LEMMA CompleteKeeps ==
  ASSUME WInv, NEW G, NEW made, NEW ended, Completes(G, made, ended)
  PROVE  WInv'
<1> USE DEF Completes
<1>1. UNCHANGED <<serving, handler, read>> /\ Left = {} /\ StoppedNow = local.stopped
  BY DEF http, Left, StoppedNow
<1>2. /\ sched.waiting \subseteq Clients /\ DOMAIN sched.chunks \subseteq Clients
           /\ G \subseteq Clients
      /\ \A c \in DOMAIN sched.chunks : sched.chunks[c] \in 1..Chunks
      /\ \A c \in G : sched.generated[c] \in Nat /\ sched.generated[c] < MaxNew[c]
  BY DEF WInv, SchedPart
<1>3. /\ DOMAIN jobs = sched.waiting \cup DOMAIN sched.chunks \cup G
      /\ DOMAIN pending = G \cup MidPrompt
      /\ sched.waiting \cap (DOMAIN sched.chunks \cup G) = {} /\ DOMAIN sched.chunks \cap G = {}
  BY <1>1 DEF WInv, JobPart, Running
<1>4. /\ batch.done \subseteq batch.prefill /\ batch.prefill \subseteq DOMAIN sched.chunks
      /\ \A c \in batch.prefill : sched.chunks[c] = 1 => c \in batch.done
  BY DEF WInv, RowPart, WorkPart
<1>5. PICK chunks, generated :
        /\ chunks = [c \in DOMAIN sched.chunks \ batch.done |->
                       IF c \in batch.prefill THEN sched.chunks[c] - 1 ELSE sched.chunks[c]]
        /\ generated = [c \in (G \ ended) \cup batch.done |->
                          IF c \in batch.done THEN 0
                          ELSE sched.generated[c] + (IF c \in DOMAIN made THEN made[c] ELSE 0)]
  OBVIOUS
<1>6. /\ sched'.waiting = sched.waiting /\ sched'.chunks = chunks /\ sched'.generated = generated
      /\ sched' = [waiting |-> sched'.waiting, chunks |-> sched'.chunks,
                   generated |-> sched'.generated]
  <2>1. sched = [waiting |-> sched.waiting, chunks |-> sched.chunks,
                 generated |-> sched.generated]
    BY DEF WInv, SchedPart
  <2>2. sched' = [sched EXCEPT !.chunks = chunks, !.generated = generated]
    BY <1>5, <2>1 DEF SchedAfter
  <2>3. sched' = [waiting |-> sched.waiting, chunks |-> chunks, generated |-> generated]
    BY <2>1, <2>2
  <2> QED BY <2>3
<1>7. /\ DOMAIN chunks = DOMAIN sched.chunks \ batch.done
      /\ DOMAIN generated = (G \ ended) \cup batch.done
      /\ \A c \in batch.done : generated[c] = 0
      /\ \A c \in G \ ended : generated[c] = sched.generated[c] + made[c]
  <2>1. \A c \in G : c \notin batch.done
    BY <1>3, <1>4
  <2> QED BY <1>5, <2>1
<1>8. /\ local'.todo = ended /\ Left' = ended /\ StoppedNow' = {} /\ Ending' = ended
      /\ Ending = local.stopped /\ \A d : Made(d)' = 0
      /\ local' \in [todo : SUBSET Clients, stopped : SUBSET Clients, accepted : Nat,
           produced : Nat]
  <2>1. local' = [todo |-> ended, stopped |-> {}, accepted |-> 0, produced |-> 0]
    BY DEF NoLocal
  <2>2. local'.todo = ended /\ ended \in SUBSET Clients
    BY <1>2, <2>1
  <2>3. local' \in [todo : SUBSET Clients, stopped : SUBSET Clients, accepted : Nat, produced : Nat]
    BY <2>2, LocalType
  <2>4. Left' = ended /\ StoppedNow' = {} /\ Ending' = ended /\ Ending = local.stopped
        /\ \A d : Made(d)' = 0
    BY <1>1, <2>2 DEF Left, StoppedNow, Ending, Made
  <2> QED BY <2>2, <2>3, <2>4
<1>9. HttpPart' /\ CommandPart'
  <2>1. HttpPart'
    BY <1>1 DEF WInv, HttpPart
  <2>2. CommandPart'
    BY <1>1 DEF WInv, CommandPart
  <2> QED BY <2>1, <2>2
<1>10. SchedPart'
  <2>1. \A c \in DOMAIN chunks : chunks[c] \in 1..Chunks
    <3> SUFFICES ASSUME NEW c \in DOMAIN chunks PROVE chunks[c] \in 1..Chunks
      OBVIOUS
    <3>1. c \in DOMAIN sched.chunks /\ sched.chunks[c] \in 1..Chunks /\ Chunks \in Nat
      BY <1>2, <1>7, ServerAssumption
    <3>2. CASE c \in batch.prefill
      <4>1. sched.chunks[c] # 1 /\ chunks[c] = sched.chunks[c] - 1
        BY <1>4, <1>5, <1>7, <3>2
      <4> QED BY <3>1, <4>1
    <3>3. CASE c \notin batch.prefill
      BY <1>5, <1>7, <3>1, <3>3
    <3> QED BY <3>2, <3>3
  <2>2. \A c \in DOMAIN generated : generated[c] \in Nat /\ generated[c] < MaxNew[c]
    <3> SUFFICES ASSUME NEW c \in DOMAIN generated PROVE generated[c] \in Nat
             /\ generated[c] < MaxNew[c]
      OBVIOUS
    <3>1. c \in Clients
      BY <1>2, <1>4, <1>7
    <3>2. MaxNew[c] \in Nat /\ MaxNew[c] > 0
      BY <3>1, ServerAssumption
    <3>3. CASE c \in batch.done
      BY <1>7, <3>2, <3>3
    <3>4. CASE c \in G \ ended
      <4>1. PICK g, m, x : g = sched.generated[c] /\ m = made[c] /\ x = MaxNew[c]
        OBVIOUS
      <4>2. g \in Nat /\ m \in Nat /\ x \in Nat /\ g + m <= x /\ g + m # x /\ generated[c] = g + m
        BY <1>2, <1>7, <3>2, <3>4, <4>1
      <4> QED BY <4>1, <4>2
    <3> QED BY <1>7, <3>3, <3>4
  <2>3. DOMAIN chunks \subseteq Clients /\ DOMAIN generated \subseteq Clients
    BY <1>2, <1>4, <1>7
  <2> QED BY <1>2, <1>6, <2>1, <2>2, <2>3 DEF SchedPart
<1>11. WorkPart'
  <2>1. batch' = [decode |-> {}, prefill |-> {}, done |-> {}]
    BY DEF NoBatch
  <2>2. batch' \in [decode : SUBSET Clients, prefill : SUBSET Clients, done : SUBSET Clients]
        /\ batch'.done \subseteq batch'.prefill
    BY <2>1
  <2> QED BY <1>8, <2>2 DEF WorkPart
<1>12. JobPart' /\ StrayPart'
  <2>0. /\ MidPrompt' = (MidPrompt \cup batch.prefill) \ batch.done
             /\ MidPrompt \subseteq DOMAIN sched.chunks
    <3>1. \A c \in DOMAIN chunks : chunks[c] < Chunks <=> sched.chunks[c] < Chunks \/ c \in batch.prefill
      <4> SUFFICES ASSUME NEW c \in DOMAIN chunks
                   PROVE  chunks[c] < Chunks <=> sched.chunks[c] < Chunks \/ c \in batch.prefill
        OBVIOUS
      <4>1. sched.chunks[c] \in 1..Chunks /\ Chunks \in Nat
        BY <1>2, <1>7, ServerAssumption
      <4>2. chunks[c] = IF c \in batch.prefill THEN sched.chunks[c] - 1 ELSE sched.chunks[c]
        BY <1>5, <1>7
      <4> QED BY <4>1, <4>2
    <3> QED BY <1>4, <1>6, <1>7, <3>1 DEF MidPrompt
  <2>1. PICK w, k, d, r, q, b, f :
          /\ w = sched.waiting /\ k = DOMAIN sched.chunks /\ d = batch.done
          /\ r = DOMAIN jobs /\ q = DOMAIN pending' /\ b = MidPrompt /\ f = batch.prefill
    OBVIOUS
  <2>2. /\ r = w \cup (k \ d) \cup ((G \ ended) \cup d) \cup ended
        /\ q = ((G \ ended) \cup d) \cup ((b \cup f) \ d) \cup ended
        /\ w \cap ((k \ d) \cup ((G \ ended) \cup d) \cup ended) = {}
        /\ (k \ d) \cap ((G \ ended) \cup d \cup ended) = {}
        /\ ((G \ ended) \cup d) \cap ended = {}
    BY <1>3, <1>4, <2>0, <2>1
  <2>3. /\ sched'.waiting = w /\ DOMAIN sched'.chunks = k \ d
        /\ DOMAIN sched'.generated = (G \ ended) \cup d /\ DOMAIN jobs' = r
        /\ DOMAIN pending' = q /\ MidPrompt' = (b \cup f) \ d
    BY <1>6, <1>7, <2>0, <2>1
  <2>4. Running' = (k \ d) \cup ((G \ ended) \cup d)
    BY <2>3 DEF Running
  <2>5. JobPart'
    BY <1>8, <2>2, <2>3, <2>4 DEF JobPart
  <2>6. \A c \in MidPrompt \ batch.prefill : pending'[c] = Stray
    <3>1. \A c \in MidPrompt : pending[c] = Stray
      BY DEF WInv, StrayPart
    <3> QED BY <1>3, <2>0, <3>1
  <2>7. StrayPart'
    BY <2>0, <2>6 DEF StrayPart
  <2> QED BY <2>5, <2>7
<1>13. RowPart' /\ LocalPart'
  BY DEF RowPart, LocalPart
<1>14. OutPart'
  <2>1. \A d \in sched.waiting \cup DOMAIN sched.chunks : jobs[d].out = <<>>
    BY DEF WInv, OutPart
  <2>2. \A d \in sched'.waiting \cup DOMAIN sched'.chunks : jobs'[d].out = <<>>
    BY <1>3, <1>4, <1>6, <1>7, <2>1
  <2>3. ASSUME NEW d \in DOMAIN generated
        PROVE  /\ pending'[d] = generated[d] + 1
               /\ jobs'[d].out = [i \in 1..(generated[d] + 0) |-> i]
               /\ Len(jobs'[d].out) <= generated[d] + 0
    <3>1. CASE d \in batch.done
      <4>1. jobs'[d].out = <<>> /\ pending'[d] = 1 /\ generated[d] = 0
        BY <1>3, <1>4, <1>7, <2>1, <3>1
      <4> QED BY <4>1
    <3>2. CASE d \in G \ ended
      <4>1. PICK g, m : g = sched.generated[d] /\ m = made[d]
        OBVIOUS
      <4>2. g \in Nat /\ m \in Nat /\ generated[d] = g + m /\ pending'[d] = g + m + 1
        BY <1>2, <1>7, <3>2, <4>1
      <4>3. jobs[d].out = [i \in 1..(g + m) |-> i] /\ Len(jobs[d].out) <= g + m
        BY <1>1, <3>2, <4>1 DEF WInv, OutPart
      <4>4. jobs'[d].out = jobs[d].out
        BY <1>3, <3>2
      <4>5. generated[d] + 0 = g + m
        BY <4>2
      <4> QED BY <4>2, <4>3, <4>4, <4>5
    <3> QED BY <1>7, <3>1, <3>2
  <2> QED BY <1>6, <1>8, <2>2, <2>3 DEF OutPart
<1>15. ScorePart'
  <2>1. ASSUME NEW d \in DOMAIN jobs
        PROVE  /\ Len(jobs'[d].out) <= MaxNew[d]
               /\ jobs'[d].scores = IF d \in Scored THEN jobs'[d].out ELSE <<>>
               /\ d \notin Scored => jobs'[d].next = NoScores
               /\ d \in Scored \cap DOMAIN generated => jobs'[d].next = pending'[d]
    <3>1. /\ Len(jobs[d].out) <= MaxNew[d]
          /\ jobs[d].scores = IF d \in Scored THEN jobs[d].out ELSE <<>>
          /\ d \notin Scored => jobs[d].next = NoScores
      BY DEF WInv, ScorePart
    <3>2. d \in DOMAIN generated => d \in G \cup batch.prefill
      BY <1>4, <1>7
    <3> QED BY <3>1, <3>2
  <2> QED BY <1>6, <2>1 DEF ScorePart
<1>16. LogPart'
  <2>1. ToldOnce'
    BY DEF WInv, LogPart, ToldOnce
  <2>2. \A c \in Clients : handler'[c] = "new" \/ c \in Range(commands') => log'[c] = <<>>
    BY <1>1 DEF WInv, LogPart
  <2>3. \A c \in DOMAIN jobs' :
          /\ Range(log'[c]) \subseteq {"delta", "undecodable"}
          /\ "undecodable" \in Range(log'[c]) => c \in Ending'
    BY <1>8 DEF WInv, LogPart
  <2> QED BY <2>1, <2>2, <2>3 DEF LogPart
<1> QED BY <1>9, <1>10, <1>11, <1>12, <1>13, <1>14, <1>15, <1>16 DEF WInv

\* The regular step: everybody in the batch made one token, and the next one is pending.
LEMMA SampleKeeps == ASSUME WInv, Sample PROVE WInv'
<1>0. PICK G, sampled, made :
        /\ G = DOMAIN sched.generated
        /\ sampled = Sampled
        /\ made = [c \in batch.decode |-> 1]
  OBVIOUS
<1>1. PICK ended : ended = Completed(made, local.stopped)
  OBVIOUS
<1>2. PICK alone : alone = IF batch.prefill = {} /\ Cardinality(batch.decode) = 1
                           THEN batch.decode ELSE {}
  OBVIOUS
<1>3. /\ UNCHANGED <<http, commands, log>> /\ pc = "emit" /\ local.todo = {}
      /\ pending' = Extended(pending, sampled) /\ jobs' = NextScores(jobs, sampled)
      /\ head' = [for |-> IF alone \subseteq ended THEN {} ELSE alone,
                  tokens |-> IF alone = {} THEN head.tokens
                             ELSE <<sampled[CHOOSE c \in alone : TRUE]>>]
      /\ sched' = SchedAfter(made, ended) /\ local' = [NoLocal EXCEPT !.todo = ended]
      /\ batch' = NoBatch /\ pc' = "finish"
  BY <1>0, <1>1, <1>2 DEF Sample
<1>4. /\ batch.decode = G /\ local.stopped \subseteq G /\ DOMAIN made = G
      /\ batch.done \subseteq batch.prefill /\ batch.prefill \subseteq DOMAIN sched.chunks
      /\ \A c \in G : made[c] = 1 /\ Made(c) = 1
  <2>1. /\ batch.decode = G /\ local.stopped \subseteq G
        /\ batch.done \subseteq batch.prefill /\ batch.prefill \subseteq DOMAIN sched.chunks
    BY <1>0, <1>3 DEF WInv, RowPart, LocalPart, WorkPart
  <2> QED BY <1>0, <1>3, <2>1 DEF Made
<1>5. /\ DOMAIN pending = G \cup MidPrompt /\ DOMAIN sched.chunks \cap G = {}
      /\ DOMAIN jobs = sched.waiting \cup DOMAIN sched.chunks \cup G
  BY <1>0, <1>3 DEF WInv, JobPart, Running, Left
<1>6. \A c \in G : /\ pending[c] \in Nat /\ pending[c] = sched.generated[c] + 1
                   /\ sched.generated[c] \in Nat /\ sched.generated[c] < MaxNew[c]
  <2>1. \A c \in G : pending[c] = sched.generated[c] + 1
    BY <1>0, <1>3 DEF WInv, OutPart
  <2>2. \A c \in G : sched.generated[c] \in Nat /\ sched.generated[c] < MaxNew[c]
    BY <1>0 DEF WInv, SchedPart
  <2> QED BY <2>1, <2>2
<1>7. /\ ended \subseteq G /\ local.stopped \subseteq ended
      /\ \A c \in G \ ended : sched.generated[c] + made[c] # MaxNew[c]
  BY <1>0, <1>1, <1>4 DEF Completed
<1>8. /\ DOMAIN pending' = DOMAIN pending \cup batch.prefill
      /\ \A c \in G : pending'[c] = pending[c] + 1
      /\ \A c \in batch.done : pending'[c] = 1
      /\ \A c \in batch.prefill \ batch.done : pending'[c] = Stray
      /\ \A c \in DOMAIN pending \ (G \cup batch.prefill) : pending'[c] = pending[c]
      /\ \A c \in G \cup batch.prefill : sampled[c] = pending'[c]
  <2>1. /\ DOMAIN sampled = G \cup batch.prefill /\ batch.prefill \cap G = {}
        /\ \A c \in G : sampled[c] = pending[c] + 1
        /\ \A c \in batch.done : sampled[c] = 1
        /\ \A c \in batch.prefill \ batch.done : sampled[c] = Stray
    BY <1>0, <1>4, <1>5 DEF Sampled
  <2>2. /\ DOMAIN pending' = DOMAIN sampled \cup DOMAIN pending
        /\ \A c \in DOMAIN sampled : pending'[c] = sampled[c]
        /\ \A c \in DOMAIN pending \ DOMAIN sampled : pending'[c] = pending[c]
    BY <1>3 DEF Extended
  <2> QED BY <1>4, <1>5, <2>1, <2>2
<1>9. \A c \in DOMAIN pending' : pending'[c] \in Int
  <2>1. \A c \in DOMAIN pending : pending[c] \in Int
    BY DEF WInv, WorkPart
  <2> QED BY <1>6, <1>8, <2>1 DEF Stray
<1>10. \A c \in G : made[c] \in Nat /\ sched.generated[c] + made[c] <= MaxNew[c]
  <2> SUFFICES ASSUME NEW c \in G PROVE made[c] \in Nat /\ sched.generated[c] + made[c] <= MaxNew[c]
    OBVIOUS
  <2>1. c \in Clients
    BY <1>0 DEF WInv, SchedPart
  <2>2. MaxNew[c] \in Nat
    BY <2>1, ServerAssumption
  <2> QED BY <1>4, <1>6, <2>2
<1>11. /\ DOMAIN jobs' = DOMAIN jobs
       /\ \A d \in DOMAIN jobs :
            /\ jobs'[d] \in Job /\ jobs'[d].out = jobs[d].out /\ jobs'[d].scores = jobs[d].scores
            /\ jobs'[d].next = IF d \in Scored /\ d \in G \cup batch.prefill
                               THEN pending'[d] ELSE jobs[d].next
  <2>1. DOMAIN sampled = G \cup batch.prefill
    BY <1>0, <1>4 DEF Sampled
  <2>2. /\ DOMAIN jobs' = DOMAIN jobs
        /\ \A d \in DOMAIN jobs : jobs'[d] = IF d \in DOMAIN sampled /\ d \in Scored
                                             THEN [jobs[d] EXCEPT !.next = sampled[d]] ELSE jobs[d]
    BY <1>3 DEF NextScores
  <2>3. ASSUME NEW d \in DOMAIN jobs
        PROVE  /\ jobs'[d] \in Job /\ jobs'[d].out = jobs[d].out
               /\ jobs'[d].scores = jobs[d].scores
               /\ jobs'[d].next = IF d \in Scored /\ d \in G \cup batch.prefill
                                  THEN pending'[d] ELSE jobs[d].next
    <3>1. jobs[d] \in Job
      BY DEF WInv, WorkPart
    <3>2. CASE d \in DOMAIN sampled /\ d \in Scored
      <4>1. jobs'[d] = [jobs[d] EXCEPT !.next = pending'[d]] /\ pending'[d] \in Int
        BY <1>5, <1>8, <1>9, <2>1, <2>2, <3>2
      <4> QED BY <2>1, <3>1, <3>2, <4>1 DEF Job
    <3>3. CASE ~(d \in DOMAIN sampled /\ d \in Scored)
      BY <2>1, <2>2, <3>1, <3>3
    <3> QED BY <3>2, <3>3
  <2> QED BY <2>2, <2>3
<1>12. HeadPart'
  <2> SUFFICES ASSUME NEW c \in head'.for \cap DOMAIN pending'
               PROVE  /\ Len(head'.tokens) \in 1..pending'[c]
                      /\ head'.tokens = [i \in 1..Len(head'.tokens) |->
                                           pending'[c] - Len(head'.tokens) + i]
    BY Zenon DEF HeadPart
  <2>1. head'.for = IF alone \subseteq ended THEN {} ELSE alone
    BY <1>3
  <2>2. c \in alone /\ alone = G /\ Cardinality(G) = 1
    BY <1>2, <1>4, <2>1
  <2>3. IsFiniteSet(G)
    <3>1. IsFiniteSet(DOMAIN jobs)
      BY DEF WInv, CommandPart
    <3> QED BY <1>5, <3>1, FS_Subset
  <2>4. alone = {c}
    <3>1. PICK x : G = {x}
      BY <2>2, <2>3, FS_Singleton
    <3> QED BY <2>2, <3>1
  <2>5. PICK p : p = pending'[c]
    OBVIOUS
  <2>6. (CHOOSE d \in {c} : TRUE) = c
    OBVIOUS
  <2>7. head'.tokens = <<p>>
    <3>1. head'.tokens = <<sampled[CHOOSE d \in alone : TRUE]>>
      BY <1>3, <2>2
    <3>2. sampled[c] = p
      BY <1>8, <2>2, <2>5
    <3> QED BY <2>4, <2>6, <3>1, <3>2
  <2>8. p \in Nat /\ p >= 1
    BY <1>6, <1>8, <2>2, <2>5
  <2>9. Len(<<p>>) = 1 /\ 1 \in 1..p /\ <<p>> = [i \in 1..1 |-> p - 1 + i]
    BY <2>8
  <2> QED BY <2>5, <2>7, <2>9
<1>13. \A c \in G \ ended : pending'[c] = sched.generated[c] + made[c] + 1
  BY <1>4, <1>6, <1>8
<1>14. \A c \in G \ ended : sched.generated[c] + made[c] # MaxNew[c] /\ Made(c) = made[c]
  BY <1>4, <1>7
<1>15. pc \in {"emit", "burst"} /\ pc' \in {"finish", "burstfinish"} /\ ended \in SUBSET G
  BY <1>3, <1>7
<1>16. Completes(G, made, ended)
  BY <1>0, <1>3, <1>4, <1>7, <1>8, <1>9, <1>10, <1>11, <1>12, <1>13, <1>14, <1>15 DEF Completes
<1> QED BY <1>16, CompleteKeeps

\* The speculative step: what went out is counted, and the corrected token is pending.
LEMMA BurstEndKeeps == ASSUME WInv, CompleteBurst PROVE WInv'
<1>0. PICK c \in Clients : batch.decode = {c}
  BY DEF CompleteBurst, WInv, LocalPart
<1>1. PICK x : x = CHOOSE d \in batch.decode : TRUE
  OBVIOUS
<1>2. PICK next, made : /\ next = pending[x] + local.accepted + 1
                        /\ made = [d \in {x} |-> local.produced]
  OBVIOUS
<1>3. PICK ended : ended = Completed(made, local.stopped)
  OBVIOUS
<1>4. /\ UNCHANGED <<http, commands, log>> /\ pc = "burst" /\ local.todo = {}
      /\ pending' = [pending EXCEPT ![c] = next]
      /\ jobs' = IF c \in Scored THEN [jobs EXCEPT ![c].next = next] ELSE jobs
      /\ head' = [for |-> {c} \ ended,
                  tokens |-> [i \in 1..(local.accepted + 1) |-> pending[c] + i]]
      /\ sched' = SchedAfter(made, ended) /\ local' = [NoLocal EXCEPT !.todo = ended]
      /\ batch' = NoBatch /\ pc' = "burstfinish"
      /\ next = pending[c] + local.accepted + 1 /\ made = [d \in {c} |-> local.produced]
  <2>1. /\ UNCHANGED <<http, commands, log>> /\ pc = "burst" /\ local.todo = {}
        /\ pending' = [pending EXCEPT ![x] = next]
        /\ jobs' = IF x \in Scored THEN [jobs EXCEPT ![x].next = next] ELSE jobs
        /\ head' = [for |-> {x} \ ended,
                    tokens |-> [i \in 1..(local.accepted + 1) |-> pending[x] + i]]
        /\ sched' = SchedAfter(made, ended) /\ local' = [NoLocal EXCEPT !.todo = ended]
        /\ batch' = NoBatch /\ pc' = "burstfinish"
    BY <1>1, <1>2, <1>3 DEF CompleteBurst
  <2>2. x = c
    BY <1>0, <1>1
  <2> QED BY <1>2, <2>1, <2>2
<1>5. /\ DOMAIN sched.generated = {c} /\ local.stopped \subseteq {c}
      /\ batch.prefill = {} /\ batch.done = {}
      /\ local.stopped # {} \/ local.produced = local.accepted + 1
      /\ local.produced <= local.accepted + 1
      /\ sched.generated[c] + local.accepted + 1 <= MaxNew[c]
  BY <1>0, <1>4 DEF WInv, RowPart, LocalPart, WorkPart
<1>6. /\ DOMAIN pending = {c} \cup MidPrompt
           /\ DOMAIN jobs = sched.waiting \cup DOMAIN sched.chunks \cup {c}
  BY <1>4, <1>5 DEF WInv, JobPart, Running, Left
<1>7. PICK g, a, p, m : /\ g = sched.generated[c] /\ a = local.accepted /\ p = local.produced
                        /\ m = MaxNew[c]
  OBVIOUS
<1>8. /\ g \in Nat /\ a \in Nat /\ p \in Nat /\ m \in Nat /\ pending[c] = g + 1 /\ g + p <= m
      /\ next = g + 1 + a + 1 /\ next \in Nat
  <2>1. g \in Nat /\ a \in Nat /\ p \in Nat /\ m \in Nat
    BY <1>5, <1>7, ServerAssumption DEF WInv, SchedPart, WorkPart
  <2>2. pending[c] = g + 1
    BY <1>4, <1>5, <1>7 DEF WInv, OutPart
  <2>3. p <= a + 1 /\ g + a + 1 <= m /\ next = pending[c] + a + 1
    BY <1>4, <1>5, <1>7
  <2> QED BY <2>1, <2>2, <2>3
<1>9. /\ ended \subseteq {c} /\ local.stopped \subseteq ended
      /\ c \notin ended => g + p # m /\ p = a + 1
  <2>1. DOMAIN made = {c} /\ made[c] = p
    BY <1>4, <1>7
  <2>2. ended = local.stopped \cup {d \in {c} : sched.generated[d] + made[d] = MaxNew[d]}
    BY <1>3, <1>5, <2>1 DEF Completed
  <2> QED BY <1>5, <1>7, <2>1, <2>2
<1>10. Made(c) = p
  BY <1>4, <1>7 DEF Made
<1>11. /\ DOMAIN pending' = DOMAIN pending \cup batch.prefill /\ pending'[c] = next
       /\ \A d \in DOMAIN pending \ {c} : pending'[d] = pending[d]
       /\ \A d \in DOMAIN pending' : pending'[d] \in Int
  <2>1. \A d \in DOMAIN pending : pending[d] \in Int
    BY DEF WInv, WorkPart
  <2> QED BY <1>4, <1>5, <1>6, <1>8, <2>1
<1>12. /\ DOMAIN jobs' = DOMAIN jobs
       /\ \A d \in DOMAIN jobs :
            /\ jobs'[d] \in Job /\ jobs'[d].out = jobs[d].out /\ jobs'[d].scores = jobs[d].scores
            /\ jobs'[d].next = IF d \in Scored /\ d \in {c} \cup batch.prefill
                               THEN pending'[d] ELSE jobs[d].next
  <2>1. \A d \in DOMAIN jobs : jobs[d] \in Job
    BY DEF WInv, WorkPart
  <2>2. CASE c \in Scored
    <3>1. /\ DOMAIN jobs' = DOMAIN jobs /\ \A d \in DOMAIN jobs \ {c} : jobs'[d] = jobs[d]
          /\ jobs'[c] = [jobs[c] EXCEPT !.next = next]
      BY <1>4, <1>6, <2>2
    <3>2. jobs'[c] \in Job /\ jobs'[c].out = jobs[c].out /\ jobs'[c].scores = jobs[c].scores
          /\ jobs'[c].next = next
      <4>1. next \in Int /\ jobs[c] \in Job
        BY <1>6, <1>8, <2>1
      <4> QED BY <3>1, <4>1 DEF Job
    <3> QED BY <1>5, <1>11, <2>1, <2>2, <3>1, <3>2
  <2>3. CASE c \notin Scored
    BY <1>4, <1>5, <2>1, <2>3
  <2> QED BY <2>2, <2>3
<1>13. HeadPart'
  <2> SUFFICES ASSUME NEW d \in head'.for \cap DOMAIN pending'
               PROVE  /\ Len(head'.tokens) \in 1..pending'[d]
                      /\ head'.tokens = [i \in 1..Len(head'.tokens) |->
                                           pending'[d] - Len(head'.tokens) + i]
    BY Zenon DEF HeadPart
  <2>1. d = c
    BY <1>4
  <2>2. head'.tokens = [i \in 1..(a + 1) |-> g + 1 + i]
    BY <1>4, <1>7, <1>8
  <2>3. Len(head'.tokens) = a + 1
    BY <1>8, <2>2
  <2>4. a + 1 \in 1..next /\ \A i \in 1..(a + 1) : next - (a + 1) + i = g + 1 + i
    BY <1>8
  <2> QED BY <1>11, <2>1, <2>2, <2>3, <2>4
<1>14. PICK G : G = {c}
  OBVIOUS
<1>15. /\ G = DOMAIN sched.generated /\ DOMAIN made = G /\ ended \in SUBSET G
       /\ \A d \in G : made[d] \in Nat /\ sched.generated[d] + made[d] <= MaxNew[d]
       /\ \A d \in G \ ended : sched.generated[d] + made[d] # MaxNew[d] /\ Made(d) = made[d]
       /\ \A d \in G \ ended : pending'[d] = sched.generated[d] + made[d] + 1
       /\ \A d \in batch.done : pending'[d] = 1
       /\ \A d \in batch.prefill \ batch.done : pending'[d] = Stray
       /\ \A d \in DOMAIN pending \ (G \cup batch.prefill) : pending'[d] = pending[d]
  <2>1. DOMAIN made = {c} /\ made[c] = p
    BY <1>4, <1>7
  <2>2. c \notin ended => next = g + p + 1
    BY <1>8, <1>9
  <2> QED BY <1>5, <1>7, <1>8, <1>9, <1>10, <1>11, <1>14, <2>1, <2>2
<1>16. pc \in {"emit", "burst"} /\ pc' \in {"finish", "burstfinish"}
  BY <1>4
<1>17. Completes(G, made, ended)
  BY <1>4, <1>9, <1>11, <1>12, <1>13, <1>14, <1>15, <1>16 DEF Completes
<1> QED BY <1>17, CompleteKeeps

-----------------------------------------------------------------------------
(* Every step.                                                             *)

\* Every step of the worker, of a handler and of a client keeps the invariant.
LEMMA WorkerStepKeeps == ASSUME WInv, [Next]_vars PROVE WInv'
<1>1. CASE WorkerStep
  <2>1. CASE Initialize \/ LoadTokenizer \/ WaitOver \/ PlanNothing
    BY <2>1, IdleKeeps
  <2>2. CASE TakeCommand
    BY <2>2, TakeKeeps
  <2>3. CASE PlanBatch
    BY <2>3, PlanKeeps
  <2>4. CASE Execute \/ Speculate
    BY <2>4, BeginKeeps
  <2>5. CASE Sample
    BY <2>5, SampleKeeps
  <2>6. CASE BeginSweep \/ NextRound
    BY <2>6, EndKeeps
  <2>7. CASE CompleteBurst
    BY <2>7, BurstEndKeeps
  <2>8. ASSUME NEW c \in Clients, EmitPending(c) \/ EmitBurst(c) \/ Finish(c) \/ SweepOne(c)
        PROVE  WInv'
    BY <2>8, PendingKeeps, BurstKeeps, FinishKeeps, SweepKeeps
  <2> QED BY <1>1, <2>1, <2>2, <2>3, <2>4, <2>5, <2>6, <2>7, <2>8 DEF WorkerStep
<1>2. CASE Fail
  BY <1>2, FailKeeps
<1>3. CASE Shut
  BY <1>3, ShutKeeps
<1>4. ASSUME NEW c \in Clients, HandlerStep(c) \/ Reject(c) \/ Send(c) \/ Disconnect(c)
      PROVE  WInv'
  BY <1>4, HandlerKeeps, SendKeeps
<1>5. CASE UNCHANGED vars
  <2>1. UNCHANGED <<worker, log, serving, handler, read, commands>> /\ UNCHANGED <<jobs, pc>>
    BY <1>5 DEF vars, http, worker
  <2>2. HttpPart' /\ CommandPart'
    BY <2>1 DEF WInv, HttpPart, CommandPart
  <2>3. \A c \in Clients : handler'[c] = "new" \/ c \in Range(commands)' => log[c] = <<>>
    BY <2>1 DEF WInv, LogPart
  <2> QED BY <2>1, <2>2, <2>3, WorkerSame
<1> QED BY <1>1, <1>2, <1>3, <1>4, <1>5 DEF Next

\* What the worker and the handlers keep to.
THEOREM WorkerInvariant == Spec => []WInv
BY WorkerStarts, WorkerStepKeeps, PTL DEF Spec

\* The worker has a job for every request of the scheduler and only for those, whatever clients
\* come and go, and whichever steps the batches take: no batch names a request whose prompt is
\* gone, and no request runs that nobody can be told about.
THEOREM RequestsAlwaysKnown == Spec => []RequestsKnown
BY WorkerInvariant, WInvImplies, PTL

\* However a request ends, at its limit, by a stop, by a refusal, by an error of the engine or
\* with its client, the client hears of it at most once and of nothing after that.
THEOREM AlwaysToldOnce == Spec => []ToldOnce
BY WorkerInvariant, WInvImplies, PTL

\* The tokens that wait, the outputs, their log-probabilities and the tokens of the head keep step
\* with what the scheduler counts, through any mix of regular and speculative steps.
THEOREM AccountsAlwaysInStep == Spec => []AccountsInStep
BY WorkerInvariant, WInvImplies, PTL

-----------------------------------------------------------------------------
(* The memory the server serves from: VramPlan splits the card into states *)
(* and KV blocks, and DeviceMemory is the account under a ceiling that     *)
(* every allocation goes through.                                          *)
(*                                                                         *)
(* The capacities never change once they are set, so the invariant of      *)
(* VramPlan only has to say what from_budget makes them: the quotients of  *)
(* SlotsFor and BlocksLeft.  The rest is arithmetic of quotients, in the   *)
(* lemmas below.  What the sequences then hold is a sum over them: at most *)
(* the blocks of the target length each, while none is longer.             *)
(*                                                                         *)
(* A thread between the load and the exchange holds a value of MEMORY_USED *)
(* that may be stale.  What it decided is still good when the exchange     *)
(* succeeds, because the exchange compares the value and because the limit *)
(* is set before any thread allocates: this is the part `Promised` of      *)
(* MemoryInv, without which WithinLimit is not inductive.  That            *)
(* MEMORY_USED is a natural number needs the sum of the live buffers:      *)
(* `Accounted` adds it, and the reservations of a step enter or leave the  *)
(* sum by the lemmas of DataLemmas.                                        *)

-----------------------------------------------------------------------------
(* Arithmetic.                                                             *)

\* A quotient is the largest number of times the divisor fits.
LEMMA Quotient ==
  ASSUME NEW n \in Nat, NEW d \in Nat \ {0}
  PROVE  /\ n \div d \in Nat
         /\ (n \div d) * d <= n
         /\ n < ((n \div d) + 1) * d
<1>1. n = d * (n \div d) + (n % d) /\ n % d \in 0..(d - 1) /\ n \div d \in Int
  OBVIOUS
<1>2. n \div d \in Nat
  OBVIOUS
<1>3. ((n \div d) + 1) * d = d * (n \div d) + d /\ (n \div d) * d = d * (n \div d)
  BY <1>2
<1> QED BY <1>1, <1>2, <1>3

\* What fits m times is a quotient of at least m.
LEMMA QuotientAtLeast ==
  ASSUME NEW n \in Nat, NEW d \in Nat \ {0}, NEW m \in Nat, m * d <= n
  PROVE  m <= n \div d
<1>1. n \div d \in Nat /\ n < ((n \div d) + 1) * d
  BY Quotient
<1> DEFINE q == n \div d
<1>2. q \in Nat /\ n < (q + 1) * d
  BY <1>1
<1> HIDE DEF q
<1>3. SUFFICES ASSUME q + 1 <= m PROVE FALSE
  BY <1>2 DEF q
<1>4. m = (q + 1) + (m - (q + 1)) /\ m - (q + 1) \in Nat
  BY <1>2, <1>3
<1>5. PICK k \in Nat : m = (q + 1) + k
  BY <1>4
<1>6. m * d = (q + 1) * d + k * d /\ k * d \in Nat /\ (q + 1) * d \in Nat
  BY <1>2, <1>5
<1> QED BY <1>2, <1>6

-----------------------------------------------------------------------------
(* Sizes.                                                                  *)

\* Dividing rounded up: a natural number, and at least one for something.
LEMMA DivCeilNat ==
  ASSUME NEW n \in Nat, NEW d \in Nat \ {0}
  PROVE  DivCeil(n, d) \in Nat /\ (n > 0 => DivCeil(n, d) > 0)
<1>1. n + d - 1 \in Nat /\ (n > 0 => 1 * d <= n + d - 1)
  OBVIOUS
<1>2. (n + d - 1) \div d \in Nat
  BY <1>1, Quotient
<1>3. n > 0 => 1 <= (n + d - 1) \div d
  BY <1>1, QuotientAtLeast
<1> QED BY <1>2, <1>3 DEF DivCeil

\* Every format stores something in something.
LEMMA DtypeBytesNat ==
  ASSUME NEW dtype \in Dtypes, NEW n \in Nat
  PROVE  DtypeBytes(dtype, n) \in Nat /\ (n > 0 => DtypeBytes(dtype, n) > 0)
<1>1. /\ DivCeil(n, Nvfp4Block) \in Nat /\ (n > 0 => DivCeil(n, Nvfp4Block) > 0)
      /\ DivCeil(n, RowElems) \in Nat
  BY DivCeilNat, SizesAssumption
<1>2. n \div 2 \in Nat
  BY Quotient
<1>3. CASE dtype = "Fp32"
  BY <1>3 DEF DtypeBytes
<1>4. CASE dtype = "Bf16"
  BY <1>4 DEF DtypeBytes
<1>5. CASE dtype = "Fp8E4m3"
  BY <1>5 DEF DtypeBytes
<1>6. CASE dtype = "Nvfp4"
  BY <1>1, <1>2, <1>6 DEF DtypeBytes
<1>7. CASE dtype = "Int8Row128"
  BY <1>1, <1>7 DEF DtypeBytes
<1> QED BY <1>3, <1>4, <1>5, <1>6, <1>7 DEF Dtypes

\* A slot and a block cost something, and a sequence holds a natural number of blocks.
LEMMA ConfigSizes ==
  ASSUME NEW c \in CacheConfigs, NEW n \in Nat
  PROVE  /\ StateBytesPerSlot(c) \in Nat \ {0}
         /\ KvBytesPerBlock(c) \in Nat \ {0}
         /\ BlocksFor(c, n) \in Nat
<1>1. c.kv_dtype \in Dtypes /\ c.state_dtype \in Dtypes /\ c.block_size \in Nat \ {0}
  BY SizesAssumption
<1>2. "Fp32" \in Dtypes
  BY DEF Dtypes
<1>3. StateBytesPerSlot(c) \in Nat \ {0}
  <2>1. DtypeBytes(c.state_dtype, StateElemsPerSeq) \in Nat \ {0}
    BY <1>1, DtypeBytesNat, SizesAssumption
  <2>2. DtypeBytes("Fp32", ConvElemsPerSeq) \in Nat
    BY <1>2, DtypeBytesNat, SizesAssumption
  <2> QED BY <2>1, <2>2 DEF StateBytesPerSlot
<1>4. KvBytesPerToken(c) \in Nat \ {0}
  BY <1>1, DtypeBytesNat, SizesAssumption DEF KvBytesPerToken
<1>5. KvBytesPerBlock(c) \in Nat \ {0}
  BY <1>1, <1>4 DEF KvBytesPerBlock
<1>6. BlocksFor(c, n) \in Nat
  BY <1>1, DivCeilNat DEF BlocksFor
<1> QED BY <1>3, <1>5, <1>6

\* What is left of the card is a natural number, the subtractions being saturating.
LEMMA AvailableNat == ASSUME NEW b \in Budgets PROVE CacheAvailable(b) \in Nat
<1>1. b.total_vram \in Nat /\ b.reserved \in Nat /\ b.workspace \in Nat /\ b.plan \in WeightPlans
  BY SizesAssumption
<1>2. WeightBytes(b.plan) \in Nat
  <2> DEFINE p == b.plan
  <2>1. /\ p.body \in Dtypes /\ p.lm_head \in Dtypes /\ p.embed \in Dtypes
        /\ p.mtp \in Dtypes \cup {"none"} /\ p.vision \in BOOLEAN
    BY <1>1 DEF WeightPlans
  <2>2. /\ DtypeBytes(p.body, QuantizedParams) \in Nat
        /\ DtypeBytes(p.lm_head, VocabParams) \in Nat
        /\ DtypeBytes(p.embed, VocabParams) \in Nat
    BY <2>1, DtypeBytesNat, SizesAssumption
  <2>3. (IF p.mtp = "none" THEN 0 ELSE DtypeBytes(p.mtp, MtpParams)) \in Nat
    BY <2>1, DtypeBytesNat, SizesAssumption
  <2>4. (IF p.vision THEN DtypeBytes("Bf16", VisionParams) ELSE 0) \in Nat
    <3>1. DtypeBytes("Bf16", VisionParams) \in Nat
      BY DtypeBytesNat, SizesAssumption DEF Dtypes
    <3> QED BY <3>1
  <2> QED BY <2>2, <2>3, <2>4 DEF WeightBytes
<1> QED BY <1>1, <1>2 DEF CacheAvailable, AtLeast

-----------------------------------------------------------------------------
(* The split.                                                              *)

\* The arithmetic of from_budget: a bytes, s a slot, k a block, r the blocks of a sequence.
LEMMA Split ==
  ASSUME NEW a \in Nat, NEW s \in Nat \ {0}, NEW k \in Nat \ {0}, NEW r \in Nat,
         NEW n, n = a \div (s + r * k),
         NEW m, m = (a - n * s) \div k
  PROVE  /\ n \in Nat /\ m \in Nat
         /\ a - n * s \in Nat
         /\ n * s + m * k <= a
         /\ n * r <= m
         /\ (s + r * k) * n <= a
         /\ (s + r * k) * (n + 1) > a
         /\ n * s + (m + 1) * k > a
<1> DEFINE p == s + r * k
<1>1. r * k \in Nat
  OBVIOUS
<1>2. p \in Nat \ {0}
  BY <1>1
<1>3. n \in Nat /\ n * p <= a /\ a < (n + 1) * p
  BY <1>2, Quotient
<1>4. n * s \in Nat /\ n * r \in Nat /\ (n * r) * k \in Nat
  BY <1>3
<1>5. n * p = n * s + (n * r) * k
  BY <1>1, <1>3, <1>4
<1>6. a - n * s \in Nat /\ (n * r) * k <= a - n * s
  BY <1>3, <1>4, <1>5
<1>7. m \in Nat /\ m * k <= a - n * s /\ a - n * s < (m + 1) * k
  BY <1>6, Quotient
<1>8. n * r <= m
  BY <1>4, <1>6, QuotientAtLeast
<1>9. m * k \in Nat /\ (m + 1) * k \in Nat
  BY <1>7
<1>10. n * p = p * n /\ (n + 1) * p = p * (n + 1)
  BY <1>2, <1>3
<1> QED BY <1>3, <1>4, <1>6, <1>7, <1>8, <1>9, <1>10

\* The same of the operators of the module.
LEMMA FromBudgetSplit ==
  ASSUME NEW b \in Budgets, NEW c \in CacheConfigs, NEW t \in Nat,
         NEW n, n = SlotsFor(b, c, t), NEW m, m = BlocksLeft(b, c, n)
  PROVE  /\ n \in Nat /\ m \in Nat
         /\ n * StateBytesPerSlot(c) + m * KvBytesPerBlock(c) <= CacheAvailable(b)
         /\ n * BlocksFor(c, t) <= m
         /\ n = MaxConcurrency(b, c, t)
         /\ FitsIn(b, c, n, t)
         /\ ~FitsIn(b, c, n + 1, t)
         /\ n * StateBytesPerSlot(c) + (m + 1) * KvBytesPerBlock(c) > CacheAvailable(b)
<1> DEFINE a == CacheAvailable(b)
           s == StateBytesPerSlot(c)
           k == KvBytesPerBlock(c)
           r == BlocksFor(c, t)
<1>1. a \in Nat /\ s \in Nat \ {0} /\ k \in Nat \ {0} /\ r \in Nat
  BY AvailableNat, ConfigSizes
<1>2. BytesPerSeq(c, t) = s + r * k
  BY DEF BytesPerSeq
<1>3. AtLeast(0, a - n * s) \div AtLeast(1, k) = m
  BY DEF BlocksLeft
<1> HIDE DEF a, s, k, r
<1>4. r * k \in Nat
  BY <1>1
<1>5. s + r * k \in Nat \ {0}
  BY <1>1, <1>4
<1>6. n = a \div (s + r * k)
  BY <1>2, <1>5 DEF SlotsFor, AtLeast, a
<1>7. n \in Nat /\ n * (s + r * k) <= a
  BY <1>1, <1>5, <1>6, Quotient
<1>8. n * s <= n * (s + r * k) /\ n * s \in Nat
  <2>1. n * (s + r * k) = n * s + n * (r * k)
    BY <1>1, <1>4, <1>7
  <2>2. n * s \in Nat /\ n * (r * k) \in Nat
    BY <1>1, <1>4, <1>7
  <2> QED BY <2>1, <2>2
<1>9. m = (a - n * s) \div k
  BY <1>1, <1>3, <1>7, <1>8 DEF AtLeast
<1>10. /\ n \in Nat /\ m \in Nat
       /\ n * s + m * k <= a
       /\ n * r <= m
       /\ (s + r * k) * n <= a
       /\ (s + r * k) * (n + 1) > a
       /\ n * s + (m + 1) * k > a
  BY <1>1, <1>6, <1>9, Split
<1>11. (s + r * k) * n \in Int /\ (s + r * k) * (n + 1) \in Int
  BY <1>5, <1>10
<1>12. FitsIn(b, c, n, t) /\ ~FitsIn(b, c, n + 1, t)
  BY <1>1, <1>2, <1>10, <1>11 DEF FitsIn, a
<1>13. n = MaxConcurrency(b, c, t)
  BY <1>2, <1>5, <1>6 DEF MaxConcurrency, a
<1> QED BY <1>10, <1>12, <1>13 DEF a, s, k, r

-----------------------------------------------------------------------------
(* The specification.                                                      *)

\* The capacities are those of from_budget once it has run.
PoolsSet ==
  /\ budget \in Budgets /\ cfg \in CacheConfigs /\ target \in Nat
  /\ stage \in {"plan", "serve"}
  /\ stage = "plan" => slots = 0 /\ blocks = 0
  /\ stage = "serve" => slots = SlotsFor(budget, cfg, target)
                        /\ blocks = BlocksLeft(budget, cfg, slots)

\* The capacities stay what from_budget made them.
LEMMA PoolsSetKept == PoolsSet /\ [PlanNext]_planVars => PoolsSet'
<1> SUFFICES ASSUME PoolsSet, [PlanNext]_planVars PROVE PoolsSet'
  OBVIOUS
<1>1. CASE FromBudget
  BY <1>1 DEF FromBudget, PoolsSet
<1>2. CASE UNCHANGED <<budget, cfg, target, slots, blocks, stage>>
  BY <1>2 DEF PoolsSet
<1>3. ASSUME NEW i \in Ids, AppendToken(i) \/ Release(i) \/ \E n \in 1..MaxTokens : Admit(i, n)
      PROVE  UNCHANGED <<budget, cfg, target, slots, blocks, stage>>
  BY <1>3 DEF AppendToken, Release, Admit
<1> QED BY <1>1, <1>2, <1>3 DEF PlanNext, planVars

\* So they are in every state.
LEMMA PoolsSetInvariant == PlanSpec => []PoolsSet
<1>1. PlanInit => PoolsSet
  BY SizesAssumption DEF PlanInit, PoolsSet
<1> QED BY <1>1, PoolsSetKept, PTL DEF PlanSpec

\* The capacities are never negative, whatever the plan takes of the card.
THEOREM CapacitiesTyped == PlanSpec => []PlanTypeOK
<1> DEFINE Typed == /\ PoolsSet /\ target \in Targets
                    /\ running \subseteq Ids /\ length \in [Ids -> 0..MaxTokens]
<1>1. PlanInit => Typed
  BY SizesAssumption DEF PlanInit, PoolsSet
<1>2. Typed /\ [PlanNext]_planVars => Typed'
  <2> SUFFICES ASSUME Typed, [PlanNext]_planVars PROVE Typed'
    OBVIOUS
  <2>1. PoolsSet'
    BY PoolsSetKept
  <2>2. MaxTokens \in Nat
    BY SizesAssumption
  <2>3. CASE FromBudget
    BY <2>1, <2>3 DEF FromBudget
  <2>4. ASSUME NEW i \in Ids, NEW n \in 1..MaxTokens, Admit(i, n) PROVE Typed'
    BY <2>1, <2>2, <2>4 DEF Admit
  <2>5. ASSUME NEW i \in Ids, AppendToken(i) PROVE Typed'
    <3>1. length[i] + 1 \in 0..MaxTokens
      BY <2>2, <2>5 DEF AppendToken
    <3> QED BY <2>1, <2>5, <3>1 DEF AppendToken
  <2>6. ASSUME NEW i \in Ids, Release(i) PROVE Typed'
    BY <2>1, <2>2, <2>6 DEF Release
  <2>7. CASE UNCHANGED planVars
    BY <2>1, <2>7 DEF planVars
  <2> QED BY <2>3, <2>4, <2>5, <2>6, <2>7 DEF PlanNext
<1>3. Typed => PlanTypeOK
  <2>1. PoolsSet => slots \in Nat /\ blocks \in Nat
    BY FromBudgetSplit DEF PoolsSet
  <2> QED BY <2>1 DEF PoolsSet, PlanTypeOK
<1> QED BY <1>1, <1>2, <1>3, PTL DEF PlanSpec

\* The pools never take more than the card has left.
THEOREM PoolsAlwaysFit == PlanSpec => []PoolsFit
<1>1. PoolsSet => PoolsFit
  <2> SUFFICES ASSUME PoolsSet PROVE PoolsFit
    OBVIOUS
  <2>1. CASE stage = "serve"
    BY <2>1, FromBudgetSplit DEF PoolsSet, PoolsFit
  <2>2. CASE stage = "plan"
    <3>1. /\ CacheAvailable(budget) \in Nat
          /\ StateBytesPerSlot(cfg) \in Nat /\ KvBytesPerBlock(cfg) \in Nat
      BY AvailableNat, ConfigSizes DEF PoolsSet
    <3> QED BY <2>2, <3>1 DEF PoolsSet, PoolsFit
  <2> QED BY <2>1, <2>2 DEF PoolsSet
<1> QED BY PoolsSetInvariant, <1>1, PTL

\* Every state slot has the KV blocks of a sequence of the target length behind it.
THEOREM SlotsAlwaysBacked == PlanSpec => []SlotsBacked
<1>1. PoolsSet => SlotsBacked
  BY FromBudgetSplit DEF PoolsSet, SlotsBacked
<1> QED BY PoolsSetInvariant, <1>1, PTL

\* from_budget leaves neither a sequence of the target length nor a block unused.
THEOREM NothingIsWasted == PlanSpec => []NothingWasted
<1>1. PoolsSet => NothingWasted
  BY FromBudgetSplit DEF PoolsSet, NothingWasted
<1> QED BY PoolsSetInvariant, <1>1, PTL

\* The slots of the cache manager are the concurrency that qwc-core estimates on its own.
THEOREM EstimateAlwaysAgrees == PlanSpec => []EstimateAgrees
<1>1. PoolsSet => EstimateAgrees
  BY FromBudgetSplit DEF PoolsSet, EstimateAgrees
<1> QED BY PoolsSetInvariant, <1>1, PTL

\* from_budget splits the card tightly, for every card, plan and target length.
THEOREM SplitAlwaysRight == PlanSpec => []SplitRight
BY CapacitiesTyped, PoolsAlwaysFit, SlotsAlwaysBacked, NothingIsWasted, EstimateAlwaysAgrees, PTL
   DEF SplitRight

-----------------------------------------------------------------------------
(* The sequences.                                                          *)

\* There are never more running sequences than slots.
SlotsHeld ==
  /\ running \subseteq Ids /\ length \in [Ids -> Nat]
  /\ stage = "plan" => running = {}
  /\ Cardinality(running) <= slots

\* Sequences are finitely many.
LEMMA RunningFinite ==
  ASSUME SlotsHeld PROVE IsFiniteSet(running) /\ Cardinality(running) \in Nat
BY FS_Subset, FS_CardinalityType, SizesAssumption DEF SlotsHeld

\* A slot is taken before a sequence runs and given back after it.
LEMMA SlotsHeldKept == PoolsSet /\ SlotsHeld /\ [PlanNext]_planVars => SlotsHeld'
<1> SUFFICES ASSUME PoolsSet, SlotsHeld, [PlanNext]_planVars PROVE SlotsHeld'
  OBVIOUS
<1>1. IsFiniteSet(running) /\ Cardinality(running) \in Nat /\ MaxTokens \in Nat
  BY RunningFinite, SizesAssumption
<1>2. slots \in Nat
  BY FromBudgetSplit DEF PoolsSet
<1>3. CASE FromBudget
  <2>1. running' = {} /\ length' = length /\ stage' = "serve"
    BY <1>3 DEF FromBudget, SlotsHeld
  <2>2. slots' = SlotsFor(budget, cfg, target) /\ slots' \in Nat
    BY <1>3, FromBudgetSplit DEF FromBudget, PoolsSet
  <2> QED BY <2>1, <2>2, FS_EmptySet DEF SlotsHeld
<1>4. ASSUME NEW i \in Ids, NEW n \in 1..MaxTokens, Admit(i, n) PROVE SlotsHeld'
  <2>1. Cardinality(running \cup {i}) = Cardinality(running) + 1
    BY <1>1, <1>4, FS_AddElement DEF Admit
  <2>2. Cardinality(running) + 1 <= slots
    BY <1>1, <1>2, <1>4 DEF Admit, CanAdmit
  <2> QED BY <1>1, <1>4, <2>1, <2>2 DEF Admit, SlotsHeld
<1>5. ASSUME NEW i \in Ids, AppendToken(i) PROVE SlotsHeld'
  BY <1>5 DEF AppendToken, SlotsHeld
<1>6. ASSUME NEW i \in Ids, Release(i) PROVE SlotsHeld'
  <2>1. Cardinality(running \ {i}) = Cardinality(running) - 1
    BY <1>1, <1>6, FS_RemoveElement DEF Release
  <2> QED BY <1>1, <1>2, <1>6, <2>1 DEF Release, SlotsHeld
<1>7. CASE UNCHANGED planVars
  BY <1>7 DEF planVars, SlotsHeld
<1> QED BY <1>3, <1>4, <1>5, <1>6, <1>7 DEF PlanNext

\* More tokens never need fewer blocks.
LEMMA BlocksForGrows ==
  ASSUME NEW c \in CacheConfigs, NEW n \in Nat, NEW m \in Nat, n <= m
  PROVE  BlocksFor(c, n) \in Nat /\ BlocksFor(c, m) \in Nat /\ BlocksFor(c, n) <= BlocksFor(c, m)
<1> DEFINE d == c.block_size
<1>1. d \in Nat \ {0}
  BY SizesAssumption
<1>2. BlocksFor(c, n) \in Nat /\ BlocksFor(c, m) \in Nat
  BY ConfigSizes
<1>3. n + d - 1 \in Nat /\ m + d - 1 \in Nat /\ n + d - 1 <= m + d - 1
  BY <1>1
<1> HIDE DEF d
<1>4. (n + d - 1) \div d <= (m + d - 1) \div d
  BY <1>1, <1>3, QuotientMonotonic
<1> QED BY <1>2, <1>4 DEF BlocksFor, DivCeil, d

\* While no sequence is longer than the target, there are blocks for every slot to reach it.
LEMMA TargetReached == PoolsSet /\ SlotsHeld => TargetHeld
<1> SUFFICES ASSUME PoolsSet, SlotsHeld, stage = "serve", \A i \in running : length[i] <= target
             PROVE  /\ \A n \in 1..MaxTokens :
                          n <= target /\ Cardinality(running) < slots => CanAdmit(n)
                    /\ \A i \in running : length[i] < target => CanAppend(i)
  BY DEF TargetHeld
<1> DEFINE b == BlocksFor(cfg, target)
           count == Cardinality(running)
           f == [i \in Ids |-> BlocksFor(cfg, length[i])]
<1>1. IsFiniteSet(running) /\ running \subseteq Ids /\ count \in Nat /\ count <= slots
  BY RunningFinite DEF SlotsHeld
<1>2. /\ slots \in Nat /\ blocks \in Nat /\ slots * b <= blocks
      /\ cfg \in CacheConfigs /\ target \in Nat
  BY FromBudgetSplit DEF PoolsSet
<1>3. b \in Nat /\ \A i \in running : f[i] \in Nat /\ f[i] <= b
  BY <1>1, <1>2, BlocksForGrows DEF SlotsHeld
<1>4. Held = SumFunctionOnSet(f, running)
  BY DEF Held
<1>5. \A i \in running : f[i] = BlocksFor(cfg, length[i])
  BY <1>1
<1> HIDE DEF b, count, f
<1>6. ASSUME NEW n \in 1..MaxTokens, n <= target, count < slots PROVE CanAdmit(n)
  <2>1. n \in Nat
    BY SizesAssumption
  <2>2. BlocksFor(cfg, n) \in Nat /\ BlocksFor(cfg, n) <= b
    BY <1>2, <1>6, <2>1, BlocksForGrows DEF b
  <2>3. Held \in Nat /\ Held <= count * b
    BY <1>1, <1>3, <1>4, SumNat, SumBound DEF count
  <2>4. (count + 1) * b <= slots * b /\ (count + 1) * b = count * b + b
    <3>1. PICK k \in Nat : slots = (count + 1) + k
      <4>1. slots - (count + 1) \in Nat /\ slots = (count + 1) + (slots - (count + 1))
        BY <1>1, <1>2, <1>6
      <4> QED BY <4>1
    <3>2. slots * b = (count + 1) * b + k * b /\ k * b \in Nat /\ (count + 1) * b \in Nat
      BY <1>1, <1>3, <3>1
    <3>3. (count + 1) * b = count * b + b
      BY <1>1, <1>3
    <3> QED BY <3>2, <3>3
  <2>5. count * b \in Nat /\ slots * b \in Nat
    BY <1>1, <1>2, <1>3
  <2>6. BlocksFor(cfg, n) <= FreeBlocks
    BY <1>2, <1>3, <2>2, <2>3, <2>4, <2>5 DEF FreeBlocks
  <2> QED BY <1>6, <2>6 DEF CanAdmit, count
<1>7. ASSUME NEW i \in running, length[i] < target PROVE CanAppend(i)
  <2>1. length[i] \in Nat /\ length[i] + 1 \in Nat /\ length[i] + 1 <= target
    BY <1>1, <1>2, <1>7 DEF SlotsHeld
  <2>2. BlocksFor(cfg, length[i] + 1) \in Nat /\ BlocksFor(cfg, length[i] + 1) <= b
    BY <1>2, <2>1, BlocksForGrows DEF b
  <2> DEFINE R == running \ {i}
             rest == SumFunctionOnSet(f, R)
             n == Cardinality(R)
  <2>3. IsFiniteSet(R) /\ n \in Nat /\ count = n + 1 /\ R \subseteq running
    <3>1. Cardinality(running \ {i}) = Cardinality(running) - 1
      BY <1>1, FS_RemoveElement
    <3> QED BY <1>1, <3>1, FS_Subset, FS_CardinalityType DEF count
  <2>4. Held = f[i] + rest /\ rest \in Int
    <3>1. \A x \in running : f[x] \in Int
      BY <1>3
    <3> QED BY <1>1, <1>4, <3>1, SumRemove
  <2>5. rest <= n * b
    <3>1. \A x \in R : f[x] \in Nat /\ f[x] <= b
      BY <1>3
    <3> QED BY <1>3, <2>3, <3>1, SumBound
  <2> HIDE DEF R, rest, n
  <2>6. slots * b >= (n + 1) * b /\ (n + 1) * b = n * b + b
    <3>1. PICK k \in Nat : slots = (n + 1) + k
      <4>1. slots - (n + 1) \in Nat /\ slots = (n + 1) + (slots - (n + 1))
        BY <1>1, <1>2, <2>3
      <4> QED BY <4>1
    <3>2. slots * b = (n + 1) * b + k * b /\ k * b \in Nat /\ (n + 1) * b \in Nat
      BY <1>3, <2>3, <3>1
    <3>3. (n + 1) * b = n * b + b
      BY <1>3, <2>3
    <3> QED BY <3>2, <3>3
  <2>7. n * b \in Nat /\ slots * b \in Nat
    BY <1>2, <1>3, <2>3
  <2>8. f[i] \in Nat /\ f[i] = BlocksFor(cfg, length[i])
    BY <1>3, <1>5
  <2>9. BlocksFor(cfg, length[i] + 1) - BlocksFor(cfg, length[i]) <= FreeBlocks
    BY <1>2, <1>3, <2>2, <2>4, <2>5, <2>6, <2>7, <2>8 DEF FreeBlocks
  <2> QED BY <2>9 DEF CanAppend
<1> QED BY <1>6, <1>7 DEF count

\* While every sequence stays within the target length, none is ever refused for want of blocks:
\* what from_budget sized the pools for is what they then hold, for every card and model.
THEOREM TargetAlwaysHeld == PlanSpec => []TargetHeld
<1>1. PlanInit => SlotsHeld
  BY SizesAssumption, FS_EmptySet DEF PlanInit, SlotsHeld
<1> QED BY PoolsSetInvariant, <1>1, SlotsHeldKept, TargetReached, PTL DEF PlanSpec

-----------------------------------------------------------------------------
(* The ceiling on device memory.                                           *)

\* The shape of the account and of the threads' registers.
MemoryTypes ==
  /\ used \in Int /\ limit \in 1..Word
  /\ at \in [Threads -> Labels]
  /\ bytes \in [Threads -> Sizes \cup {0}]
  /\ seen \in [Threads -> Int]
  /\ room \in [Threads -> BOOLEAN]

\* A thread that found room has room for as long as the value it saw is current.
Promised ==
  \A t \in Threads : at[t] = "exchange" /\ room[t] => seen[t] + bytes[t] <= limit

\* The inductive invariant of the account.
MemoryInv == MemoryTypes /\ WithinLimit /\ Promised

-----------------------------------------------------------------------------

\* The bytes of a buffer are a natural number.
LEMMA BytesNat == ASSUME NEW t \in Threads, MemoryTypes PROVE bytes[t] \in Nat
<1>1. bytes[t] \in Sizes \cup {0}
  BY DEF MemoryTypes
<1>2. \A n \in Sizes : n \in Nat
  BY MemoryAssumption
<1> QED BY <1>1, <1>2

\* Before anything is allocated the ceiling is the whole word.
LEMMA MemoryInvInit == MemoryInit => MemoryInv
BY MemoryAssumption DEF MemoryInit, MemoryInv, MemoryTypes, WithinLimit, Promised, Labels

\* Reading MEMORY_USED and judging the room changes nothing that others rely on.
LEMMA LoadKeeps ==
  ASSUME MemoryInv, NEW t \in Threads, NEW n \in Sizes, Load(t, n), UNCHANGED <<used, limit>>,
         bytes' = [bytes EXCEPT ![t] = n]
  PROVE  MemoryInv'
<1>1. n \in Nat
  BY MemoryAssumption
<1>2. MemoryTypes'
  BY <1>1 DEF MemoryInv, MemoryTypes, Load, Goto, Fits, Labels
<1>3. WithinLimit'
  BY DEF MemoryInv, WithinLimit
<1>4. ASSUME NEW u \in Threads, at'[u] = "exchange", room'[u] PROVE seen'[u] + bytes'[u] <= limit'
  <2>1. CASE u = t
    BY <1>4, <2>1 DEF MemoryInv, MemoryTypes, Load, Goto, Fits
  <2>2. CASE u # t
    BY <1>4, <2>2 DEF MemoryInv, MemoryTypes, Promised, Load, Goto
  <2> QED BY <2>1, <2>2
<1> QED BY <1>2, <1>3, <1>4 DEF MemoryInv, Promised

\* A step that only moves a thread's label to one other than "exchange".
LEMMA GotoKeeps ==
  ASSUME MemoryInv, NEW t \in Threads, NEW l \in Labels, l # "exchange", Goto(t, l),
         UNCHANGED <<used, limit, bytes, seen, room>>
  PROVE  MemoryInv'
BY DEF MemoryInv, MemoryTypes, WithinLimit, Promised, Goto

\* The inductive step.
LEMMA MemoryInvNext == MemoryInv /\ [MemoryNext]_memoryVars => MemoryInv'
<1> SUFFICES ASSUME MemoryInv, [MemoryNext]_memoryVars PROVE MemoryInv'
  OBVIOUS
<1> USE DEF MemoryInv
<1>1. CASE SetLimit
  <2>1. used = 0 /\ used' = 0 /\ limit' \in 1..Word
    BY <1>1 DEF SetLimit
  <2>2. MemoryTypes' /\ WithinLimit'
    BY <1>1, <2>1, MemoryAssumption DEF SetLimit, MemoryTypes, WithinLimit
  <2>3. Promised'
    BY <1>1 DEF SetLimit, Promised
  <2> QED BY <2>2, <2>3
<1>2. ASSUME NEW t \in Threads, Step(t) PROVE MemoryInv'
  <2>1. CASE Begin(t)
    BY <2>1, LoadKeeps DEF Begin
  <2>2. CASE Refuse(t)
    BY <2>2, GotoKeeps DEF Refuse, Labels
  <2>3. CASE Exchange(t)
    <3>1. bytes[t] \in Nat /\ seen[t] \in Int
      BY BytesNat DEF MemoryTypes
    <3>2. seen[t] + bytes[t] <= limit
      BY <2>3 DEF Exchange, Promised
    <3>3. MemoryTypes' /\ WithinLimit'
      BY <2>3, <3>1, <3>2 DEF Exchange, Goto, MemoryTypes, WithinLimit, Labels
    <3>4. Promised'
      BY <2>3 DEF Exchange, Goto, MemoryTypes, Promised
    <3> QED BY <3>3, <3>4
  <2>4. CASE Retry(t)
    <3>1. bytes' = [bytes EXCEPT ![t] = bytes[t]]
      BY <2>4 DEF Retry, MemoryTypes
    <3>2. CASE bytes[t] \in Sizes
      BY <2>4, <3>1, <3>2, LoadKeeps DEF Retry
    <3>3. CASE bytes[t] = 0
      <4>1. MemoryTypes'
        BY <2>4, <3>3 DEF Retry, Load, Goto, Fits, MemoryTypes, Labels
      <4>2. WithinLimit'
        BY <2>4 DEF Retry, WithinLimit
      <4>3. Promised'
        BY <2>4, <3>3 DEF Retry, Load, Goto, Fits, MemoryTypes, Promised
      <4> QED BY <4>1, <4>2, <4>3
    <3> QED BY <3>2, <3>3 DEF MemoryTypes
  <2>5. CASE Malloc(t)
    BY <2>5, GotoKeeps DEF Malloc, Labels
  <2>6. CASE Fill(t)
    BY <2>6, GotoKeeps DEF Fill, Labels
  <2>7. CASE Drop(t)
    BY <2>7, GotoKeeps DEF Drop, Labels
  <2>8. CASE ReleaseBytes(t)
    <3>1. bytes[t] \in Nat
      BY BytesNat
    <3>2. MemoryTypes' /\ WithinLimit'
      BY <2>8, <3>1 DEF ReleaseBytes, Goto, MemoryTypes, WithinLimit, Labels
    <3>3. Promised'
      BY <2>8 DEF ReleaseBytes, Goto, MemoryTypes, Promised
    <3> QED BY <3>2, <3>3
  <2> QED BY <1>2, <2>1, <2>2, <2>3, <2>4, <2>5, <2>6, <2>7, <2>8 DEF Step
<1>3. CASE UNCHANGED memoryVars
  BY <1>3 DEF memoryVars, MemoryTypes, WithinLimit, Promised
<1> QED BY <1>1, <1>2, <1>3 DEF MemoryNext

\* The ceiling is hard for any number of threads: fetch_update in reserve never lets
\* MEMORY_USED pass MEMORY_LIMIT.
THEOREM MemoryWithinLimit == MemorySpec => []WithinLimit
<1>1. MemoryInv => WithinLimit
  BY DEF MemoryInv
<1> QED BY MemoryInvInit, MemoryInvNext, <1>1, PTL DEF MemorySpec

-----------------------------------------------------------------------------
(* The account.                                                            *)

\* The account is the sum of what is reserved, and what a thread saw was an account.
Accounted == UsedExact /\ \A t \in Threads : seen[t] \in 0..Word

\* The reservations are finitely many natural numbers.
LEMMA ReservedSums ==
  ASSUME MemoryInv
  PROVE  /\ IsFiniteSet(Reserved) /\ Reserved \subseteq Threads
         /\ \A t \in Reserved : bytes[t] \in Nat
         /\ UsedExact => used \in 0..Word
<1>1. IsFiniteSet(Reserved) /\ Reserved \subseteq Threads
  BY FS_Subset, MemoryAssumption DEF Reserved
<1>2. \A t \in Reserved : bytes[t] \in Nat
  BY <1>1, BytesNat DEF MemoryInv
<1>3. SumFunctionOnSet(bytes, Reserved) \in Nat
  BY <1>1, <1>2, SumNat
<1>4. used <= limit /\ limit \in 1..Word /\ Word \in Nat
  BY MemoryAssumption DEF MemoryInv, WithinLimit, MemoryTypes
<1> QED BY <1>1, <1>2, <1>3, <1>4 DEF UsedExact

\* A thread that has nothing reserved before and after leaves the account alone.
LEMMA OutsideAccount ==
  ASSUME MemoryInv, Accounted, NEW t \in Threads, t \notin Reserved, NEW l, Goto(t, l),
         l \notin {"malloc", "fill", "held", "release"}, used' = used,
         \A u \in Threads \ {t} : bytes'[u] = bytes[u],
         \A u \in Threads \ {t} : seen'[u] = seen[u], seen'[t] \in 0..Word
  PROVE  Accounted'
<1>1. Reserved' = Reserved
  BY DEF Reserved, Goto, MemoryInv, MemoryTypes
<1>2. SumFunctionOnSet(bytes, Reserved) = SumFunctionOnSet(bytes', Reserved)
  <2>1. \A u \in Reserved : bytes[u] = bytes'[u]
    BY ReservedSums
  <2> QED BY <2>1, ReservedSums, SumAgree
<1>3. UsedExact'
  BY <1>1, <1>2 DEF Accounted, UsedExact
<1> QED BY <1>3 DEF Accounted

\* A thread that only moves on with its reservation leaves the account alone.
LEMMA InsideAccount ==
  ASSUME MemoryInv, Accounted, NEW t \in Reserved, NEW l \in {"malloc", "fill", "held", "release"},
         Goto(t, l), UNCHANGED <<used, limit, bytes, seen, room>>
  PROVE  Accounted'
<1>1. Reserved' = Reserved
  BY DEF Reserved, Goto, MemoryInv, MemoryTypes
<1> QED BY <1>1 DEF Accounted, UsedExact

\* Every step keeps the account: an exchange adds the bytes it reserves to the sum, a release
\* takes them out, and nothing else touches either.
LEMMA NextAccounted == MemoryInv /\ Accounted /\ [MemoryNext]_memoryVars => Accounted'
<1> SUFFICES ASSUME MemoryInv, Accounted, [MemoryNext]_memoryVars PROVE Accounted'
  OBVIOUS
<1>1. CASE SetLimit
  BY <1>1 DEF SetLimit, Accounted, UsedExact, Reserved
<1>2. CASE UNCHANGED memoryVars
  BY <1>2 DEF memoryVars, Accounted, UsedExact, Reserved
<1>3. ASSUME NEW t \in Threads, Step(t) PROVE Accounted'
  <2>1. used \in 0..Word /\ at \in [Threads -> Labels] /\ bytes \in [Threads -> Sizes \cup {0}]
        /\ seen \in [Threads -> Int] /\ seen[t] \in 0..Word
    BY ReservedSums DEF Accounted, MemoryInv, MemoryTypes
  <2>2. CASE Begin(t)
    <3>1. /\ t \notin Reserved /\ Goto(t, "exchange") /\ used' = used
          /\ \A u \in Threads \ {t} : bytes'[u] = bytes[u]
          /\ \A u \in Threads \ {t} : seen'[u] = seen[u]
          /\ seen'[t] \in 0..Word
      BY <2>1, <2>2 DEF Begin, Load, Reserved
    <3> QED BY <3>1, OutsideAccount
  <2>3. CASE Retry(t)
    <3>1. /\ t \notin Reserved /\ Goto(t, "exchange") /\ used' = used /\ bytes' = bytes
          /\ \A u \in Threads \ {t} : seen'[u] = seen[u]
          /\ seen'[t] \in 0..Word
      BY <2>1, <2>3 DEF Retry, Load, Reserved
    <3> QED BY <3>1, OutsideAccount
  <2>4. CASE Refuse(t)
    <3>1. /\ t \notin Reserved /\ Goto(t, "idle") /\ used' = used /\ bytes' = bytes
          /\ seen' = seen
      BY <2>1, <2>4 DEF Refuse, Reserved
    <3> QED BY <2>1, <3>1, OutsideAccount
  <2>5. CASE Exchange(t)
    <3>1. t \notin Reserved /\ Reserved' = Reserved \cup {t} /\ bytes' = bytes /\ seen' = seen
      BY <2>1, <2>5 DEF Exchange, Goto, Reserved
    <3>2. used' = used + bytes[t]
      BY <2>5 DEF Exchange
    <3>3. bytes[t] \in Nat
      BY BytesNat DEF MemoryInv
    <3>4. SumFunctionOnSet(bytes, Reserved \cup {t}) = bytes[t] + SumFunctionOnSet(bytes, Reserved)
      <4>1. IsFiniteSet(Reserved) /\ \A x \in Reserved : bytes[x] \in Int
        BY ReservedSums
      <4> QED BY <3>1, <3>3, <4>1, SumAdd
    <3>5. UsedExact'
      BY <2>1, <3>1, <3>2, <3>3, <3>4 DEF Accounted, UsedExact
    <3> QED BY <3>1, <3>5 DEF Accounted
  <2>6. CASE Malloc(t)
    BY <2>6, InsideAccount DEF Malloc, Reserved
  <2>7. CASE Fill(t)
    BY <2>7, InsideAccount DEF Fill, Reserved
  <2>8. CASE Drop(t)
    BY <2>8, InsideAccount DEF Drop, Reserved
  <2>9. CASE ReleaseBytes(t)
    <3>1. t \in Reserved /\ Reserved' = Reserved \ {t} /\ bytes' = bytes /\ seen' = seen
      BY <2>1, <2>9 DEF ReleaseBytes, Goto, Reserved
    <3>2. used' = used - bytes[t]
      BY <2>9 DEF ReleaseBytes
    <3>3. /\ SumFunctionOnSet(bytes, Reserved) = bytes[t] + SumFunctionOnSet(bytes, Reserved \ {t})
          /\ SumFunctionOnSet(bytes, Reserved \ {t}) \in Int
      <4>1. IsFiniteSet(Reserved) /\ \A x \in Reserved : bytes[x] \in Int
        BY ReservedSums
      <4> QED BY <3>1, <4>1, SumRemove
    <3>4. bytes[t] \in Nat
      BY BytesNat DEF MemoryInv
    <3>5. UsedExact'
      BY <3>1, <3>2, <3>3, <3>4 DEF Accounted, UsedExact
    <3> QED BY <3>1, <3>5 DEF Accounted
  <2> QED BY <1>3, <2>2, <2>3, <2>4, <2>5, <2>6, <2>7, <2>8, <2>9 DEF Step
<1> QED BY <1>1, <1>2, <1>3 DEF MemoryNext

\* MEMORY_USED is exactly what live and half-made buffers reserved, whatever fails and however
\* the threads interleave, and it covers what the driver has handed out.
THEOREM MemoryAccounted == MemorySpec => []AccountExact
<1>1. MemoryInit => Accounted
  <2> SUFFICES ASSUME MemoryInit PROVE Accounted
    OBVIOUS
  <2>1. Reserved = {}
    BY DEF MemoryInit, Reserved
  <2>2. used = 0 /\ \A t \in Threads : seen[t] \in 0..Word
    BY MemoryAssumption DEF MemoryInit
  <2> QED BY <2>1, <2>2, SumEmpty DEF Accounted, UsedExact
<1>2. MemoryInv /\ Accounted => AccountExact
  <2> SUFFICES ASSUME MemoryInv, Accounted PROVE AccountExact
    OBVIOUS
  <2>1. used \in 0..Word
    BY ReservedSums DEF Accounted
  <2>2. MemoryTypeOK
    BY <2>1 DEF MemoryInv, MemoryTypes, Accounted, MemoryTypeOK
  <2>3. DriverCovered
    <3> DEFINE made == {t \in Threads : at[t] \in {"fill", "held", "drop"}}
    <3>1. made \in SUBSET Reserved
      BY DEF MemoryInv, MemoryTypes, Labels, Reserved
    <3>2. IsFiniteSet(Reserved) /\ \A t \in Reserved : bytes[t] \in Nat
      BY ReservedSums
    <3>3. \A t \in made : bytes[t] \in Int /\ bytes[t] <= bytes[t]
      BY <3>1, <3>2
    <3> HIDE DEF made
    <3>4. SumFunctionOnSet(bytes, made) <= SumFunctionOnSet(bytes, Reserved)
      BY <3>1, <3>2, <3>3, SumLeq
    <3> QED BY <3>4 DEF made, DriverCovered, Accounted, UsedExact
  <2> QED BY <2>2, <2>3 DEF AccountExact, Accounted
<1> QED BY MemoryInvInit, MemoryInvNext, NextAccounted, <1>1, <1>2, PTL DEF MemorySpec

=============================================================================
