------------------------------- MODULE Server -------------------------------
(***************************************************************************)
(* The HTTP side and the worker thread of                                  *)
(* crates/qwc-engine/src/bin/serve.rs.  A handler sends a job over the     *)
(* command channel and gets events back over a channel of its own; the     *)
(* worker takes commands between two batches, runs batches, emits the      *)
(* tokens and ends jobs.  Clients disconnect when they like, and an error  *)
(* of the engine ends the worker while commands are still being sent.      *)
(*                                                                         *)
(* The scheduler is abstract here: which requests wait, are in their       *)
(* prompt, or decode.  A token is its position in the output; texts are    *)
(* left out, so whether a token makes new text visible is a choice.        *)
(* Every row of a batch samples a token: after a chunk that is not the     *)
(* prompt's last it is a Stray, which has no place in the output.          *)
(***************************************************************************)
EXTENDS Integers, Sequences, FiniteSets, SequencesExt, FiniteSetsExt, Functions

CONSTANTS
  Clients,   \* one request each
  Stream,    \* those that asked for a stream of events
  Scored,    \* those that asked for log-probabilities
  MaxNew,    \* max_new_tokens of each
  Chunks,    \* in how many chunks a prompt is at most prefilled
  Depth,     \* --speculative
  MaxSeqs,   \* --max-seqs
  MayBlock,  \* whether the scheduler may leave a request waiting in an idle pool
  MayFail    \* whether the engine may return an error

ASSUME ServerAssumption ==
  /\ Stream \subseteq Clients /\ Scored \subseteq Clients
  /\ MaxNew \in [Clients -> Nat \ {0}]
  /\ Chunks \in Nat \ {0} /\ MaxSeqs \in Nat \ {0} /\ Depth \in Nat
  /\ MayBlock \in BOOLEAN /\ MayFail \in BOOLEAN

VARIABLES
  serving,   \* whether main listens: the router, and with it a sender, is alive
  handler,   \* where the handler of each client is
  commands,  \* the command channel, as the clients whose jobs are in it
  log,       \* everything the worker has sent to each client
  read,      \* how much of that the handler has taken
  sched,     \* [waiting, chunks, generated]: queued, in prefill, in decode
  batch,     \* [decode, prefill, done]: the batch in flight; done: whose prompt ends
  jobs,      \* [client -> job]: jobs of the worker
  pending,   \* [client -> position or Stray]: sampled and not yet emitted
  head,      \* [for, tokens]: hidden_for and head_tokens
  pc,        \* where run_worker is
  local      \* [todo, stopped, accepted, produced]: its local variables

http == <<serving, handler, read>>
worker == <<sched, batch, jobs, pending, head, pc, local>>
vars == <<http, worker, commands, log>>

-----------------------------------------------------------------------------
(* Channels.                                                               *)

\* event_tx.is_closed: the receiver has been dropped.
IsClosed(c) == handler[c] \in {"gone", "answered"}

\* A sender for the events of c is still held by a queued command or a job.
SenderAlive(c) == c \in Range(commands) \/ c \in DOMAIN jobs

\* What has been sent once the events `es` follow; a closed channel takes none.
Sent(c, es) == IF IsClosed(c) THEN log ELSE [log EXCEPT ![c] = @ \o es]

-----------------------------------------------------------------------------
NoBatch == [decode |-> {}, prefill |-> {}, done |-> {}]
NoLocal == [todo |-> {}, stopped |-> {}, accepted |-> 0, produced |-> 0]
Empty == [c \in {} |-> 0]
Without(f, S) == [c \in DOMAIN f \ S |-> f[c]]
\* Mutant of Extended: an entry that is there stays.
ExtendedOnce(f, g) == [c \in DOMAIN f \cup DOMAIN g |-> IF c \in DOMAIN f THEN f[c] ELSE g[c]]

\* f after an insert of each entry of g.
Extended(f, g) == [c \in DOMAIN f \cup DOMAIN g |-> IF c \in DOMAIN g THEN g[c] ELSE f[c]]
With(f, c, v) == [d \in DOMAIN f \cup {c} |-> IF d = c THEN v ELSE f[d]]

Init ==
  /\ serving = FALSE
  /\ handler = [c \in Clients |-> "new"]
  /\ commands = <<>>
  /\ log = [c \in Clients |-> <<>>]
  /\ read = [c \in Clients |-> 0]
  /\ sched = [waiting |-> {}, chunks |-> Empty, generated |-> Empty]
  /\ batch = NoBatch
  /\ jobs = Empty
  /\ pending = Empty
  /\ head = [for |-> {}, tokens |-> <<>>]
  /\ pc = "init"
  /\ local = NoLocal

-----------------------------------------------------------------------------
(* main and the handlers.                                                  *)

\* initialize_worker: main waits for the outcome before it listens.
Initialize ==
  /\ pc = "init"
  /\ \/ serving' = TRUE /\ pc' = "tokenizer"
     \/ serving' = FALSE /\ pc' = "stopped"
  /\ UNCHANGED <<handler, read, sched, batch, jobs, pending, head, local, commands, log>>

\* The worker loads a tokenizer of its own, after it has reported that it is ready.
LoadTokenizer ==
  /\ pc = "tokenizer"
  /\ pc' \in {"drain", "stopped"}
  /\ commands' = IF pc' = "stopped" THEN <<>> ELSE commands
  /\ UNCHANGED <<http, sched, batch, jobs, pending, head, local, log>>

\* Requests that are refused before anything is sent: an empty prompt, too
\* many tokens, an unknown model or role.
Reject(c) ==
  /\ serving /\ handler[c] = "new"
  /\ handler' = [handler EXCEPT ![c] = "answered"]
  /\ UNCHANGED <<serving, read, worker, commands, log>>

\* The job goes into the channel, unless the worker has dropped the other end.
Send(c) ==
  /\ serving /\ handler[c] = "new"
  /\ IF pc = "stopped"
     THEN /\ handler' = [handler EXCEPT ![c] = "answered"]
          /\ UNCHANGED commands
     ELSE /\ handler' = [handler EXCEPT ![c] = "open"]
          /\ commands' = Append(commands, c)
  /\ UNCHANGED <<serving, read, worker, log>>

Terminal(e) == e \in {"done", "error", "undecodable"}

\* A plain handler waits for the first Done or Error and answers; a stream
\* passes every event on.
Receive(c) ==
  /\ handler[c] = "open" /\ read[c] < Len(log[c])
  /\ read' = [read EXCEPT ![c] = @ + 1]
  /\ handler' = IF c \notin Stream /\ Terminal(log[c][read'[c]])
                THEN [handler EXCEPT ![c] = "answered"]
                ELSE handler
  /\ UNCHANGED <<serving, worker, commands, log>>

\* All senders are gone: a stream ends, a plain handler answers "engine closed
\* the response channel".
Closed(c) ==
  /\ handler[c] = "open" /\ read[c] = Len(log[c]) /\ ~SenderAlive(c)
  /\ handler' = [handler EXCEPT ![c] = "answered"]
  /\ UNCHANGED <<serving, read, worker, commands, log>>

\* The client hangs up: the handler, and with it the receiver, is dropped.
Disconnect(c) ==
  /\ handler[c] = "open"
  /\ handler' = [handler EXCEPT ![c] = "gone"]
  /\ UNCHANGED <<serving, read, worker, commands, log>>

\* axum::serve returns: the router with its sender and all handlers are dropped.
Shut ==
  /\ serving
  /\ serving' = FALSE
  /\ handler' = [c \in Clients |-> IF handler[c] = "answered" THEN "answered" ELSE "gone"]
  /\ UNCHANGED <<read, worker, commands, log>>

-----------------------------------------------------------------------------
(* Taking commands and planning.                                           *)

\* A job whose next_scores is None.
NoScores == 0
NewJob == [out |-> <<>>, scores |-> <<>>, next |-> NoScores]

\* accept_command: submit_prompt takes the request, or refuses it (a number that
\* has come round is a duplicate) and the job is dropped.
AcceptCommand ==
  LET c == commands[1]
  IN  /\ commands # <<>>
      /\ commands' = Tail(commands)
      /\ \/ /\ sched' = [sched EXCEPT !.waiting = @ \cup {c}]
            /\ jobs' = With(jobs, c, NewJob)
            /\ UNCHANGED log
         \/ /\ log' = Sent(c, <<"error">>)
            /\ UNCHANGED <<sched, jobs>>

\* The worker takes what is in the channel, between two batches or while it
\* waits for something to do.
TakeCommand ==
  /\ pc \in {"drain", "wait"}
  /\ AcceptCommand
  /\ pc' = "drain"
  /\ UNCHANGED <<http, batch, pending, head, local>>

\* Mutant of WaitOver: a closed channel is taken for a timeout.
WaitForever ==
  /\ pc = "wait" /\ commands = <<>>
  /\ pc' = "drain"
  /\ UNCHANGED <<http, sched, batch, jobs, pending, head, local, commands, log>>

\* recv_timeout runs into its timeout, or finds the senders gone.
WaitOver ==
  /\ pc = "wait" /\ commands = <<>>
  /\ pc' = IF ~serving /\ jobs = Empty THEN "stopped" ELSE "drain"
  /\ UNCHANGED <<http, sched, batch, jobs, pending, head, local, commands, log>>

Running == DOMAIN sched.chunks \cup DOMAIN sched.generated

\* next_batch returns a batch: some are admitted, everyone that decodes gets a
\* row, and some of the prompts a chunk, which may be their last.
PlanBatch ==
  /\ pc = "drain" /\ commands = <<>>
  /\ \E admitted \in SUBSET sched.waiting :
       LET chunks == [c \in DOMAIN sched.chunks \cup admitted |->
                        IF c \in admitted THEN Chunks ELSE sched.chunks[c]]
       IN  /\ Cardinality(Running \cup admitted) <= MaxSeqs
           /\ \E prefill \in SUBSET DOMAIN chunks : \E done \in SUBSET prefill :
                /\ admitted \subseteq prefill
                /\ {c \in prefill : chunks[c] = 1} \subseteq done
                /\ prefill = {} => sched.generated # Empty
                /\ batch' = [decode |-> DOMAIN sched.generated, prefill |-> prefill,
                             done |-> done]
           /\ sched' = [sched EXCEPT !.waiting = @ \ admitted, !.chunks = chunks]
  /\ pc' = "run"
  /\ UNCHANGED <<http, jobs, pending, head, local, commands, log>>

\* next_batch returns None: nobody is active.
PlanNothing ==
  /\ pc = "drain" /\ commands = <<>>
  /\ Running = {} /\ (sched.waiting = {} \/ MayBlock)
  /\ pc' = "wait"
  /\ UNCHANGED <<http, sched, batch, jobs, pending, head, local, commands, log>>

-----------------------------------------------------------------------------
(* Errors.                                                                 *)

\* Mutant of Stop: the jobs are left alone, and with them their senders.
StopSilently ==
  /\ commands' = <<>>
  /\ pc' = "stopped"
  /\ UNCHANGED <<jobs, log>>

\* fail_all and return: every job hears of it, and the channel is dropped
\* together with the commands that are still in it.
Stop ==
  /\ log' = [c \in Clients |-> IF c \in DOMAIN jobs /\ ~IsClosed(c)
                               THEN Append(log[c], "error") ELSE log[c]]
  /\ jobs' = Empty
  /\ commands' = <<>>
  /\ pc' = "stopped"

\* An error of the scheduler, the layout, the prefix copies, the device, the
\* scores or the head, before or after the tokens of the batch were emitted.
\* abort_batch only matters to the scheduler, which dies with the worker.
Fail ==
  /\ MayFail
  /\ \/ pc = "drain" /\ commands = <<>>
     \/ pc = "run"
     \/ pc \in {"emit", "burst"} /\ (local.todo = {} \/ local.produced = 0)
  /\ Stop
  /\ UNCHANGED <<http, sched, batch, pending, head, local>>

-----------------------------------------------------------------------------
(* Emitting tokens.                                                        *)

\* emit_token, after the check for a stop token: the token and its score join
\* the output, and whatever text became visible is sent.
Pushed(job, p) ==
  [job EXCEPT !.out = Append(@, p),
              !.scores = IF job.next = NoScores THEN @ ELSE Append(@, job.next),
              !.next = NoScores]

\* What may come of a token: it is a stop token and is swallowed; its bytes
\* cannot be decoded; text is sent; or none is, because the job is buffered or
\* a character is not complete.  The last two may complete a stop string.
Outcomes(c) ==
  {[pushed |-> FALSE, sent |-> <<>>, stop |-> TRUE],
   [pushed |-> TRUE, sent |-> <<"undecodable">>, stop |-> TRUE]}
  \cup {[pushed |-> TRUE, sent |-> <<"delta">>, stop |-> s] : s \in {IsClosed(c), TRUE}}
  \cup {[pushed |-> TRUE, sent |-> <<>>, stop |-> s] : s \in BOOLEAN}

Emit(c, p, o) ==
  /\ jobs' = IF o.pushed THEN [jobs EXCEPT ![c] = Pushed(@, p)] ELSE jobs
  /\ log' = Sent(c, o.sent)

-----------------------------------------------------------------------------
(* A regular step.                                                         *)

\* Mutant of DraftDepth: the pending token, which goes out too, is not counted.
DraftOneTooMany ==
  IF batch.prefill = {} /\ Cardinality(batch.decode) = 1 /\ head.for = batch.decode
  THEN Min({Depth} \cup {MaxNew[c] - sched.generated[c] : c \in batch.decode})
  ELSE 0

\* How many tokens to draft.
DraftDepth ==
  IF batch.prefill = {} /\ Cardinality(batch.decode) = 1 /\ head.for = batch.decode
  THEN Min({Depth} \cup {MaxNew[c] - sched.generated[c] - 1 : c \in batch.decode})
  ELSE 0

\* execute_layout has sampled.
Execute ==
  /\ pc = "run" /\ DraftDepth = 0
  /\ pc' = "emit"
  /\ local' = [NoLocal EXCEPT !.todo = batch.decode]
  /\ UNCHANGED <<http, sched, batch, jobs, pending, head, commands, log>>

\* The token sampled by the step before goes out.
EmitPending(c) ==
  /\ pc = "emit" /\ c \in local.todo
  /\ \E o \in Outcomes(c) :
       /\ Emit(c, pending[c], o)
       /\ local' = [local EXCEPT !.todo = @ \ {c},
                                 !.stopped = IF o.stop THEN @ \cup {c} ELSE @]
  /\ UNCHANGED <<http, sched, batch, pending, head, pc, commands>>

\* What a row samples in the middle of a prompt.
Stray == -1

\* execute_layout: one token for each decode row and for each chunk.
Sampled ==
  [c \in batch.decode \cup batch.prefill |->
     IF c \in batch.decode THEN pending[c] + 1
     ELSE IF c \in batch.done THEN 1 ELSE Stray]

\* score_sampled for the jobs that asked for it.
NextScores(js, sampled) ==
  [c \in DOMAIN js |-> IF c \in DOMAIN sampled /\ c \in Scored
                       THEN [js[c] EXCEPT !.next = sampled[c]] ELSE js[c]]

\* complete_batch: who made how many tokens, and who is through.
Completed(made, stopped) ==
  LET after == [c \in DOMAIN sched.generated |->
                  sched.generated[c] + (IF c \in DOMAIN made THEN made[c] ELSE 0)]
  IN  stopped \cup {c \in DOMAIN made : after[c] = MaxNew[c]}

\* Mutant of SchedAfter: a prompt that ends stays with the prompts.
SchedAfterKeepsPrompt(made, ended) ==
  [sched EXCEPT
     !.chunks = [c \in DOMAIN @ |-> IF c \in batch.prefill THEN @[c] - 1 ELSE @[c]],
     !.generated = [c \in (DOMAIN @ \ ended) \cup batch.done |->
                      IF c \in batch.done THEN 0
                      ELSE @[c] + (IF c \in DOMAIN made THEN made[c] ELSE 0)]]

SchedAfter(made, ended) ==
  [sched EXCEPT
     !.chunks = [c \in DOMAIN @ \ batch.done |-> IF c \in batch.prefill THEN @[c] - 1 ELSE @[c]],
     !.generated = [c \in (DOMAIN @ \ ended) \cup batch.done |->
                      IF c \in batch.done THEN 0
                      ELSE @[c] + (IF c \in DOMAIN made THEN made[c] ELSE 0)]]

\* Mutant of Sample: the head's tokens are not renewed.
SampleKeepsHead ==
  /\ pc = "emit" /\ local.todo = {}
  /\ LET made == [c \in batch.decode |-> 1]
         ended == Completed(made, local.stopped)
         alone == IF batch.prefill = {} /\ Cardinality(batch.decode) = 1
                  THEN batch.decode ELSE {}
     IN  /\ pending' = Extended(pending, Sampled)
         /\ jobs' = NextScores(jobs, Sampled)
         /\ head' = [head EXCEPT !.for = IF alone \subseteq ended THEN {} ELSE alone]
         /\ sched' = SchedAfter(made, ended)
         /\ local' = [NoLocal EXCEPT !.todo = ended]
  /\ batch' = NoBatch
  /\ pc' = "finish"
  /\ UNCHANGED <<http, commands, log>>

\* The sampled tokens become pending, the head takes the hidden state of a lone
\* sequence, and the batch is completed.
Sample ==
  /\ pc = "emit" /\ local.todo = {}
  /\ LET made == [c \in batch.decode |-> 1]
         ended == Completed(made, local.stopped)
         alone == IF batch.prefill = {} /\ Cardinality(batch.decode) = 1
                  THEN batch.decode ELSE {}
     IN  /\ pending' = Extended(pending, Sampled)
         /\ jobs' = NextScores(jobs, Sampled)
         /\ head' = [for |-> IF alone \subseteq ended THEN {} ELSE alone,
                     tokens |-> IF alone = {} THEN head.tokens
                                ELSE <<Sampled[CHOOSE c \in alone : TRUE]>>]
         /\ sched' = SchedAfter(made, ended)
         /\ local' = [NoLocal EXCEPT !.todo = ended]
  /\ batch' = NoBatch
  /\ pc' = "finish"
  /\ UNCHANGED <<http, commands, log>>

\* Mutant of FinishJob: the job stays in the map.
FinishKeepsJob(c) ==
  /\ log' = Sent(c, <<"done">>)
  /\ jobs' = jobs
  /\ pending' = Without(pending, {c})

\* finish_job: the rest of the text, then Done; the sender goes with the job.
FinishJob(c) ==
  /\ \E rest \in {<<>>, <<"delta">>} :
       /\ "undecodable" \in Range(log[c]) => rest = <<>>
       /\ log' = Sent(c, Append(rest, "done"))
  /\ jobs' = Without(jobs, {c})
  /\ pending' = Without(pending, {c})

Finish(c) ==
  /\ pc \in {"finish", "burstfinish"} /\ c \in local.todo
  /\ FinishJob(c)
  /\ local' = [local EXCEPT !.todo = @ \ {c}]
  /\ UNCHANGED <<http, sched, batch, head, pc, commands>>

\* After a regular step the worker looks for jobs whose client is gone.
BeginSweep ==
  /\ pc = "finish" /\ local.todo = {}
  /\ pc' = "sweep"
  /\ local' = [local EXCEPT !.todo = DOMAIN jobs]
  /\ UNCHANGED <<http, sched, batch, jobs, pending, head, commands, log>>

\* Mutant of SweepOne: the job goes, but nobody tells the scheduler.
SweepWithoutCancel(c) ==
  /\ pc = "sweep" /\ c \in local.todo
  /\ local' = [local EXCEPT !.todo = @ \ {c}]
  /\ jobs' = IF IsClosed(c) THEN Without(jobs, {c}) ELSE jobs
  /\ pending' = IF IsClosed(c) THEN Without(pending, {c}) ELSE pending
  /\ UNCHANGED <<http, sched, batch, head, pc, commands, log>>

SweepOne(c) ==
  /\ pc = "sweep" /\ c \in local.todo
  /\ local' = [local EXCEPT !.todo = @ \ {c}]
  /\ IF IsClosed(c)
     THEN /\ sched' = [waiting |-> sched.waiting \ {c},
                       chunks |-> Without(sched.chunks, {c}),
                       generated |-> Without(sched.generated, {c})]
          /\ jobs' = Without(jobs, {c})
          /\ pending' = Without(pending, {c})
     ELSE UNCHANGED <<sched, jobs, pending>>
  /\ UNCHANGED <<http, batch, head, pc, commands, log>>

\* The next round of the loop; a speculative step comes here without a sweep.
NextRound ==
  /\ pc \in {"sweep", "burstfinish"} /\ local.todo = {}
  /\ pc' = "drain"
  /\ local' = NoLocal
  /\ UNCHANGED <<http, sched, batch, jobs, pending, head, commands, log>>

-----------------------------------------------------------------------------
(* A speculative step.                                                     *)

\* speculative_step: the pending token and the accepted drafts are to go out.
Speculate ==
  /\ pc = "run" /\ DraftDepth > 0
  /\ \E n \in 0..DraftDepth :
       local' = [NoLocal EXCEPT !.todo = batch.decode, !.accepted = n]
  /\ pc' = "burst"
  /\ UNCHANGED <<http, sched, batch, jobs, pending, head, commands, log>>

\* Mutant of EmitBurst: row i of the verification is taken for its own token.
EmitBurstOffByOne(c) ==
  LET i == local.produced
      p == pending[c] + i
      ready == IF c \in Scored THEN [jobs EXCEPT ![c].next = p + 1] ELSE jobs
  IN  /\ pc = "burst" /\ c \in local.todo
      /\ \E o \in Outcomes(c) :
           /\ jobs' = IF o.pushed THEN [ready EXCEPT ![c] = Pushed(@, p)] ELSE ready
           /\ log' = Sent(c, o.sent)
           /\ local' = [local EXCEPT !.produced = i + 1,
                                     !.todo = IF o.stop \/ i = local.accepted THEN {} ELSE @,
                                     !.stopped = IF o.stop THEN {c} ELSE @]
      /\ UNCHANGED <<http, sched, batch, pending, head, pc, commands>>

\* One of them goes out, until a stop.  The first has its score in the job
\* already; the others get theirs from the rows of the verification.
EmitBurst(c) ==
  LET i == local.produced
      p == pending[c] + i
      ready == IF i > 0 /\ c \in Scored THEN [jobs EXCEPT ![c].next = p] ELSE jobs
  IN  /\ pc = "burst" /\ c \in local.todo
      /\ \E o \in Outcomes(c) :
           /\ jobs' = IF o.pushed THEN [ready EXCEPT ![c] = Pushed(@, p)] ELSE ready
           /\ log' = Sent(c, o.sent)
           /\ local' = [local EXCEPT !.produced = i + 1,
                                     !.todo = IF o.stop \/ i = local.accepted THEN {} ELSE @,
                                     !.stopped = IF o.stop THEN {c} ELSE @]
      /\ UNCHANGED <<http, sched, batch, pending, head, pc, commands>>

\* Mutant of CompleteBurst: the step counts as one token, as a regular one does.
CompleteBurstAsOne ==
  /\ pc = "burst" /\ local.todo = {}
  /\ LET c == CHOOSE c \in batch.decode : TRUE
         made == [d \in {c} |-> 1]
         ended == Completed(made, local.stopped)
     IN  /\ pending' = [pending EXCEPT ![c] = @ + local.accepted + 1]
         /\ head' = [for |-> {c} \ ended,
                     tokens |-> [i \in 1..(local.accepted + 1) |-> pending[c] + i]]
         /\ sched' = SchedAfter(made, ended)
         /\ local' = [NoLocal EXCEPT !.todo = ended]
  /\ batch' = NoBatch
  /\ pc' = "burstfinish"
  /\ UNCHANGED <<http, jobs, commands, log>>

\* The corrected token becomes pending, and the batch is completed with what
\* was produced.
CompleteBurst ==
  /\ pc = "burst" /\ local.todo = {}
  /\ LET c == CHOOSE c \in batch.decode : TRUE
         next == pending[c] + local.accepted + 1
         made == [d \in {c} |-> local.produced]
         ended == Completed(made, local.stopped)
     IN  /\ pending' = [pending EXCEPT ![c] = next]
         /\ jobs' = IF c \in Scored THEN [jobs EXCEPT ![c].next = next] ELSE jobs
         /\ head' = [for |-> {c} \ ended,
                     tokens |-> [i \in 1..(local.accepted + 1) |-> pending[c] + i]]
         /\ sched' = SchedAfter(made, ended)
         /\ local' = [NoLocal EXCEPT !.todo = ended]
  /\ batch' = NoBatch
  /\ pc' = "burstfinish"
  /\ UNCHANGED <<http, commands, log>>

-----------------------------------------------------------------------------
WorkerStep ==
  \/ Initialize \/ LoadTokenizer \/ TakeCommand \/ WaitOver
  \/ PlanBatch \/ PlanNothing \/ Execute \/ Sample \/ BeginSweep \/ NextRound
  \/ Speculate \/ CompleteBurst
  \/ \E c \in Clients : EmitPending(c) \/ EmitBurst(c) \/ Finish(c) \/ SweepOne(c)

HandlerStep(c) == Receive(c) \/ Closed(c)

Next ==
  \/ WorkerStep \/ Fail \/ Shut
  \/ \E c \in Clients : HandlerStep(c) \/ Reject(c) \/ Send(c) \/ Disconnect(c)

Spec == Init /\ [][Next]_vars

\* The worker's loop and the tasks of the runtime are scheduled.
FairSpec == Spec /\ WF_vars(WorkerStep) /\ \A c \in Clients : WF_vars(HandlerStep(c))

-----------------------------------------------------------------------------
(* Properties.                                                             *)

Events == {"delta", "undecodable", "done", "error"}

TypeOK ==
  /\ serving \in BOOLEAN
  /\ handler \in [Clients -> {"new", "open", "answered", "gone"}]
  /\ commands \in Seq(Clients)
  /\ \A c \in Clients : log[c] \in Seq(Events) /\ read[c] \in 0..Len(log[c])
  /\ sched.waiting \subseteq Clients /\ DOMAIN sched.chunks \subseteq Clients
  /\ \A c \in DOMAIN sched.chunks : sched.chunks[c] \in 1..Chunks
  /\ \A c \in DOMAIN sched.generated : sched.generated[c] \in 0..MaxNew[c]
  /\ batch.done \subseteq batch.prefill
  /\ pc \in {"init", "tokenizer", "drain", "wait", "run", "emit", "finish", "sweep",
              "burst", "burstfinish", "stopped"}

\* A client is told once how its request ended, and nothing after that.  Only
\* the failure to decode a token is reported in the middle, and then no text
\* follows it.
ToldOnce ==
  \A c \in Clients : \A i, j \in DOMAIN log[c] :
    i < j => /\ log[c][i] \notin {"done", "error"}
             /\ log[c][i] = "undecodable" => log[c][j] \in {"done", "error"}

\* The worker has a job for exactly the requests the scheduler has, but for
\* those that have just been completed; so no batch lacks its prompt, and no
\* request runs that nobody can be told about.
JobsKnown ==
  pc # "stopped" =>
    /\ DOMAIN jobs = sched.waiting \cup Running
                      \cup (IF pc \in {"finish", "burstfinish"} THEN local.todo ELSE {})
    /\ \A c \in sched.waiting : c \notin Running
    /\ DOMAIN sched.chunks \cap DOMAIN sched.generated = {}
    /\ \A c \in DOMAIN jobs : c \notin Range(commands)

\* The prompts that have had a chunk, and not their last.
MidPrompt == {c \in DOMAIN sched.chunks : sched.chunks[c] < Chunks}

\* Between batches a request that decodes has emitted just what the scheduler
\* counts, and has the next token waiting: pending[&id] never panics, and no
\* token is emitted twice or left out, speculative steps included.  A prompt
\* that is not through has at most a stray one there, and nothing of it is out.
PendingInStep ==
  pc \in {"drain", "wait", "run"} =>
    /\ DOMAIN pending = DOMAIN sched.generated \cup MidPrompt
    /\ \A c \in DOMAIN sched.generated :
         /\ pending[c] = sched.generated[c] + 1
         /\ jobs[c].out = [i \in 1..sched.generated[c] |-> i]
    /\ \A c \in MidPrompt : pending[c] = Stray /\ jobs[c].out = <<>>

\* Every token that goes out has its own log-probabilities with it, whether a
\* regular step sampled it or a verification row did.
ScoresAligned ==
  \A c \in DOMAIN jobs : jobs[c].scores = IF c \in Scored THEN jobs[c].out ELSE <<>>

\* The tokens the head is given are the last ones of the sequence it is to
\* draft for, up to the pending one; their place in it, position + 1 -
\* head_tokens.len(), is not before its first sampled token.
HeadInStep ==
  pc \in {"drain", "wait", "run"} =>
    \A c \in head.for \cap DOMAIN pending :
      LET n == Len(head.tokens)
      IN  /\ n \in 1..pending[c]
          /\ head.tokens = [i \in 1..n |-> pending[c] - n + i]

\* What is emitted stays within max_new_tokens, though a burst brings several
\* tokens at a time.
OutputBounded ==
  \A c \in DOMAIN jobs : Len(jobs[c].out) <= MaxNew[c]

\* The worker has a job for every request of the scheduler, and only for those.
RequestsKnown == TypeOK /\ JobsKnown

\* The worker's parallel accounts, `pending`, the outputs, their scores and the
\* tokens for the head, keep step with what the scheduler counts, in regular
\* and in speculative steps.
AccountsInStep == PendingInStep /\ ScoresAligned /\ HeadInStep /\ OutputBounded

\* A request that has been sent is answered, or its client hangs up: also when
\* the worker dies, while the command is still in the channel or later.
Answered == \A c \in Clients : handler[c] = "open" ~> handler[c] # "open"

\* What a client that is gone has in the engine is given up in the end.
Released == \A c \in Clients : IsClosed(c) ~> c \notin DOMAIN jobs

\* Once nobody can send any more the worker comes to its end.
WorkerEnds == ~serving /\ pc # "init" ~> pc = "stopped"

=============================================================================
