----------------------------- MODULE Scheduler -----------------------------
(***************************************************************************)
(* The continuous-batching scheduler (src/pagedllm/scheduler.py) driving    *)
(* the block manager and the KV cache, with the engine's step loop and its  *)
(* request calls (LLMEngine.step, add_request, abort_request in engine.py). *)
(*                                                                          *)
(* One engine step is schedule, forward, update.  schedule is split at its  *)
(* loop iterations: `at` says which loop the scheduler is in, `todo` is     *)
(* what is left of the snapshot list(self.running).  The engine is          *)
(* single-threaded, so requests are added, aborted and forked only between  *)
(* two steps.                                                               *)
(***************************************************************************)
EXTENDS PagedKV

CONSTANTS
    MaxNumSeqs,              \* EngineConfig.max_num_seqs
    MaxNumBatchedTokens,     \* EngineConfig.max_num_batched_tokens
    EnableChunkedPrefill,    \* EngineConfig.enable_chunked_prefill
    MaxTokensChoices,        \* SamplingParams.max_tokens a client asks for
    StopTokens,              \* EOS and stop_token_ids
    ShareParams,             \* requests may be given one SamplingParams object
    AllowAbort,              \* the client may abort requests
    AllowFork                \* the client may fork running sequences

ASSUME BudgetAssumption == MaxNumBatchedTokens \in Nat /\ MaxNumBatchedTokens >= BlockSize
ASSUME BatchAssumption  == MaxNumSeqs \in Nat \ {0}
ASSUME ChoiceAssumption == MaxTokensChoices \subseteq Nat \ {0} /\ StopTokens \subseteq Tokens
ASSUME SwitchAssumption == {EnableChunkedPrefill, ShareParams, AllowAbort, AllowFork} \subseteq BOOLEAN

VARIABLES
    waiting,      \* Scheduler.waiting
    running,      \* Scheduler.running
    at,           \* "idle", "running", "preempting", "waiting" (schedule), "update"
    todo,         \* the rest of list(self.running) in schedule's first loop
    batch,        \* SchedulerOutput.scheduled: handles, with num_new
    preempted,    \* SchedulerOutput.preempted, as a set
    budget,       \* schedule's local token budget
    status,       \* Sequence.status; "UNUSED" before the first request
    prompt_len,   \* Sequence.num_prompt_tokens
    sp,           \* Sequence.sampling_params: the handle whose request made the object
    max_tokens,   \* SamplingParams.max_tokens of the object a handle made
    asked         \* the max_tokens the object had when the request was submitted

queueVars   == <<waiting, running>>
stepVars    == <<at, todo, batch, preempted, budget>>
requestVars == <<status, prompt_len, sp, max_tokens, asked>>
vars        == <<kvVars, queueVars, stepVars, requestVars>>

Lower(a, b)    == IF a < b THEN a ELSE b
Generated(s)   == NumTokens(s) - prompt_len[s]
Uncomputed(s)  == NumTokens(s) - computed[s]
HasUnfinished  == waiting # <<>> \/ running # <<>>

Init ==
    /\ BMInit /\ KVInit
    /\ waiting = <<>> /\ running = <<>>
    /\ at = "idle" /\ todo = <<>> /\ batch = <<>> /\ preempted = {} /\ budget = 0
    /\ status     = [s \in Seqs |-> "UNUSED"]
    /\ prompt_len = [s \in Seqs |-> 0]
    /\ sp         = [s \in Seqs |-> s]
    /\ max_tokens = [s \in Seqs |-> 0]
    /\ asked      = [s \in Seqs |-> 0]

-----------------------------------------------------------------------------
(* Requests, between two steps.                                              *)

\* max_tokens after Scheduler.add has looked at a prompt of length len.
Clamped(len, m) ==
    IF len + m > MaxModelLen
    THEN IF MaxModelLen - len > 1 THEN MaxModelLen - len ELSE 1
    ELSE m

\* Scheduler.add's checks: it raises and the request does not enter.
Acceptable(p) ==
    /\ Len(p) < MaxModelLen
    /\ EnableChunkedPrefill \/ Len(p) <= MaxNumBatchedTokens

\* o is the handle whose SamplingParams object the request carries: its own,
\* made with max_tokens = m, or that of another live request.
AddRequest(s, p, o, m) ==
    /\ at = "idle"
    /\ Acceptable(p)
    /\ Add(s, p)
    /\ IF o = s
       THEN \A t \in Seqs : InUse(t) => sp[t] # s
       ELSE ShareParams /\ InUse(o) /\ sp[o] = o /\ m = max_tokens[o]
    /\ sp'         = [sp EXCEPT ![s] = o]
    /\ asked'      = [asked EXCEPT ![s] = m]
    /\ max_tokens' = [max_tokens EXCEPT ![o] = Clamped(Len(p), m)]
    /\ prompt_len' = [prompt_len EXCEPT ![s] = Len(p)]
    /\ status'     = [status EXCEPT ![s] = "WAITING"]
    /\ waiting'    = Append(waiting, s)
    /\ UNCHANGED <<kv, running, stepVars>>

\* The engine drops its record of a request that ended.
Forget(s) ==
    /\ prompt_len' = [prompt_len EXCEPT ![s] = 0]
    /\ asked'      = [asked EXCEPT ![s] = 0]

AbortRequest(s) ==
    /\ at = "idle" /\ AllowAbort
    /\ InUse(s)
    /\ AbortBlocks(s)
    /\ waiting' = Without(waiting, {s})
    /\ running' = Without(running, {s})
    /\ status'  = [status EXCEPT ![s] = "FINISHED_ABORTED"]
    /\ Forget(s)
    /\ UNCHANGED <<kv, stepVars, sp, max_tokens>>

\* BlockManager.fork followed by what its caller does: the child joins the
\* running sequences with sampling parameters of its own.
ForkRequest(p, c, ts, m) ==
    /\ at = "idle" /\ AllowFork
    /\ p \in Range(running) /\ ~InUse(c)
    /\ ts \in Branches(p)
    /\ \A t \in Seqs : InUse(t) => sp[t] # c
    /\ ForkBlocks(p, c, ts)
    /\ running'    = Append(running, c)
    /\ status'     = [status EXCEPT ![c] = "RUNNING"]
    /\ prompt_len' = [prompt_len EXCEPT ![c] = Len(ts)]
    /\ sp'         = [sp EXCEPT ![c] = c]
    /\ max_tokens' = [max_tokens EXCEPT ![c] = m]
    /\ asked'      = [asked EXCEPT ![c] = m]
    /\ UNCHANGED <<kv, waiting, stepVars>>

-----------------------------------------------------------------------------
(* schedule, first loop: every running sequence gets its next tokens.        *)

StartStep ==
    /\ at = "idle" /\ HasUnfinished
    /\ at'     = "running"
    /\ todo'   = running
    /\ budget' = MaxNumBatchedTokens
    /\ UNCHANGED <<kvVars, queueVars, batch, preempted, requestVars>>

RunningLoop == at = "running" /\ todo # <<>> /\ budget > 0

RunningDone ==
    /\ at = "running"
    /\ todo = <<>> \/ budget = 0
    /\ at'   = "waiting"
    /\ todo' = <<>>
    /\ UNCHANGED <<kvVars, queueVars, batch, preempted, budget, requestVars>>

\* Preempted earlier in this step, or too long for what is left of the budget.
Skipped(s) ==
    \/ s \in preempted
    \/ Uncomputed(s) > budget /\ ~EnableChunkedPrefill

SkipRunning ==
    /\ RunningLoop
    /\ Skipped(Head(todo))
    /\ todo' = Tail(todo)
    /\ UNCHANGED <<kvVars, queueVars, at, batch, preempted, budget, requestVars>>

ScheduleRunning ==
    LET s == Head(todo)
        n == Lower(Uncomputed(s), budget)
    IN  /\ RunningLoop
        /\ ~Skipped(s)
        /\ ContinueBlocks(s, n)
        /\ budget' = budget - n
        /\ batch'  = Append(batch, s)
        /\ todo'   = Tail(todo)
        /\ UNCHANGED <<kv, queueVars, at, preempted, requestVars>>

\* allocate_slots returns None, with or without a roll-back: preempt.
RunningExhausted ==
    LET s == Head(todo)
        n == Lower(Uncomputed(s), budget)
    IN  /\ RunningLoop
        /\ ~Skipped(s)
        /\ \/ AllocateRefused(s, n, <<>>) /\ UNCHANGED bmVars
           \/ RollBackBlocks(s, n)
        /\ at' = "preempting"
        /\ UNCHANGED <<kv, queueVars, todo, batch, preempted, budget, requestVars>>

\* Fault: the oldest running sequence is preempted.
OldestVictim == Head(running)

\* Fault: a preempted sequence goes to the end of the queue.
PutLast(victim) == Append(waiting, victim)

Victim          == Last(running)
PutBack(victim) == <<victim>> \o waiting

\* The victim is the last running sequence.  When that is the sequence being
\* scheduled the loop moves on, otherwise it tries again.
PreemptTail ==
    LET victim == Victim
    IN  /\ at = "preempting"
        /\ PreemptBlocks(victim)
        /\ running'   = Without(running, {victim})
        /\ waiting'   = PutBack(victim)
        /\ preempted' = preempted \cup {victim}
        /\ status'    = [status EXCEPT ![victim] = "WAITING"]
        /\ todo'      = IF victim = Head(todo) THEN Tail(todo) ELSE todo
        /\ at'        = "running"
        /\ UNCHANGED <<kv, batch, budget, prompt_len, sp, max_tokens, asked>>

-----------------------------------------------------------------------------
(* schedule, second loop: waiting sequences are admitted in FIFO order.      *)

AdmissionOpen ==
    /\ at = "waiting"
    /\ waiting # <<>>
    /\ budget > 0
    /\ Len(running) < MaxNumSeqs

\* Fault: the first chunk is not cut to the budget.
WholePrompt(s, k) == NumTokens(s) - k * BlockSize

\* Fault: admission always waits for a budget that fits the whole request.
FitsWhole(s, k) == NumTokens(s) - k * BlockSize <= budget

\* Fault: a prompt is admitted in pieces although chunking is off.
FitsAlways(s, k) == TRUE

FirstChunk(s, k) == Lower(NumTokens(s) - k * BlockSize, budget)

FitsBudget(s, k) == EnableChunkedPrefill \/ NumTokens(s) - k * BlockSize <= budget

AdmitWaiting ==
    LET s == Head(waiting)
    IN  /\ AdmissionOpen
        /\ \E k \in 0..MaxModelLen :
              /\ FitsBudget(s, k)
              /\ AdmitBlocks(s, FirstChunk(s, k), k)
              /\ budget' = budget - FirstChunk(s, k)
        /\ waiting' = Tail(waiting)
        /\ running' = Append(running, s)
        /\ batch'   = Append(batch, s)
        /\ status'  = [status EXCEPT ![s] = "RUNNING"]
        /\ UNCHANGED <<kv, at, todo, preempted, prompt_len, sp, max_tokens, asked>>

\* The head of the queue cannot be admitted: it stays there, first.
AdmissionBlocked ==
    LET s == Head(waiting)
    IN  \E k \in 0..MaxModelLen :
            /\ IsLongestHit(s, k)
            /\ FitsBudget(s, k) =>
                  AllocateRefused(s, FirstChunk(s, k), GetComputedBlocks(s, k))

ScheduleDone ==
    /\ at = "waiting"
    /\ AdmissionOpen => AdmissionBlocked

\* step returns without a forward.
EmptyStep ==
    /\ ScheduleDone /\ batch = <<>>
    /\ at' = "idle" /\ preempted' = {} /\ budget' = 0
    /\ UNCHANGED <<kvVars, queueVars, todo, batch, requestVars>>

RunBatch ==
    /\ ScheduleDone /\ batch # <<>>
    /\ Forward
    /\ at' = "update" /\ preempted' = {} /\ budget' = 0
    /\ UNCHANGED <<queueVars, todo, batch, requestVars>>

-----------------------------------------------------------------------------
(* update: the results are committed in batch order.                         *)

NextItem ==
    /\ batch' = Tail(batch)
    /\ at'    = IF Tail(batch) = <<>> THEN "idle" ELSE "update"
    /\ UNCHANGED <<kv, waiting, todo, preempted, budget, sp, max_tokens>>

Target(s)        == computed[s] + num_new[s]

\* Set when scheduled and read at update; a live sequence's tokens do not
\* change in between, so the model has no variable for it.
NeedsSampling(s) == Target(s) = NumTokens(s)

UpdateChunk ==
    LET s == Head(batch)
    IN  /\ at = "update"
        /\ ~NeedsSampling(s)
        /\ CommitWatermark(s, Target(s))
        /\ NextItem
        /\ UNCHANGED <<running, status, prompt_len, asked>>

\* Fault: the limit is compared before the token is counted.
LengthReachedLate(s) ==
    \/ Generated(s) >= max_tokens[sp[s]]
    \/ NumTokens(s) + 1 >= MaxModelLen

\* Fault: the last token a request may have is counted as if it were there.
LengthReachedEarly(s) ==
    \/ Generated(s) + 2 >= max_tokens[sp[s]]
    \/ NumTokens(s) + 2 >= MaxModelLen

\* The limit the request obeys, after one more token.
LengthReached(s) ==
    \/ Generated(s) + 1 >= max_tokens[sp[s]]
    \/ NumTokens(s) + 1 >= MaxModelLen

UpdateToken(t) ==
    LET s == Head(batch)
    IN  /\ at = "update"
        /\ NeedsSampling(s)
        /\ t \notin StopTokens
        /\ ~LengthReached(s)
        /\ CommitToken(s, Target(s), t)
        /\ NextItem
        /\ UNCHANGED <<running, status, prompt_len, asked>>

\* Fault: a finished sequence stays in the running list.
RunningKeepsFinished(s) == running

RunningAfterFinish(s) == Without(running, {s})

UpdateFinish(t) ==
    LET s == Head(batch)
    IN  /\ at = "update"
        /\ NeedsSampling(s)
        /\ t \in StopTokens \/ LengthReached(s)
        /\ CommitFinish(s, Target(s))
        /\ running' = RunningAfterFinish(s)
        /\ status'  = [status EXCEPT ![s] =
                          IF t \in StopTokens THEN "FINISHED_STOPPED" ELSE "FINISHED_LENGTH"]
        /\ Forget(s)
        /\ NextItem

-----------------------------------------------------------------------------
\* The max_tokens of the parameters o carries, or of those made for it now.
MaxTokensOf(o) == IF InUse(o) THEN {max_tokens[o]} ELSE MaxTokensChoices

Client ==
    \/ \E s, o \in Seqs, p \in Prompts :
          \E m \in MaxTokensOf(o) : AddRequest(s, p, o, m)
    \/ \E s \in Seqs : AbortRequest(s)
    \/ \E p, c \in Seqs, m \in MaxTokensChoices :
          \E ts \in Branches(p) : ForkRequest(p, c, ts, m)

\* One pass of the loop in LLMEngine.generate, iteration by iteration.
Step ==
    \/ StartStep
    \/ RunningDone \/ SkipRunning \/ ScheduleRunning
    \/ RunningExhausted \/ PreemptTail
    \/ AdmitWaiting \/ EmptyStep
    \/ RunBatch
    \/ UpdateChunk
    \/ \E t \in SampledTokens : UpdateToken(t) \/ UpdateFinish(t)

Next == Client \/ Step

Spec     == Init /\ [][Next]_vars
FairSpec == Spec /\ WF_vars(Step)

-----------------------------------------------------------------------------
(* Properties.                                                               *)

SchedulerTypeOK ==
    /\ waiting \in Seq(Seqs) /\ running \in Seq(Seqs)
    /\ at \in {"idle", "running", "preempting", "waiting", "update"}
    /\ todo \in Seq(Seqs) /\ batch \in Seq(Seqs)
    /\ preempted \subseteq Seqs
    /\ budget \in 0..MaxNumBatchedTokens
    /\ status \in [Seqs -> {"UNUSED", "WAITING", "RUNNING", "FINISHED_STOPPED",
                            "FINISHED_LENGTH", "FINISHED_ABORTED"}]
    /\ prompt_len \in [Seqs -> 0..MaxModelLen]
    /\ sp \in [Seqs -> Seqs]
    /\ max_tokens \in [Seqs -> Nat] /\ asked \in [Seqs -> Nat]

\* Every live request is in exactly one of the two queues, once, in the one its
\* status names, and no dead one holds blocks.
QueuesPartition ==
    /\ IsInjective(running \o waiting)
    /\ Range(running) = {s \in Seqs : status[s] = "RUNNING"}
    /\ Range(waiting) = {s \in Seqs : status[s] = "WAITING"}
    /\ \A s \in Seqs : InUse(s) <=> status[s] \in {"RUNNING", "WAITING"}
    /\ \A s \in Seqs : status[s] # "RUNNING" => table[s] = <<>> /\ computed[s] = 0

\* One row of the flat input per token that is computed in this step.
BatchRows == UNION {{s} \X (1..num_new[s]) : s \in Scheduled}

\* The batch is what the step scheduled, within the token budget; what a
\* scheduled sequence was given is never taken back.
BatchWithinBudget ==
    /\ Scheduled = Range(batch) /\ IsInjective(batch)
    /\ Range(batch) \subseteq Range(running)
    /\ Cardinality(BatchRows) <= MaxNumBatchedTokens

\* Over both loops of schedule, and whatever is preempted between them, no batch
\* is out of its budget and no step makes more sequences run than max_num_seqs,
\* unless forks had put them there before.
BatchWithinLimits ==
    [][/\ BatchWithinBudget'
       /\ at = "idle" \/ Len(running') <= MaxNumSeqs \/ Len(running') <= Len(running)]_vars

\* Without chunked prefill no prompt is split: whoever is scheduled, for the
\* first time or after a preemption, computes all its tokens and samples.
UnchunkedWhole ==
    ~EnableChunkedPrefill => \A s \in Scheduled : Target(s) = NumTokens(s)

\* Admission, preemption and re-admission never let a later request overtake
\* an earlier one: running followed by waiting keeps its order.
Order == running \o waiting

FIFO == [][Retain(Order', Range(Order)) = Retain(Order, Range(Order'))]_vars

\* Preemption is lossless: whatever happens to a live request's blocks, its
\* tokens are only ever extended, by one at a time.
Lossless ==
    [][\A s \in Seqs : InUse(s) /\ InUse(s)' =>
          \/ tokens'[s] = tokens[s]
          \/ \E t \in Tokens : tokens'[s] = Append(tokens[s], t)]_vars

\* A request that ends by length has generated what its client asked for, cut
\* only by the model length.
LengthAsAsked ==
    [][\A s \in Seqs :
          status[s] = "RUNNING" /\ status'[s] = "FINISHED_LENGTH" =>
              Generated(s) + 1 = Clamped(prompt_len[s], asked[s])]_vars

\* While a request is unfinished a step computes something.
StepsMakeProgress == ~(ScheduleDone /\ batch = <<>>)

\* The strengthening that makes the invariants above inductive.  The batch is
\* what was scheduled, and a running sequence has computed something or is about
\* to.
BatchExact ==
    /\ Scheduled = Range(batch) /\ IsInjective(batch)
    /\ Range(batch) \subseteq Range(running)
    /\ \A s \in Range(running) : computed[s] + num_new[s] > 0

StageExact ==
    /\ phase = "update" <=> at = "update"
    /\ at = "update" <=> (batch # <<>> /\ at \notin {"running", "preempting", "waiting"})
    /\ at \in {"idle", "update"} => preempted = {}

\* The first m running sequences have had their turn.  What is left of the
\* snapshot is the rest of them, followed by victims.
Passed(m) ==
    /\ Len(running) - m <= Len(todo)
    /\ \A i \in DOMAIN todo :
          IF m + i <= Len(running) THEN todo[i] = running[m + i] ELSE todo[i] \in preempted

Looping == at \in {"running", "preempting"}

\* So the victim, the last running sequence, is never one already scheduled.
SnapshotExact ==
    /\ ~Looping => todo = <<>>
    /\ Looping =>
          /\ \E m \in 0..Len(running) : Passed(m)
          /\ IsInjective(todo)
          /\ Range(todo) \cap Range(batch) = {} /\ preempted \cap Range(running) = {}
    /\ at = "preempting" => todo # <<>> /\ Head(todo) \notin preempted

SchedInv ==
    /\ SchedulerTypeOK /\ QueuesPartition /\ UnchunkedWhole
    /\ BatchExact /\ StageExact /\ SnapshotExact

\* Every request that is submitted ends.
EveryRequestEnds == \A s \in Seqs : InUse(s) ~> ~InUse(s)
=============================================================================
