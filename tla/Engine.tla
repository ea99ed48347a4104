------------------------------- MODULE Engine -------------------------------
(***************************************************************************)
(* LLMEngine's request API (src/pagedllm/engine.py).  generate adds its     *)
(* prompts one by one, steps until nothing is unfinished, and takes its     *)
(* outputs out of _seqs in the order of the prompts.  The same engine may   *)
(* hold requests from add_request, and what a rejected call left behind.    *)
(*                                                                          *)
(* The engine is single-threaded: while a call is active nobody else adds,  *)
(* aborts or steps.  Of _seqs only the entries that the active call will    *)
(* read are modelled; the others are never read again.                      *)
(***************************************************************************)
EXTENDS Runner

CONSTANTS
    BadPrompts,     \* prompts that are rejected: empty, or too long
    MaxPrompts      \* bound on the prompts of one call

ASSUME CallAssumption ==
    /\ \A p \in BadPrompts : p = <<>> \/ ~Acceptable(p)
    /\ MaxPrompts \in Nat

VARIABLES
    call,       \* generate's locals: requests (zip of its arguments), whether they all
                \* carry one SamplingParams object, and ids; or NoCall
    final       \* token_ids of the call's requests that have ended

engineVars == <<runnerVars, call, final>>

NoCall     == <<>>
NoText     == [s \in Seqs |-> <<>>]
Calling    == call # NoCall
Owed       == IF Calling THEN Range(call.ids) ELSE {}

\* A request of a call: a prompt and the max_tokens it asks for.
Requests == (Prompts \cup BadPrompts) \X MaxTokensChoices

EngineInit == RunnerInit /\ call = NoCall /\ final = NoText

-----------------------------------------------------------------------------
\* add_request by a client that steps the engine itself, with parameters made
\* for the request.
Submit(s, p, m) ==
    /\ ~Calling
    /\ AddRequest(s, p, s, m)
    /\ UNCHANGED <<sampled, call, final>>

Cancel(s) ==
    /\ ~Calling
    /\ AbortRequest(s)
    /\ UNCHANGED <<sampled, call, final>>

\* Handles a request may get: s is not in use, nor is the object s made.
Free == {s \in Seqs : ~InUse(s) /\ \A t \in Seqs : InUse(t) => sp[t] # s}

\* The prompts come with a list of SamplingParams, or with one object for all.
\* The bound on handles: a call is made when there is one for each prompt.
Generate(requests, shared) ==
    /\ ~Calling /\ at = "idle"
    /\ Cardinality(Free) >= Len(requests)
    /\ shared => ShareParams /\ \A r \in Range(requests) : r[2] = requests[1][2]
    /\ call' = [requests |-> requests, shared |-> shared, ids |-> <<>>]
    /\ UNCHANGED <<runnerVars, final>>

Adding == Calling /\ Len(call.ids) < Len(call.requests)
NextRequest == call.requests[Len(call.ids) + 1]

IdsWith(s) == Append(call.ids, s)

\* The handle that made the object which the next request carries.
Owner(s) == IF call.shared /\ call.ids # <<>> THEN Head(call.ids) ELSE s

GenerateAdd(s) ==
    LET o == Owner(s)
    IN  /\ Adding
        /\ NextRequest[1] # <<>>
        /\ AddRequest(s, NextRequest[1], o, IF o = s THEN NextRequest[2] ELSE max_tokens[o])
        /\ call' = [call EXCEPT !.ids = IdsWith(s)]
        /\ UNCHANGED <<sampled, final>>

\* An exception leaves generate: what it added stays in the scheduler.
GenerateRaises ==
    /\ Adding
    /\ NextRequest[1] = <<>> \/ ~Acceptable(NextRequest[1])
    /\ call' = NoCall
    /\ UNCHANGED <<runnerVars, final>>

\* step, by the loop of generate or by the client.
EngineStep ==
    /\ ~Adding
    /\ RunnerStep
    /\ final' = [s \in Seqs |->
                    IF s \in Owed /\ InUse(s) /\ ~InUse(s)' THEN Append(tokens[s], sampled[s])
                    ELSE final[s]]
    /\ UNCHANGED call

Returning == Calling /\ ~Adding /\ at = "idle" /\ ~HasUnfinished

\* The outputs are popped from _seqs and given to the caller.
Return ==
    /\ Returning
    /\ call' = NoCall /\ final' = NoText
    /\ UNCHANGED runnerVars

-----------------------------------------------------------------------------
EngineClient ==
    \/ \E s \in Seqs, p \in Prompts, m \in MaxTokensChoices : Submit(s, p, m)
    \/ \E s \in Seqs : Cancel(s)
    \/ \E requests \in BoundedSeq(Requests, MaxPrompts), shared \in BOOLEAN :
          Generate(requests, shared)

CallStep ==
    \/ \E s \in Seqs : GenerateAdd(s)
    \/ GenerateRaises
    \/ Return

EngineNext == EngineClient \/ CallStep \/ EngineStep

\* generate runs to its end by itself.  Outside of a call the client is assumed
\* to step again and again while requests are unfinished, instead of making
\* rejected calls for ever.
Fairness   == WF_engineVars(CallStep) /\ SF_engineVars(EngineStep)
EngineSpec == EngineInit /\ [][EngineNext]_engineVars /\ Fairness

-----------------------------------------------------------------------------
\* What generate returns: for every prompt, in order, that prompt continued by
\* tokens each drawn from the model's distribution after the text so far, up to
\* a stop token or the length asked for, and the reason that is true of it.
\* It does not matter what else was in the engine, what was preempted, or what
\* an earlier rejected call left queued, as long as requests do not share a
\* SamplingParams object (ShareParams = FALSE).
Complete(s, p, m) ==
    LET out == final[s]
    IN  /\ SubSeq(out, 1, Len(p)) = p
        /\ Len(out) > Len(p)
        /\ \A n \in Len(p)..(Len(out) - 1) : out[n + 1] \in MayDraw(s, SubSeq(out, 1, n))
        /\ Range(SubSeq(out, Len(p) + 1, Len(out) - 1)) \cap StopTokens = {}
        /\ status[s] = IF Last(out) \in StopTokens THEN "FINISHED_STOPPED" ELSE "FINISHED_LENGTH"
        /\ status[s] = "FINISHED_LENGTH" => Len(out) - Len(p) = Clamped(Len(p), m)

OutputsAreDense ==
    Returning =>
        /\ Len(call.ids) = Len(call.requests)
        /\ \A i \in DOMAIN call.ids :
              Complete(call.ids[i], call.requests[i][1], call.requests[i][2])

\* Every call of generate comes back, with its outputs or with an exception,
\* whatever it found in the engine.
GenerateReturns == Calling ~> ~Calling
=============================================================================
