---------------------------- MODULE DenseEngine ----------------------------
(***************************************************************************)
(* What a client of the engine may rely on: the text of a request grows one *)
(* token at a time, each drawn from the model's distribution after that     *)
(* text, and ends at a stop token or at its length limit, or when its client *)
(* drops it; which of the three is kept as its finish_reason.  There are no  *)
(* blocks, no cache, no steps and no batches here, and no request sees       *)
(* another.  Runner.tla implements it.                                       *)
(***************************************************************************)
EXTENDS Integers, Sequences

CONSTANTS
    Seqs, Tokens, Prompts,
    StopTokens,
    MaxModelLen,
    MaxTokensChoices,
    MayDraw(_, _)       \* the tokens a request may get after a text

VARIABLES
    text,       \* prompt and generated tokens; <<>> when there is no request
    limit,      \* the length at which the request ends
    reason      \* RequestOutput.finish_reason of the last request, or "UNUSED"

denseVars == <<text, limit, reason>>

Least(a, b) == IF a < b THEN a ELSE b
Live(s)     == text[s] # <<>>

DenseInit ==
    /\ text  = [s \in Seqs |-> <<>>]
    /\ limit = [s \in Seqs |-> 0]
    /\ reason = [s \in Seqs |-> "UNUSED"]

Become(s, x, lim, why) ==
    /\ text'   = [text EXCEPT ![s] = x]
    /\ limit'  = [limit EXCEPT ![s] = lim]
    /\ reason' = [reason EXCEPT ![s] = why]

Submit(s, p, m) ==
    /\ ~Live(s)
    /\ Become(s, p, Least(Len(p) + m, MaxModelLen), "LIVE")

Extend(s, t) ==
    /\ Live(s)
    /\ t \in MayDraw(s, text[s]) \ StopTokens
    /\ Len(text[s]) + 1 < limit[s]
    /\ Become(s, Append(text[s], t), limit[s], "LIVE")

Finish(s, t) ==
    /\ Live(s)
    /\ t \in MayDraw(s, text[s])
    /\ t \in StopTokens \/ Len(text[s]) + 1 = limit[s]
    /\ Become(s, <<>>, 0, IF t \in StopTokens THEN "FINISHED_STOPPED" ELSE "FINISHED_LENGTH")

\* The client may drop a request at any time: that it ended so is what it sees.
Drop(s) == Live(s) /\ Become(s, <<>>, 0, "FINISHED_ABORTED")

\* A child starts with its parent's text, or leaves it with a token of its own.
Offshoots(p) ==
    {text[p]} \cup {Append(SubSeq(text[p], 1, n), t) : n \in 1..(Len(text[p]) - 1), t \in Tokens}

Split(p, c, x, m) ==
    /\ Live(p) /\ ~Live(c)
    /\ Become(c, x, Least(Len(x) + m, MaxModelLen), "LIVE")

DenseNext ==
    \E s \in Seqs :
        \/ \E p \in Prompts, m \in MaxTokensChoices : Submit(s, p, m)
        \/ \E t \in Tokens : Extend(s, t) \/ Finish(s, t)
        \/ Drop(s)
        \/ \E p \in Seqs, m \in MaxTokensChoices : \E x \in Offshoots(p) : Split(p, s, x, m)

DenseSpec == DenseInit /\ [][DenseNext]_denseVars
=============================================================================
