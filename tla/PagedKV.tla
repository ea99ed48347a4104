------------------------------ MODULE PagedKV ------------------------------
(***************************************************************************)
(* The physical KV cache (src/pagedllm/kv_cache.py) and what one forward    *)
(* pass does to it: the pending copies are applied, the scheduled tokens'   *)
(* keys and values are written through the slot mapping, and attention      *)
(* reads every earlier position of the same sequence through its block      *)
(* table (src/pagedllm/engine.py, src/pagedllm/model/llama.py).             *)
(*                                                                          *)
(* A slot's content is the token string it was computed from.  A token      *)
(* whose attention read anything but its own sequence's prefix yields Noise. *)
(***************************************************************************)
EXTENDS BlockManager

VARIABLE kv     \* KVCache.k_caches / v_caches: block -> offset -> content

kvVars  == <<bmVars, kv>>
Offsets == 0..(BlockSize - 1)
Noise   == <<>>     \* zeros, or a value computed from a wrong context

KVInit == kv = [b \in Blocks |-> [o \in Offsets |-> Noise]]

\* BlockManager.slot_mapping for one token position x (from 0).
Slot(s, x) == <<table[s][x \div BlockSize + 1], x % BlockSize>>

\* Fault: the copies are not made.
CopiesForgotten == kv

\* KVCache.apply_copies: every source is read before any destination is written.
AfterCopies ==
    [b \in Blocks |->
        IF \E i \in DOMAIN cow : cow[i][2] = b
        THEN kv[cow[CHOOSE i \in DOMAIN cow : cow[i][2] = b][1]]
        ELSE kv[b]]

\* The token string that ends with position x of s.
Context(s, x) == SubSeq(tokens[s], 1, x + 1)

NewPositions(s) == computed[s]..(computed[s] + num_new[s] - 1)
WrittenSlots(s) == {Slot(s, x) : x \in NewPositions(s)}

\* What attention finds behind s's new tokens is s's own prefix.
ReadsOwnPrefix(s) ==
    \A x \in 0..(computed[s] - 1) :
        /\ AfterCopies[Slot(s, x)[1]][Slot(s, x)[2]] = Context(s, x)
        /\ \A t \in Scheduled : Slot(s, x) \notin WrittenSlots(t)

\* KVCache.write for the whole batch, after the copies.
AfterForward ==
    [b \in Blocks |-> [o \in Offsets |->
        IF \E s \in Scheduled : <<b, o>> \in WrittenSlots(s)
        THEN LET s == CHOOSE s \in Scheduled : <<b, o>> \in WrittenSlots(s)
                 x == CHOOSE x \in NewPositions(s) : Slot(s, x) = <<b, o>>
             IN  IF ReadsOwnPrefix(s) THEN Context(s, x) ELSE Noise
        ELSE AfterCopies[b][o]]]

\* ModelRunner.run: the copies, then the writes, then attention.
Forward == TakePendingCopies /\ kv' = AfterForward

KVNext ==
    \/ PoolNext /\ UNCHANGED kv
    \/ MayRun /\ Forward

KVSpec == BMInit /\ KVInit /\ [][KVNext]_kvVars

-----------------------------------------------------------------------------
\* Memory as the next forward will find it.
Settled == IF phase = "schedule" THEN AfterCopies ELSE kv

\* Every position a sequence counts as computed holds the key and value of
\* exactly that sequence's prefix, whoever computed it and however often its
\* block was shared, copied, evicted or given out again.
KVFaithful ==
    \A s \in Seqs : \A x \in 0..(computed[s] - 1) :
        Settled[Slot(s, x)[1]][Slot(s, x)[2]] = Context(s, x)

\* Every cached block still holds what its hash promises, whether it is in use
\* or free, so a later hit needs no forward pass.
CacheFaithful ==
    \A h \in DOMAIN cached : \A o \in Offsets :
        kv[cached[h]][o] = SubSeq(h, 1, Len(h) - BlockSize + o + 1)
=============================================================================
