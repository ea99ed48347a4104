------------------------------ MODULE Startup ------------------------------
(***************************************************************************)
(* How LLMEngine.__init__ (src/pagedllm/engine.py) comes to a model and a   *)
(* pool: it validates the configuration, picks the attention backend,       *)
(* builds the model under a temporary default dtype, loads the checkpoint   *)
(* shard by shard, sizes the pool, and allocates it.  Any of these can      *)
(* raise; the process may then try again with something else, and what an   *)
(* attempt changed for the whole process is still changed.                  *)
(*                                                                          *)
(* Parameter names are abstracted to groups, memory to integers.  What the   *)
(* profiling pass needs beyond the weights and its cache is any number the   *)
(* machine may show; nothing is assumed of what other passes need.           *)
(***************************************************************************)
EXTENDS Integers, Sequences, FiniteSets

CONSTANTS
    Configs,        \* EngineConfig: see MCStartup for the fields
    Checkpoints,    \* config.json and the names in each *.safetensors, in order
    Machines        \* what torch.cuda, the imports and the process's default dtype are

ASSUME ConfigsAssumption ==
    \A c \in Configs :
        {c.block_size, c.num_gpu_blocks, c.max_num_seqs, c.max_num_batched_tokens,
         c.max_model_len, c.util} \subseteq Nat
ASSUME CheckpointsAssumption ==
    \A k \in Checkpoints :
        {k.max_position_embeddings, k.weights} \subseteq Nat /\ k.token_bytes \in Nat \ {0}
ASSUME MachinesAssumption ==
    \A m \in Machines : {m.total, m.others} \cup m.activations \subseteq Nat

VARIABLES
    cfg, ckpt, machine,     \* this attempt's inputs
    stage,
    backend,                \* select_backend's choice
    default_dtype,          \* torch.get_default_dtype()
    rope_rows,              \* rows of the rotary tables
    shards,                 \* files not yet read
    loaded,                 \* parameters copied from a file
    peak,                   \* max_memory_allocated of the profiling pass
    num_blocks

inputs      == <<cfg, ckpt, machine>>
poolVars    == <<peak, num_blocks>>
startupVars == <<inputs, stage, backend, default_dtype, rope_rows, shards, loaded, poolVars>>

Above(a, b) == IF a < b THEN b ELSE a

StartupInit ==
    /\ cfg \in Configs /\ ckpt \in Checkpoints /\ machine \in Machines
    /\ stage = "config" /\ backend = "none" /\ default_dtype = machine.default_dtype
    /\ rope_rows = 0 /\ shards = <<>> /\ loaded = {} /\ peak = 0 /\ num_blocks = 0

Continue(ok, next) == stage' = IF ok THEN next ELSE "failed"

-----------------------------------------------------------------------------
\* block_size & (block_size - 1) is 0: so it is for 0.
OneBit(n) == n = 0 \/ \E k \in 0..n : n = 2 ^ k

\* EngineConfig.__post_init__
Configure ==
    /\ stage = "config"
    /\ Continue(OneBit(cfg.block_size) /\ cfg.max_num_batched_tokens >= cfg.block_size, "backend")
    /\ UNCHANGED <<inputs, backend, default_dtype, rope_rows, shards, loaded, poolVars>>

Usable(name) == name = "torch" \/ name \in machine.installed

\* select_backend: "auto" takes the first that is installed where there is a GPU.
SelectBackend ==
    LET name == IF cfg.backend # "auto" THEN cfg.backend
                ELSE IF machine.cuda /\ "triton" \in machine.installed THEN "triton"
                ELSE IF machine.cuda /\ "flash" \in machine.installed THEN "flash"
                ELSE "torch"
    IN  /\ stage = "backend"
        /\ backend' = name
        /\ Continue(Usable(name), "model")
        /\ UNCHANGED <<inputs, default_dtype, rope_rows, shards, loaded, poolVars>>

\* The default dtype is that of the model while the model is built.
BeginModel ==
    /\ stage = "model"
    /\ stage' = "building" /\ default_dtype' = ckpt.torch_dtype
    /\ UNCHANGED <<inputs, backend, rope_rows, shards, loaded, poolVars>>

\* Fault: the default dtype is restored when the model was built.
RestoredOnSuccess(built) == IF built THEN "float32" ELSE default_dtype

\* finally: float32, whatever the default was before.
Restored(built) == "float32"

\* Fault: the rotary tables have the checkpoint's length.
RopeOfCheckpoint == ckpt.max_position_embeddings

RopeRows == Above(ckpt.max_position_embeddings, cfg.max_model_len)

\* RotaryEmbedding knows two rope types, and the device must be there.
Buildable ==
    /\ ckpt.rope_type \in {"default", "llama3"}
    /\ cfg.device = "cpu" \/ machine.cuda

\* LlamaForCausalLM is built or raises; either way the default dtype is set.
EndModel ==
    LET built == Buildable
    IN  /\ stage = "building"
        /\ default_dtype' = Restored(built)
        /\ rope_rows' = RopeRows
        /\ shards' = ckpt.files
        /\ Continue(built, "weights")
        /\ UNCHANGED <<inputs, backend, loaded, poolVars>>

\* named_parameters lists a tied weight once, under its first name.
Parameters == {"embed_tokens", "layers"} \cup (IF ckpt.tied THEN {} ELSE {"lm_head"})

LoadShard ==
    LET names == Head(shards)
    IN  /\ stage = "weights" /\ shards # <<>>
        /\ Continue(names \subseteq Parameters \cup {"inv_freq"}, "weights")
        /\ shards' = Tail(shards)
        /\ loaded' = loaded \cup (names \cap Parameters)
        /\ UNCHANGED <<inputs, backend, default_dtype, rope_rows, poolVars>>

\* Fault: the output projection may always be missing.
MissingBody == Parameters \ (loaded \cup {"lm_head"})

Missing == (Parameters \ loaded) \ (IF ckpt.tied THEN {"lm_head"} ELSE {})

CheckLoaded ==
    /\ stage = "weights" /\ shards = <<>>
    /\ Continue(Missing = {}, "profile")
    /\ UNCHANGED <<inputs, backend, default_dtype, rope_rows, shards, loaded, poolVars>>

-----------------------------------------------------------------------------
(* Memory.  The model's weights, and what other processes hold, are there    *)
(* for good.                                                                 *)
BlockBytes == cfg.block_size * ckpt.token_bytes
TmpBlocks  == (cfg.max_num_batched_tokens + cfg.block_size - 1) \div cfg.block_size
TmpBytes   == TmpBlocks * BlockBytes
Share      == (machine.total * cfg.util) \div 10
Available  == machine.total - machine.others - ckpt.weights

\* Fault: what other processes hold counts as free.
BudgetOfWhole(most) == Share - (most - TmpBytes)

\* The share of the GPU that is left for the cache.
CacheBudget(most) == Share - machine.others - (most - TmpBytes)

\* The pool is sized by _profile_num_blocks (num_gpu_blocks is None or 0), which
\* divides by block_size on either device.
Profiles == cfg.num_gpu_blocks = 0

UseConfigured ==
    /\ stage = "profile" /\ ~Profiles
    /\ num_blocks' = cfg.num_gpu_blocks /\ stage' = "cache"
    /\ UNCHANGED <<inputs, backend, default_dtype, rope_rows, shards, loaded, peak>>

DivideByZero ==
    /\ stage = "profile" /\ Profiles /\ cfg.block_size = 0
    /\ stage' = "failed"
    /\ UNCHANGED <<inputs, backend, default_dtype, rope_rows, shards, loaded, poolVars>>

SizeForCpu ==
    /\ stage = "profile" /\ Profiles /\ cfg.block_size # 0 /\ cfg.device = "cpu"
    /\ num_blocks' = Above(64, (cfg.max_model_len * 4) \div cfg.block_size) /\ stage' = "cache"
    /\ UNCHANGED <<inputs, backend, default_dtype, rope_rows, shards, loaded, peak>>

\* One forward of max_num_batched_tokens tokens over a throwaway cache.
Profile ==
    /\ stage = "profile" /\ Profiles /\ cfg.block_size # 0 /\ cfg.device = "cuda"
    /\ \E a \in machine.activations :
          LET most == ckpt.weights + TmpBytes + a
              room == CacheBudget(most) \div BlockBytes
          IN  /\ peak' = most /\ num_blocks' = room
              /\ Continue(TmpBytes + a <= Available /\ room >= 16, "cache")
    /\ UNCHANGED <<inputs, backend, default_dtype, rope_rows, shards, loaded>>

AllocateCache ==
    /\ stage = "cache"
    /\ Continue(cfg.device = "cpu" \/ num_blocks * BlockBytes <= Available, "ready")
    /\ UNCHANGED <<inputs, backend, default_dtype, rope_rows, shards, loaded, poolVars>>

\* The process goes on after the attempt, with whatever default dtype there is.
NextAttempt ==
    /\ stage \in {"ready", "failed"}
    /\ cfg' \in Configs /\ ckpt' \in Checkpoints /\ machine' = machine
    /\ stage' = "config" /\ backend' = "none"
    /\ rope_rows' = 0 /\ shards' = <<>> /\ loaded' = {} /\ peak' = 0 /\ num_blocks' = 0
    /\ UNCHANGED default_dtype

StartupNext ==
    \/ Configure \/ SelectBackend \/ BeginModel \/ EndModel
    \/ LoadShard \/ CheckLoaded
    \/ UseConfigured \/ DivideByZero \/ SizeForCpu \/ Profile
    \/ AllocateCache
    \/ NextAttempt

StartupSpec == StartupInit /\ [][StartupNext]_startupVars

-----------------------------------------------------------------------------
\* The dtype a model is built in never leaks out of an attempt, even one that
\* raises while building: the process's default is its own, or float32 (to
\* which loader.py:50 sets it, so a process with another default loses that).
BuildDtypeContained ==
    stage # "building" => default_dtype \in {machine.default_dtype, "float32"}

\* A model that is used was loaded completely: no parameter, the output
\* projection included, keeps its random initial value, however the names are
\* spread over the shards.
FullyLoaded ==
    stage \in {"profile", "cache", "ready"} =>
        /\ {"embed_tokens", "layers"} \subseteq loaded
        /\ "lm_head" \in loaded \/ ckpt.tied

\* What start-up ensures of an engine that comes up: every position below
\* max_model_len has a rotary row, there is a pool, a step has room for a block,
\* and a pool that the CPU rule sized holds the longest request.  It ensures
\* neither max_num_seqs >= 1 nor, with num_gpu_blocks given, block_size >= 1.
ReadyGuarantees ==
    stage = "ready" =>
        /\ rope_rows >= cfg.max_model_len
        /\ num_blocks > 0 /\ cfg.max_num_batched_tokens >= cfg.block_size
        /\ cfg.device = "cpu" /\ Profiles => num_blocks * cfg.block_size >= cfg.max_model_len

\* A pool that was sized by the profiling pass stays, with the weights, what
\* others hold and what that pass needed, in the configured share; and with a
\* share of at most all the memory its allocation does not fail.  (What a later
\* step needs is not measured: it samples, and its contexts may be longer.)
ProfiledPoolAllocates ==
    stage \in {"cache", "ready"} /\ cfg.device = "cuda" /\ Profiles =>
        /\ machine.others + num_blocks * BlockBytes + (peak - TmpBytes) <= Share
        /\ cfg.util <= 10 => num_blocks * BlockBytes <= Available
=============================================================================
