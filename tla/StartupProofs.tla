--------------------------- MODULE StartupProofs ---------------------------
(***************************************************************************)
(* What LLMEngine.__init__ leaves behind, whatever the configurations, the  *)
(* checkpoints and the machines are: no attempt leaks the dtype it built in, *)
(* a model that is used is complete, the engine that came up has what is     *)
(* guaranteed of it, and a profiled pool is within its share.                *)
(***************************************************************************)
EXTENDS Startup, TLAPS

InputsOK == cfg \in Configs /\ ckpt \in Checkpoints /\ machine \in Machines

Built == stage \in {"weights", "profile", "cache", "ready"}
Sized == stage \in {"cache", "ready"}

\* The pool's size is the configured one, or what the rule of its device says.
SizeExact ==
    /\ num_blocks \in Nat \ {0}
    /\ Profiles => cfg.block_size # 0
    /\ Profiles /\ cfg.device = "cpu" =>
           num_blocks = Above(64, (cfg.max_model_len * 4) \div cfg.block_size)
    /\ Profiles /\ cfg.device = "cuda" =>
           /\ num_blocks = CacheBudget(peak) \div BlockBytes
           /\ peak - TmpBytes >= ckpt.weights

\* What each check that was passed has established.
StartupInv ==
    /\ InputsOK /\ peak \in Int
    /\ stage \notin {"config", "failed"} => cfg.max_num_batched_tokens >= cfg.block_size
    /\ Built => rope_rows = RopeRows
    /\ Sized => SizeExact

\* The numbers of this attempt.
LEMMA InputFacts ==
    ASSUME InputsOK
    PROVE  /\ cfg.num_gpu_blocks \in Nat /\ cfg.max_num_batched_tokens \in Nat
           /\ cfg.max_model_len \in Nat /\ cfg.util \in Nat /\ cfg.block_size \in Nat
           /\ ckpt.max_position_embeddings \in Nat /\ ckpt.weights \in Nat
           /\ ckpt.token_bytes \in Nat \ {0}
           /\ machine.total \in Nat /\ machine.others \in Nat /\ machine.activations \subseteq Nat
BY ConfigsAssumption, CheckpointsAssumption, MachinesAssumption DEF InputsOK

\* A quotient is the largest that fits.
LEMMA QuotientFits ==
    ASSUME NEW x \in Int, NEW d \in Nat \ {0}
    PROVE  /\ x \div d \in Int /\ (x \div d) * d \in Int
           /\ (x \div d) * d <= x /\ x < (x \div d) * d + d
OBVIOUS

LEMMA ProductOrder ==
    ASSUME NEW a \in Nat, NEW b \in Nat, NEW c \in Nat, a <= b
    PROVE  a * c \in Nat /\ b * c \in Nat /\ a * c <= b * c
OBVIOUS

\* Four times the longest request, rounded down to blocks but never below 64 of
\* them, holds one such request.
LEMMA CpuRuleSuffices ==
    ASSUME NEW l \in Nat, NEW d \in Nat \ {0}
    PROVE  /\ Above(64, (l * 4) \div d) \in Nat \ {0}
           /\ Above(64, (l * 4) \div d) * d >= l
<1> DEFINE q == (l * 4) \div d
           n == Above(64, q)
<1>1. l * 4 \in Nat  OBVIOUS
<1>2. q \in Int /\ q * d \in Int /\ l * 4 < q * d + d  BY <1>1, QuotientFits
<1> HIDE DEF q
<1>3. n \in Nat \ {0} /\ q <= n /\ 64 <= n  BY <1>2 DEF Above
<1> HIDE DEF n
<1>4. n * d >= q * d
  <2>1. CASE q \in Nat  BY <1>3, <2>1, ProductOrder
  <2>2. CASE q \notin Nat
    <3>1. q < 0 /\ q * d <= 0  BY <1>2, <2>2
    <3>2. n * d >= 0  BY <1>3
    <3> QED BY <1>2, <1>3, <3>1, <3>2
  <2> QED BY <2>1, <2>2
<1>5. n * d >= d  BY <1>3
<1>6. n * d \in Int  BY <1>3
<1>7. n * d >= l
  <2>1. l * 4 < n * d + n * d  BY <1>2, <1>4, <1>5, <1>6
  <2> QED BY <1>6, <2>1
<1> QED BY <1>3, <1>7 DEF n, q

-----------------------------------------------------------------------------
(* The inductive invariant.                                                  *)

LEMMA InitStartup ==
    ASSUME StartupInit
    PROVE  StartupInv
BY DEF StartupInit, StartupInv, InputsOK, Built, Sized

\* The numbers that profiling computes with, when blocks have a size.
LEMMA ByteFacts ==
    ASSUME InputsOK, cfg.block_size # 0
    PROVE  BlockBytes \in Nat \ {0} /\ TmpBytes \in Int /\ Share \in Int
<1>1. BlockBytes \in Nat \ {0}  BY InputFacts DEF BlockBytes
<1>2. TmpBlocks \in Int
  <2>1. cfg.max_num_batched_tokens + cfg.block_size - 1 \in Int  BY InputFacts
  <2> QED BY <2>1, InputFacts, QuotientFits DEF TmpBlocks
<1>3. machine.total * cfg.util \in Int  BY InputFacts
<1> QED BY <1>1, <1>2, <1>3, QuotientFits DEF TmpBytes, Share

\* Each way to size the pool leaves at least one block.
LEMMA ConfiguredSizes ==
    ASSUME InputsOK, peak \in Int, UseConfigured
    PROVE  SizeExact'
<1>1. /\ UNCHANGED <<inputs, peak>> /\ cfg.num_gpu_blocks # 0 /\ num_blocks' = cfg.num_gpu_blocks
  BY DEF UseConfigured, Profiles
<1>2. num_blocks' \in Nat \ {0}  BY <1>1, InputFacts
<1> QED BY <1>1, <1>2 DEF SizeExact, Profiles, inputs

LEMMA CpuSizes ==
    ASSUME InputsOK, peak \in Int, SizeForCpu
    PROVE  SizeExact'
<1> DEFINE n == Above(64, (cfg.max_model_len * 4) \div cfg.block_size)
<1>1. /\ UNCHANGED <<inputs, peak>> /\ cfg.block_size # 0 /\ cfg.device = "cpu" /\ num_blocks' = n
  BY DEF SizeForCpu
<1>2. n \in Nat \ {0}  BY <1>1, InputFacts, CpuRuleSuffices
<1> QED BY <1>1, <1>2 DEF SizeExact, Profiles, inputs

LEMMA ProfileSizes ==
    ASSUME InputsOK, Profile, stage' # "failed"
    PROVE  SizeExact'
<1>1. UNCHANGED inputs /\ cfg.block_size # 0 /\ cfg.device = "cuda"  BY DEF Profile
<1>2. PICK a \in machine.activations :
          /\ peak' = ckpt.weights + TmpBytes + a
          /\ num_blocks' = CacheBudget(ckpt.weights + TmpBytes + a) \div BlockBytes
          /\ num_blocks' >= 16
  BY DEF Profile, Continue
<1> DEFINE most == ckpt.weights + TmpBytes + a
<1>3. a \in Nat /\ BlockBytes \in Nat \ {0} /\ TmpBytes \in Int /\ Share \in Int
  BY <1>1, InputFacts, ByteFacts
<1>4. most \in Int /\ most - TmpBytes >= ckpt.weights  BY <1>3, InputFacts
<1> HIDE DEF most
<1>5. CacheBudget(most) \in Int  BY <1>3, <1>4, InputFacts DEF CacheBudget
<1>6. num_blocks' \in Nat \ {0}
  <2> DEFINE q == CacheBudget(most) \div BlockBytes
  <2>1. q \in Int  BY <1>3, <1>5, QuotientFits
  <2>2. num_blocks' = q /\ num_blocks' >= 16  BY <1>2 DEF most
  <2> HIDE DEF q
  <2> QED BY <2>1, <2>2
<1>7. peak' = most /\ num_blocks' = CacheBudget(peak') \div BlockBytes  BY <1>2 DEF most
<1>8. CacheBudget(peak)' = CacheBudget(peak') /\ BlockBytes' = BlockBytes /\ TmpBytes' = TmpBytes
  BY <1>1 DEF CacheBudget, Share, BlockBytes, TmpBytes, TmpBlocks, inputs
<1> QED BY <1>1, <1>4, <1>6, <1>7, <1>8 DEF SizeExact, Profiles, inputs

\* A step that moves on within an attempt, and does not size the pool.
LEMMA SizeKept ==
    ASSUME SizeExact, UNCHANGED <<inputs, poolVars>>
    PROVE  SizeExact'
BY DEF SizeExact, inputs, poolVars, Profiles, CacheBudget, Share, BlockBytes, TmpBytes, TmpBlocks

LEMMA StepStartup ==
    ASSUME StartupInv, [StartupNext]_startupVars
    PROVE  StartupInv'
<1>1. InputsOK /\ peak \in Int  BY DEF StartupInv
<1>2. ASSUME UNCHANGED <<inputs, peak>> PROVE InputsOK' /\ peak' \in Int /\ RopeRows' = RopeRows
  BY <1>1, <1>2 DEF InputsOK, inputs, RopeRows
<1>3. CASE Configure
  <2>1. stage' # "failed" => cfg.max_num_batched_tokens >= cfg.block_size
    BY <1>3 DEF Configure, Continue
  <2>2. UNCHANGED <<inputs, peak>> /\ stage' \in {"backend", "failed"}
    BY <1>3 DEF Configure, Continue, poolVars
  <2> QED BY <1>2, <2>1, <2>2 DEF StartupInv, Built, Sized, inputs
<1>4. CASE SelectBackend \/ BeginModel
  <2>1. /\ UNCHANGED <<inputs, peak>> /\ stage' \in {"model", "building", "failed"}
        /\ stage \notin {"config", "failed"}
    BY <1>4 DEF SelectBackend, BeginModel, Continue, poolVars
  <2> QED BY <1>2, <2>1 DEF StartupInv, Built, Sized, inputs
<1>5. CASE EndModel
  <2>1. /\ UNCHANGED <<inputs, peak>> /\ stage' \in {"weights", "failed"} /\ stage = "building"
        /\ rope_rows' = RopeRows
    BY <1>5 DEF EndModel, Continue, poolVars
  <2> QED BY <1>2, <2>1 DEF StartupInv, Built, Sized, inputs
<1>6. CASE LoadShard \/ CheckLoaded
  <2>1. /\ UNCHANGED <<inputs, peak, rope_rows>> /\ stage' \in {"weights", "profile", "failed"}
        /\ stage = "weights"
    BY <1>6 DEF LoadShard, CheckLoaded, Continue, poolVars
  <2> QED BY <1>2, <2>1 DEF StartupInv, Built, Sized, inputs
<1>7. CASE UseConfigured \/ SizeForCpu \/ Profile
  <2>1. UNCHANGED <<inputs, rope_rows>> /\ stage' \in {"cache", "failed"} /\ stage = "profile"
    BY <1>7 DEF UseConfigured, SizeForCpu, Profile, Continue
  <2>2. stage' # "failed" => SizeExact'
    BY <1>1, <1>7, ConfiguredSizes, CpuSizes, ProfileSizes
  <2>3. InputsOK' /\ RopeRows' = RopeRows  BY <1>1, <2>1 DEF InputsOK, inputs, RopeRows
  <2>4. peak' \in Int
    <3>1. CASE UseConfigured \/ SizeForCpu  BY <1>1, <3>1 DEF UseConfigured, SizeForCpu
    <3>2. CASE Profile
      <4>1. PICK a \in machine.activations : peak' = ckpt.weights + TmpBytes + a
        BY <3>2 DEF Profile
      <4>2. a \in Nat /\ ckpt.weights \in Nat /\ TmpBytes \in Int
        BY <1>1, <3>2, InputFacts, ByteFacts DEF Profile
      <4> QED BY <4>1, <4>2
    <3> QED BY <1>7, <3>1, <3>2
  <2> QED BY <2>1, <2>2, <2>3, <2>4 DEF StartupInv, Built, Sized, inputs
<1>8. CASE DivideByZero
  <2>1. UNCHANGED <<inputs, peak>> /\ stage' = "failed"  BY <1>8 DEF DivideByZero, poolVars
  <2> QED BY <1>2, <2>1 DEF StartupInv, Built, Sized
<1>9. CASE AllocateCache
  <2>1. /\ UNCHANGED <<inputs, poolVars, rope_rows>> /\ stage' \in {"ready", "failed"}
        /\ stage = "cache"
    BY <1>9 DEF AllocateCache, Continue
  <2>2. SizeExact'  BY <2>1, SizeKept DEF StartupInv, Sized
  <2>3. peak' = peak  BY <2>1 DEF poolVars
  <2> QED BY <1>2, <2>1, <2>2, <2>3 DEF StartupInv, Built, Sized, inputs
<1>10. CASE NextAttempt
  <2>1. InputsOK' /\ stage' = "config" /\ peak' \in Int  BY <1>1, <1>10 DEF NextAttempt, InputsOK
  <2> QED BY <2>1 DEF StartupInv, Built, Sized
<1>11. CASE UNCHANGED startupVars
  <2>1. UNCHANGED <<inputs, poolVars, stage, rope_rows>>  BY <1>11 DEF startupVars
  <2>2. SizeExact => SizeExact'  BY <2>1, SizeKept
  <2>3. peak' = peak  BY <2>1 DEF poolVars
  <2> QED BY <1>2, <2>1, <2>2, <2>3 DEF StartupInv, Built, Sized, inputs
<1> QED BY <1>3, <1>4, <1>5, <1>6, <1>7, <1>8, <1>9, <1>10, <1>11 DEF StartupNext

THEOREM StartupInvHolds == StartupSpec => []StartupInv
BY InitStartup, StepStartup, PTL DEF StartupSpec

-----------------------------------------------------------------------------
(* The properties.                                                           *)

\* load_model's try/finally: the process's default dtype is the one it started
\* with or float32, never the one that some attempt built a model in.
THEOREM BuildDtypeContainedHolds == StartupSpec => []BuildDtypeContained
<1>1. StartupInit => BuildDtypeContained  BY DEF StartupInit, BuildDtypeContained
<1>2. BuildDtypeContained /\ [StartupNext]_startupVars => BuildDtypeContained'
  <2> SUFFICES ASSUME BuildDtypeContained, [StartupNext]_startupVars
               PROVE  BuildDtypeContained'
    OBVIOUS
  <2>1. CASE BeginModel  BY <2>1 DEF BeginModel, BuildDtypeContained
  <2>2. CASE EndModel    BY <2>2 DEF EndModel, Restored, BuildDtypeContained
  <2>3. CASE \/ Configure \/ SelectBackend \/ LoadShard \/ CheckLoaded
             \/ UseConfigured \/ DivideByZero \/ SizeForCpu \/ Profile
             \/ AllocateCache \/ NextAttempt
    <3>1. stage # "building" /\ UNCHANGED <<default_dtype, machine>>
      BY <2>3 DEF Configure, SelectBackend, LoadShard, CheckLoaded, UseConfigured, DivideByZero,
                  SizeForCpu, Profile, AllocateCache, NextAttempt, inputs
    <3> QED BY <3>1 DEF BuildDtypeContained
  <2>4. CASE UNCHANGED startupVars  BY <2>4 DEF startupVars, inputs, BuildDtypeContained
  <2> QED BY <2>1, <2>2, <2>3, <2>4 DEF StartupNext
<1> QED BY <1>1, <1>2, PTL DEF StartupSpec

\* load_weights: whatever the files are called and however the names are spread
\* over them, a model that goes on has every parameter from a file, and its
\* output projection from one or tied to the embedding.
THEOREM FullyLoadedHolds == StartupSpec => []FullyLoaded
<1>1. StartupInit => FullyLoaded  BY DEF StartupInit, FullyLoaded
<1>2. FullyLoaded /\ [StartupNext]_startupVars => FullyLoaded'
  <2> SUFFICES ASSUME FullyLoaded, [StartupNext]_startupVars
               PROVE  FullyLoaded'
    OBVIOUS
  <2>1. CASE CheckLoaded
    <3>1. UNCHANGED <<ckpt, loaded>> /\ (stage' = "profile" => Missing = {})
      BY <2>1 DEF CheckLoaded, Continue, inputs
    <3>2. ASSUME Missing = {}
          PROVE  {"embed_tokens", "layers"} \subseteq loaded /\ ("lm_head" \in loaded \/ ckpt.tied)
      BY <3>2 DEF Missing, Parameters
    <3>3. stage' \in {"profile", "failed"}  BY <2>1 DEF CheckLoaded, Continue
    <3> QED BY <3>1, <3>2, <3>3 DEF FullyLoaded
  <2>2. CASE UseConfigured \/ DivideByZero \/ SizeForCpu \/ Profile \/ AllocateCache
    <3>1. UNCHANGED <<ckpt, loaded>> /\ stage \in {"profile", "cache"}
      BY <2>2 DEF UseConfigured, DivideByZero, SizeForCpu, Profile, AllocateCache, inputs
    <3> QED BY <3>1 DEF FullyLoaded
  <2>3. CASE Configure \/ SelectBackend \/ BeginModel \/ EndModel \/ LoadShard \/ NextAttempt
    <3>1. stage' \notin {"profile", "cache", "ready"}
      BY <2>3 DEF Configure, SelectBackend, BeginModel, EndModel, LoadShard, NextAttempt, Continue
    <3> QED BY <3>1 DEF FullyLoaded
  <2>4. CASE UNCHANGED startupVars  BY <2>4 DEF startupVars, inputs, FullyLoaded
  <2> QED BY <2>1, <2>2, <2>3, <2>4 DEF StartupNext
<1> QED BY <1>1, <1>2, PTL DEF StartupSpec

\* An engine that comes up has a rotary row for every position it may be asked
\* for, a budget of at least a block, and on a CPU a pool for its longest request.
THEOREM ReadyGuaranteesHolds == StartupSpec => []ReadyGuarantees
<1>1. StartupInv => ReadyGuarantees
  <2> SUFFICES ASSUME StartupInv, stage = "ready"
               PROVE  /\ rope_rows >= cfg.max_model_len
                      /\ num_blocks > 0 /\ cfg.max_num_batched_tokens >= cfg.block_size
                      /\ cfg.device = "cpu" /\ Profiles =>
                            num_blocks * cfg.block_size >= cfg.max_model_len
    BY DEF ReadyGuarantees
  <2>1. /\ InputsOK /\ SizeExact /\ rope_rows = RopeRows
        /\ cfg.max_num_batched_tokens >= cfg.block_size
    BY DEF StartupInv, Built, Sized
  <2>2. rope_rows >= cfg.max_model_len  BY <2>1, InputFacts DEF RopeRows, Above
  <2>3. num_blocks > 0  BY <2>1 DEF SizeExact
  <2>4. ASSUME cfg.device = "cpu", Profiles
        PROVE  num_blocks * cfg.block_size >= cfg.max_model_len
    <3>1. /\ cfg.block_size # 0
          /\ num_blocks = Above(64, (cfg.max_model_len * 4) \div cfg.block_size)
      BY <2>1, <2>4 DEF SizeExact
    <3> QED BY <2>1, <3>1, InputFacts, CpuRuleSuffices
  <2> QED BY <2>1, <2>2, <2>3, <2>4
<1> QED BY <1>1, StartupInvHolds, PTL

\* However much the profiling pass was seen to need, the pool that it leaves room
\* for is within the configured share together with the rest, and if the share is
\* no more than the memory there is, the pool's allocation does not fail.
THEOREM ProfiledPoolAllocatesHolds == StartupSpec => []ProfiledPoolAllocates
<1>1. StartupInv => ProfiledPoolAllocates
  <2> SUFFICES ASSUME StartupInv, stage \in {"cache", "ready"}, cfg.device = "cuda", Profiles
               PROVE  /\ machine.others + num_blocks * BlockBytes + (peak - TmpBytes) <= Share
                      /\ cfg.util <= 10 => num_blocks * BlockBytes <= Available
    BY DEF ProfiledPoolAllocates
  <2> DEFINE room == CacheBudget(peak)
             pool == num_blocks * BlockBytes
             used == peak - TmpBytes
  <2>1. InputsOK /\ SizeExact /\ peak \in Int  BY DEF StartupInv, Sized
  <2>2. cfg.block_size # 0 /\ num_blocks = room \div BlockBytes /\ used >= ckpt.weights
    BY <2>1 DEF SizeExact
  <2>3. BlockBytes \in Nat \ {0} /\ TmpBytes \in Int /\ Share \in Int /\ used \in Int
    BY <2>1, <2>2, ByteFacts
  <2>4. room = Share - machine.others - used  BY DEF CacheBudget
  <2>5. room \in Int /\ machine.others \in Nat /\ ckpt.weights \in Nat
    BY <2>1, <2>3, <2>4, InputFacts
  <2> HIDE DEF room, used
  <2>6. pool \in Int /\ pool <= room  BY <2>2, <2>3, <2>5, QuotientFits
  <2> HIDE DEF pool
  <2>7. machine.others + pool + used <= Share  BY <2>3, <2>4, <2>5, <2>6
  <2>8. ASSUME cfg.util <= 10 PROVE pool <= Available
    <3>1. Share <= machine.total
      <4> DEFINE x == machine.total * cfg.util
      <4>1. x \in Nat /\ x <= machine.total * 10  BY <2>1, <2>8, InputFacts
      <4>2. Share = x \div 10  BY DEF Share
      <4> HIDE DEF x
      <4>3. Share * 10 <= x  BY <4>1, <4>2
      <4> QED BY <2>1, <2>3, <4>1, <4>3, InputFacts
    <3>2. machine.total \in Nat  BY <2>1, InputFacts
    <3> QED BY <2>2, <2>3, <2>5, <2>6, <2>7, <3>1, <3>2 DEF Available
  <2> QED BY <2>7, <2>8 DEF pool, used
<1> QED BY <1>1, StartupInvHolds, PTL
=============================================================================
