----------------------------- MODULE MCStartup -----------------------------
(* Startup on a few configurations, checkpoints and machines, for TLC.       *)
EXTENDS Startup, TLC

\* Each field away from a common configuration: a block size of 3, and of 0,
\* which passes for a power of two; a short budget, a short model length, nobody
\* allowed to run, more memory than there is.
MCConfigs ==
    LET base == [block_size : {0, 3, 16}, num_gpu_blocks : {0, 8}, max_num_seqs : {4},
                 max_num_batched_tokens : {33}, max_model_len : {4096},
                 backend : {"auto", "triton"}, device : {"cpu", "cuda"}, util : {9}]
        some == {c \in base : c.block_size = 16 /\ c.backend = "auto"}
    IN  base
        \cup {[c EXCEPT !.max_num_batched_tokens = 8] : c \in some}
        \cup {[c EXCEPT !.max_model_len = 100] : c \in some}
        \cup {[c EXCEPT !.max_num_seqs = 0] : c \in some}
        \cup {[c EXCEPT !.util = 12] : c \in some}

MCCheckpoints ==
    LET body == {"embed_tokens", "layers"}
    IN  [tied : BOOLEAN, rope_type : {"default", "yarn"}, max_position_embeddings : {64},
         files : {<<body>>, <<{"embed_tokens"}, {"layers", "lm_head"}>>,
                  <<body \cup {"inv_freq"}, {"layers", "lm_head"}>>, <<{"lm_head"}>>},
         torch_dtype : {"float16"}, weights : {100}, token_bytes : {1}]

\* A CPU machine, and GPUs that are shared, small or without triton.
MCMachines ==
    {[cuda |-> FALSE, installed |-> {}, total |-> 0, others |-> 0, activations |-> {},
      default_dtype |-> "float64"],
     [cuda |-> TRUE, installed |-> {"triton", "flash"}, total |-> 1000, others |-> 300,
      activations |-> {20, 165}, default_dtype |-> "float32"],
     [cuda |-> TRUE, installed |-> {"flash"}, total |-> 800, others |-> 10,
      activations |-> {99}, default_dtype |-> "float64"],
     [cuda |-> TRUE, installed |-> {}, total |-> 300, others |-> 0,
      activations |-> {297}, default_dtype |-> "float32"]}
=============================================================================
