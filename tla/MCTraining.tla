----------------------------- MODULE MCTraining -----------------------------
EXTENDS Training

(* gpt2/main.cc saves no optimizer, llama3/main.cc does. *)
MCOptions == {[optimizer |-> "sgd", scheduler |-> FALSE],
              [optimizer |-> "adam", scheduler |-> TRUE]}
=============================================================================
