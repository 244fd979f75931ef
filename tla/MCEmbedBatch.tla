---------------------------- MODULE MCEmbedBatch ----------------------------
(* Small instances of EmbedBatch. *)
EXTENDS EmbedBatch
=============================================================================
