-------------------------- MODULE MCStreamPipeline --------------------------
(***************************************************************************)
(* TLC instance of StreamPipeline: more chunks than buffers.                *)
(***************************************************************************)
EXTENDS StreamPipeline

=============================================================================
