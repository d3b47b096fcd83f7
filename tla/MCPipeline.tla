----------------------------- MODULE MCPipeline -----------------------------
(***************************************************************************)
(* Three batches: one output, none (everything filtered out), and two      *)
(* outputs, so that completions arrive out of order.                       *)
(***************************************************************************)
EXTENDS PipelineInvariant

MCOutputs == <<{"a"}, {}, {"a", "b"}>>
MCAllMarked == 1..3
\* A transaction of two batches carries its marker on the last one.
MCLastMarked == {2, 3}
=============================================================================
