-------------------------- MODULE MCPipelineClaims --------------------------
(* The instance of MCPipeline, with what is said of it.                    *)
EXTENDS MCPipeline, PipelineClaims
=============================================================================
