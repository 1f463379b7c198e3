-------------------------- MODULE MCPipelineStacks --------------------------
(* Small pipelines of PipelineStacks.                                        *)
EXTENDS PipelineStacks

\* One branch of dependent stacks.
Modeling == {"DataProcessing", "DataModelingRedshift", "Reporting"}
Processing == {"DataProcessing", "DataModelingRedshift"}

\* Two branches.
TwoBranches == {"DataProcessing", "DataModelingRedshift", "Ingestion"}
Ingesting == {"Ingestion", "DataProcessing"}
=============================================================================
