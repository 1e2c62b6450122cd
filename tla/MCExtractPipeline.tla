-------------------------- MODULE MCExtractPipeline --------------------------
(* An instance of ExtractPipeline small enough for TLC. *)
EXTENDS ExtractPipeline

\* A snapshot with a directory that has a file in it.
MCNodes == {"root", "dir", "file"}
MCUp == [n \in MCNodes |-> IF n = "root" THEN {} ELSE IF n = "dir" THEN {"root"}
                           ELSE {"root", "dir"}]
=============================================================================
