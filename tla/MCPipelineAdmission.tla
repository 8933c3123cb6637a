-------------------------- MODULE MCPipelineAdmission --------------------------
(* A small repository for PipelineAdmission. *)
EXTENDS PipelineAdmission, TLC

CONSTANTS pathA, pathB, pathNested, textOne, textTwo, textCyclic, textBroken, baseA, baseB, firstClient, secondClient

\* The second commit breaks the first file, deletes the second and mends the one
\* in a subdirectory.
MCRepository == <<
  (pathA :> textOne @@ pathB :> textTwo @@ pathNested :> textCyclic),
  (pathA :> textCyclic @@ pathB :> Absent @@ pathNested :> textTwo) >>
\* The file in the subdirectory has the name of the first one.
MCBase == pathA :> baseA @@ pathB :> baseB @@ pathNested :> baseA
MCDirectory == <<pathA, pathB, pathNested>>

ClientSymmetry == Permutations(Clients)
====
