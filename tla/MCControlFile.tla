--------------------------- MODULE MCControlFile ---------------------------
(* Small instances of ControlFile for TLC. *)
EXTENDS ControlFile

MCControllers == {"sinr heuristic", "random heuristic", "file"}

\* The agent commands two of the cells and steers to one of them; a later
\* timestamp would be after the end.
MCAgentLines ==
  {l \in Line : /\ l.cell \in {1, 2} /\ l.at < MaxTime
                /\ l.kind = "TS" => l.cell = 1}
=============================================================================
