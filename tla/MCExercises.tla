---------------------------- MODULE MCExercises ----------------------------
(***************************************************************************)
(* The exercises: in each initial state one of the programs of Exercises   *)
(* starts, or a user of Rio, or one of the two tools, alone.               *)
(***************************************************************************)
EXTENDS Processes, Rio, Tools

allVars == <<procVars, rioVars, toolVars>>

\* Files of at most five bytes.
MCContents == UNION {[1..n -> {"a", "\n"}] : n \in 0..5}

MCInit ==
    \/ ProcInit /\ RioIdle /\ ToolIdle
    \/ ProcIdle /\ RioInit /\ ToolIdle
    \/ ProcIdle /\ RioIdle /\ ToolInit

MCNext ==
    \/ ProcNext /\ UNCHANGED <<rioVars, toolVars>>
    \/ RioNext /\ UNCHANGED <<procVars, toolVars>>
    \/ ToolNext /\ UNCHANGED <<procVars, rioVars>>

MCSpec ==
    MCInit /\ [][MCNext]_allVars /\ ProcFair /\ RioFair
=============================================================================
