------------------------------ MODULE Attempt -------------------------------
(***************************************************************************)
(* An attempt, by what its question is found to need.  Outside task-frame  *)
(* mode it is ClueLoop's.  In it, the parser gives it a frame, in a run    *)
(* that may be interrupted and replayed (FrameParser), and the results of  *)
(* its calls are read with that frame (EvidenceReading); TaskLoop is what  *)
(* it does with what they say.                                             *)
(*                                                                         *)
(* Once an attempt reads, the rest of the run's parsing is forgotten.      *)
(***************************************************************************)
EXTENDS ClueLoop, EvidenceReading

attemptVars == <<vars, parserVars, readingVars>>

AttemptInit == Init /\ ParserInit /\ ReadingInit

Framed == pc = "framed"

(* The question of a framed attempt is the one that was parsed last.       *)
Reads ==
    /\ Framed /\ stage = "idle" /\ process = "live" /\ parsed # <<>>
    /\ Opens(Last(parsed).frame)
    /\ process' = "live" /\ at' = 1 /\ store' = Nothing /\ file' = Nothing
    /\ parsed' = <<>> /\ replayed' = <<>> /\ resumes' = 0 /\ lost' = FALSE
    /\ UNCHANGED vars

AttemptNext ==
    \/ Next /\ UNCHANGED <<parserVars, readingVars>>
    \/ Framed /\ stage = "idle" /\ ParserNext /\ UNCHANGED <<vars, readingVars>>
    \/ Reads
    \/ ReadingStep /\ UNCHANGED <<vars, parserVars>>

AttemptSpec == AttemptInit /\ [][AttemptNext]_attemptVars
=============================================================================
