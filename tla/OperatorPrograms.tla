-------------------------- MODULE OperatorPrograms --------------------------
(***************************************************************************)
(* The two programs an operator runs by hand against a deployment, each a  *)
(* module of its own: nextcloud-chatgpt-diagnose against an account        *)
(* (DiagnosticsSmoke) and the release preflight against the public         *)
(* endpoints (ReleasePreflight).  A behaviour is one run of one of them;   *)
(* they share no state, and the variables of the other one are NotRun.     *)
(***************************************************************************)
EXTENDS Naturals

CONSTANTS MaxWrong, MaxFaulty  \* bounds of ReleasePreflight

VARIABLES program,  \* "diagnose" or "preflight"
          at, asked, result, failed_stages, remote, late, guarded, status,
          config, stage, passed, failed, outcome, answers

diagnosis == <<at, asked, result, failed_stages, remote, late, guarded, status>>
report == <<config, stage, passed, failed, outcome, answers>>
programsVars == <<program, diagnosis, report>>

Diagnose == INSTANCE DiagnosticsSmoke WITH failed <- failed_stages
Preflight == INSTANCE ReleasePreflight

ASSUME ProgramsAssumption == Preflight!PreflightAssumption

NotRun == "not run"

DiagnosisNotRun ==
  /\ at = NotRun /\ asked = NotRun /\ result = NotRun /\ failed_stages = NotRun
  /\ remote = NotRun /\ late = NotRun /\ guarded = NotRun /\ status = NotRun

PreflightNotRun ==
  /\ config = NotRun /\ stage = NotRun /\ passed = NotRun
  /\ failed = NotRun /\ outcome = NotRun /\ answers = NotRun

ProgramsInit ==
  \/ program = "diagnose" /\ Diagnose!Init /\ PreflightNotRun
  \/ program = "preflight" /\ Preflight!Init /\ DiagnosisNotRun

DiagnoseNext == program = "diagnose" /\ Diagnose!Next /\ UNCHANGED <<program, report>>
PreflightNext == program = "preflight" /\ Preflight!Next /\ UNCHANGED <<program, diagnosis>>

ProgramsNext == DiagnoseNext \/ PreflightNext

ProgramsSpec == ProgramsInit /\ [][ProgramsNext]_programsVars

-----------------------------------------------------------------------------
(* Properties, stated part by part in the modules of the programs. *)

\* A run of the diagnostics that exits with 0 left nothing in the account
\* and nothing on its way there; its exit status, its list of failed stages and
\* its flags agree with each other and with what was removed, and every stage
\* that was asked for is reported on (diagnostics.py:45-194, 298-342).
DiagnosisHonest ==
  program = "diagnose" =>
    /\ Diagnose!TypeOK /\ Diagnose!SuccessMeansClean /\ Diagnose!FailureNamed
    /\ Diagnose!CleanupHonest /\ Diagnose!EveryStageReported

\* The preflight passes exactly when every endpoint the configuration requires
\* has answered with all that a release needs, with every check under a name
\* of its own (release_preflight.py:204-313, submission/FINAL_CHECKLIST.md:46).
PreflightExact == program = "preflight" => Preflight!OkIsExact /\ Preflight!SeventeenChecks
=============================================================================
