-------------------------- MODULE DiagnosticsSmoke --------------------------
(***************************************************************************)
(* nextcloud-chatgpt-diagnose (diagnostics.py): a run of stages against a  *)
(* real account, two of which write a temporary folder there and remove    *)
(* it in a finally block.  One step is one remote request, or one stage    *)
(* when nothing can go wrong inside it that the stage tells apart.         *)
(*                                                                         *)
(* A request is answered; or it fails; or it is done and its answer lost;  *)
(* or the client gives up on it and the server makes the folder later.     *)
(***************************************************************************)
VARIABLES at,       \* where the run stands
          asked,    \* the options --write-test and --v020-test
          result,   \* the flags of DiagnosticResult
          failed,   \* result.failed_stages
          remote,   \* remote[t]: what smoke test t has in the account
          late,     \* the tests whose folder the server has yet to make
          guarded,  \* created, in _run_write_smoke_test
          status    \* exit status of the process

vars == <<at, asked, result, failed, remote, late, guarded, status>>

Tests == {"write", "v020"}
Flags == {"ocs", "webdav", "write", "cleanup", "apps", "shares", "household",
          "household_cleanup"}

\* Init of DiagnosticResult: two flags are False, the others None.
Init ==
  /\ at = "ocs"
  /\ asked \in SUBSET Tests
  /\ result = [f \in Flags |-> IF f \in {"ocs", "webdav"} THEN "no" ELSE "none"]
  /\ failed = {}
  /\ remote = [t \in Tests |-> {}]
  /\ late = {} /\ guarded = FALSE /\ status = "running"

Set(flag, answer) == result' = [result EXCEPT ![flag] = answer]
Goto(step) == at' = step

-----------------------------------------------------------------------------
(* The server's side of a request. *)

\* What request s makes of the test's folder; nothing for a read.
Effect(s, has) ==
  CASE s \in {"w_mkcol", "h_mkcol"} -> has \union {"folder"}
    [] s = "h_folders" -> has \union {"inbox"}
    [] s \in {"w_put", "h_put"} -> has \union {"file"}
    [] s = "w_move" -> (has \ {"file"}) \union {"renamed"}
    [] s = "h_report" -> has \union {"report"}
    [] s \in {"w_delete", "w_cleanup", "h_cleanup"} -> {}
    [] OTHER -> has

\* It is refused when what it works on is not there.
Needs(s) ==
  CASE s \in {"w_put", "w_delete", "w_cleanup", "h_folders", "h_cleanup"} -> {"folder"}
    [] s \in {"w_get", "w_move"} -> {"file"}
    [] s = "h_put" -> {"inbox"}
    [] s = "w_stat" -> {"renamed"}
    [] OTHER -> {}

Doable(t, s) == Needs(s) \subseteq remote[t]
Does(t, s) == remote' = [remote EXCEPT ![t] = Effect(s, @)]

\* The client hears of an error, whatever the server did with request s.
Fails(t, s) ==
  \/ UNCHANGED <<remote, late>>
  \/ Doable(t, s) /\ Does(t, s) /\ UNCHANGED late
  \/ /\ s \in {"w_mkcol", "h_mkcol"}
     /\ late' = late \union {t}
     /\ UNCHANGED remote

LateFolder(t) ==
  /\ t \in late
  /\ remote' = [remote EXCEPT ![t] = @ \union {"folder"}]
  /\ late' = late \ {t}
  /\ UNCHANGED <<at, asked, result, failed, guarded, status>>

-----------------------------------------------------------------------------
(* The stages that only read. *)

WriteOrNot == IF "write" \in asked THEN "w_mkcol" ELSE "apps_or_not"

Ocs ==
  /\ at = "ocs"
  /\ Goto("webdav")
  /\ \/ Set("ocs", "yes") /\ UNCHANGED failed
     \/ failed' = failed \union {"ocs_capabilities"} /\ UNCHANGED result
  /\ UNCHANGED <<asked, remote, late, guarded, status>>

Webdav ==
  /\ at = "webdav"
  /\ Goto("native")
  /\ \/ Set("webdav", "yes") /\ UNCHANGED failed
     \/ failed' = failed \union {"webdav_read"} /\ UNCHANGED result
  /\ UNCHANGED <<asked, remote, late, guarded, status>>

\* A probe that fails says NativeMCPError, whatever went wrong, and is no
\* failed stage.
Native ==
  /\ at = "native"
  /\ Goto(WriteOrNot)
  /\ UNCHANGED <<asked, result, failed, remote, late, guarded, status>>

AppsOrNot ==
  /\ at = "apps_or_not"
  /\ Goto(IF "v020" \in asked THEN "apps" ELSE "exit")
  /\ UNCHANGED <<asked, result, failed, remote, late, guarded, status>>

StageFails(flag, stage, next) ==
  /\ Set(flag, "no") /\ failed' = failed \union {stage}
  /\ Goto(next)

Apps ==
  /\ at = "apps"
  /\ \/ Set("apps", "yes") /\ UNCHANGED failed /\ Goto("shares")
     \/ StageFails("apps", "app_access", "shares")
  /\ UNCHANGED <<asked, remote, late, guarded, status>>

\* The stage fails when the list names a path outside the root, too.
Shares ==
  /\ at = "shares"
  /\ \/ \E paths \in SUBSET {"root", "below", "outside", "none"} :
          IF "outside" \notin paths
          THEN Set("shares", "yes") /\ UNCHANGED failed /\ Goto("h_look")
          ELSE StageFails("shares", "root_shares", "h_look")
     \/ StageFails("shares", "root_shares", "h_look")
  /\ UNCHANGED <<asked, remote, late, guarded, status>>

-----------------------------------------------------------------------------
(* _run_write_smoke_test: create_folder, upload_file and move each ask for *)
(* the properties of what they made.                                       *)

WriteNext ==
  [w_mkcol |-> "w_stat_folder", w_stat_folder |-> "w_put", w_put |-> "w_stat_put",
   w_stat_put |-> "w_get", w_get |-> "w_move", w_move |-> "w_stat_moved",
   w_stat_moved |-> "w_stat", w_stat |-> "w_delete", w_delete |-> "apps_or_not"]

WriteStep(s) ==
  /\ at = s
  /\ Doable("write", s) /\ Does("write", s)
  /\ Goto(WriteNext[s])
  /\ guarded' = IF s = "w_stat_folder" THEN TRUE
                ELSE IF s = "w_delete" THEN FALSE ELSE guarded
  /\ result' = IF s = "w_delete"
               THEN [result EXCEPT !["write"] = "yes", !["cleanup"] = "yes"]
               ELSE result
  /\ UNCHANGED <<asked, failed, late, status>>

\* The finally block sets write_test_ok, run_diagnostics names the stage.
WriteFailed(flags) ==
  /\ result' = [flags EXCEPT !["write"] = "no"]
  /\ failed' = failed \union {"webdav_write"}
  /\ Goto("apps_or_not")

WriteBreaks(s) ==
  /\ at = s
  /\ Fails("write", s)
  /\ IF guarded THEN Goto("w_cleanup") /\ UNCHANGED <<result, failed>>
                ELSE WriteFailed(result)
  /\ UNCHANGED <<asked, guarded, status>>

WriteCleanup ==
  /\ at = "w_cleanup"
  /\ \/ Doable("write", at) /\ Does("write", at) /\ UNCHANGED late
        /\ WriteFailed([result EXCEPT !["cleanup"] = "yes"])
     \/ Fails("write", at) /\ WriteFailed([result EXCEPT !["cleanup"] = "no"])
  /\ UNCHANGED <<asked, guarded, status>>

-----------------------------------------------------------------------------
(* _run_v020_smoke_test: prepare_workspace looks for the folder before it  *)
(* makes it; h_folders stands for the folders below it.                    *)

HouseholdNext ==
  [h_look |-> "h_mkcol", h_mkcol |-> "h_stat", h_stat |-> "h_folders",
   h_folders |-> "h_put", h_put |-> "h_list", h_list |-> "h_review",
   h_review |-> "h_report", h_report |-> "h_again", h_again |-> "h_download",
   h_download |-> "h_exists"]

\* The list has the invoice and nothing else; the first review finds no
\* report, the second one does.
Expected(s) ==
  CASE s = "h_list" -> "file" \in remote["v020"]
    [] s = "h_review" -> "report" \notin remote["v020"]
    [] s \in {"h_again", "h_download"} -> "report" \in remote["v020"]
    [] OTHER -> TRUE

HouseholdStep(s) ==
  /\ at = s
  /\ Doable("v020", s) /\ Expected(s) /\ Does("v020", s)
  /\ Goto(HouseholdNext[s])
  /\ IF s = "h_download" THEN Set("household", "yes") ELSE UNCHANGED result
  /\ UNCHANGED <<asked, failed, late, guarded, status>>

HouseholdBreaks(s) ==
  /\ at = s
  /\ Fails("v020", s)
  /\ Goto("h_exists")
  /\ UNCHANGED <<asked, result, failed, guarded, status>>

HouseholdEnds(clean) ==
  LET passed == result["household"] = "yes"
  IN /\ result' = [result EXCEPT !["household"] = IF passed THEN "yes" ELSE "no",
                                 !["household_cleanup"] = clean]
     /\ failed' = failed \union (IF passed THEN {} ELSE {"household_invoice"})
                         \union (IF clean = "yes" THEN {} ELSE {"household_cleanup"})
     /\ Goto("exit")

HouseholdExists ==
  /\ at = "h_exists"
  /\ \/ "folder" \in remote["v020"] /\ Goto("h_cleanup") /\ UNCHANGED <<result, failed>>
     \/ "folder" \notin remote["v020"] /\ HouseholdEnds("yes")
     \/ HouseholdEnds("no")
  /\ UNCHANGED <<asked, remote, late, guarded, status>>

\* Faulty: an error of the delete is swallowed before the flag is set.
HouseholdCleanupSwallowed ==
  /\ at = "h_cleanup"
  /\ \/ Doable("v020", at) /\ Does("v020", at) /\ UNCHANGED late
     \/ Fails("v020", at)
  /\ HouseholdEnds("yes")
  /\ UNCHANGED <<asked, guarded, status>>

HouseholdCleanup ==
  /\ at = "h_cleanup"
  /\ \/ Doable("v020", at) /\ Does("v020", at) /\ UNCHANGED late /\ HouseholdEnds("yes")
     \/ Fails("v020", at) /\ HouseholdEnds("no")
  /\ UNCHANGED <<asked, guarded, status>>

-----------------------------------------------------------------------------
(* The end of main. *)

Successful ==
  /\ result["ocs"] = "yes" /\ result["webdav"] = "yes"
  /\ "write" \in asked => result["write"] = "yes"
  /\ "v020" \in asked =>
       \A f \in {"apps", "shares", "household", "household_cleanup"} : result[f] = "yes"

Exit ==
  /\ at = "exit" /\ status = "running"
  /\ status' = IF Successful THEN "zero" ELSE "one"
  /\ UNCHANGED <<at, asked, result, failed, remote, late, guarded>>

Program ==
  \/ Ocs \/ Webdav \/ Native \/ AppsOrNot \/ Apps \/ Shares
  \/ \E s \in DOMAIN WriteNext : WriteStep(s) \/ WriteBreaks(s)
  \/ WriteCleanup
  \/ \E s \in DOMAIN HouseholdNext : HouseholdStep(s) \/ HouseholdBreaks(s)
  \/ HouseholdExists \/ HouseholdCleanup
  \/ Exit

Next == Program \/ \E t \in Tests : LateFolder(t)

Spec == Init /\ [][Next]_vars

-----------------------------------------------------------------------------
(* Properties. *)

TypeOK ==
  /\ at \in {"ocs", "webdav", "native", "apps_or_not", "apps", "shares", "w_cleanup",
             "h_exists", "h_cleanup", "exit"}
            \union DOMAIN WriteNext \union DOMAIN HouseholdNext
  /\ asked \subseteq Tests /\ late \subseteq Tests /\ guarded \in BOOLEAN
  /\ result \in [Flags -> {"none", "yes", "no"}]
  /\ failed \subseteq {"ocs_capabilities", "webdav_read", "webdav_write", "app_access",
                       "root_shares", "household_invoice", "household_cleanup"}
  /\ remote \in [Tests -> SUBSET {"folder", "inbox", "file", "renamed", "report"}]
  /\ status \in {"running", "zero", "one"}

\* A run that exits with 0 (diagnostics.py:342) left nothing in the account,
\* and nothing is still on its way there, through every failure, lost answer
\* and late request of the two tests and their finally blocks.
SuccessMeansClean ==
  status = "zero" => \A t \in Tests : remote[t] = {} /\ t \notin late

\* The exit status and failed_stages never disagree: successful (45-63) is
\* computed from the flags, the list is appended to in seven other places
\* (86-158).
FailureNamed == status # "running" => (status = "one" <=> failed # {})

\* A flag that says the folder was removed (185-194, 298-309) says the truth;
\* for the household test when it got as far as its last check, as a folder
\* that the server makes late is only met by a test that already failed.
CleanupHonest ==
  /\ result["cleanup"] = "yes" => remote["write"] = {} /\ "write" \notin late
  /\ result["household_cleanup"] = "yes" /\ result["household"] = "yes" =>
       remote["v020"] = {} /\ "v020" \notin late

\* Whatever fails first, every stage that was asked for is reported on
\* (105-158): no flag of it stays None.
EveryStageReported ==
  status # "running" =>
    /\ "write" \in asked => result["write"] # "none"
    /\ "v020" \in asked =>
         \A f \in {"apps", "shares", "household", "household_cleanup"} :
           result[f] # "none"
=============================================================================
