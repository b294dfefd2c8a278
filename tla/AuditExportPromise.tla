-------------------------- MODULE AuditExportPromise --------------------------
(***************************************************************************)
(* What an administrator is promised about one export of the audit log,    *)
(* with no worker, token, lease or maintenance run in sight: a request is  *)
(* answered once, by an archive or by a failure, and the background job    *)
(* reports that answer; a ready export keeps its archive until it is due,  *)
(* and is then expired or found without its file; only a finished export   *)
(* is forgotten.                                                           *)
(***************************************************************************)
CONSTANTS Archives, NoArchive

VARIABLES
  phase,     \* "none", "requested", "ready", "failed", "expired" or "forgotten"
  archive,   \* the archive a download would serve, or NoArchive
  report,    \* what the background job says: "open", "succeeded" or "failed"
  due        \* has the archive's time passed?

Init == phase = "none" /\ archive = NoArchive /\ report = "open" /\ due = FALSE

Request ==
  /\ phase = "none"
  /\ phase' = "requested"
  /\ UNCHANGED <<archive, report, due>>

Complete ==
  /\ phase = "requested"
  /\ phase' = "ready" /\ archive' \in Archives /\ report' = "succeeded"
  /\ UNCHANGED due

Fail ==
  /\ phase = "requested"
  /\ phase' = "failed" /\ report' = "failed"
  /\ UNCHANGED <<archive, due>>

ComesDue ==
  /\ phase = "ready" /\ ~due
  /\ due' = TRUE
  /\ UNCHANGED <<phase, archive, report>>

\* The job stays succeeded when the file is lost: generating it did succeed.
Withdraw ==
  /\ phase = "ready" /\ due
  /\ phase' \in {"expired", "failed"}
  /\ archive' = NoArchive
  /\ UNCHANGED <<report, due>>

Forget ==
  /\ phase \in {"failed", "expired"}
  /\ phase' = "forgotten"
  /\ UNCHANGED <<archive, report, due>>

Next == Request \/ Complete \/ Fail \/ ComesDue \/ Withdraw \/ Forget

Spec == Init /\ [][Next]_<<phase, archive, report, due>>
===============================================================================
