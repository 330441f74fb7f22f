----------------------------- MODULE ExportDesk ----------------------------
(* The export button of the multi-trend page: a job per click, made by the    *)
(* daemon's ExportWorker, polled until it ends, then downloaded.              *)
EXTENDS Naturals

CONSTANTS
    ExportRequests, \* a loop and a period each
    MaxJobs

ASSUME ExportAssumption == ExportRequests \subseteq Nat \ {0} /\ MaxJobs \in Nat \ {0}

VARIABLES
    jobs,         \* the daemon's jobs: what they export and their status
    button,       \* the component: job polled, what the last poll said
    clicks,       \* POSTs not answered yet
    exporting        \* the request under the button, the last one started, the file

exportVars == <<jobs, button, clicks, exporting>>

NoJob == 0
Statuses == {"pending", "running", "done", "error"}

ExportTypeOK ==
    /\ jobs \in [nr : 0 .. MaxJobs, of : [1 .. MaxJobs -> ExportRequests \union {0}],
                 status : [1 .. MaxJobs -> Statuses]]
    /\ button \in [job : 0 .. MaxJobs, seen : Statuses, failed : BOOLEAN, creating : BOOLEAN,
                   refused : BOOLEAN, downloadError : BOOLEAN]
    /\ clicks \subseteq [nr : 0 .. MaxJobs, request : ExportRequests]
    /\ exporting \in [request : ExportRequests \union {0}, started : ExportRequests \union {0},
                   file : ExportRequests \union {0}]

FreshButton == [job |-> NoJob, seen |-> "pending", failed |-> FALSE, creating |-> FALSE,
          refused |-> FALSE, downloadError |-> FALSE]

ExportInit ==
    /\ jobs = [nr |-> 0, of |-> [j \in 1 .. MaxJobs |-> 0],
               status |-> [j \in 1 .. MaxJobs |-> "pending"]]
    /\ button = FreshButton /\ clicks = {}
    /\ exporting = [request |-> 0, started |-> 0, file |-> 0]

Phase ==
    IF button.job # NoJob /\ button.seen = "done" THEN "done"
    ELSE IF button.job # NoJob /\ (button.seen = "error" \/ button.failed) THEN "error"
    ELSE IF button.refused THEN "error"
    ELSE IF button.job # NoJob \/ button.creating THEN "generating" ELSE "idle"

-----------------------------------------------------------------------------
(* The daemon                                                                 *)

ServeCreate ==
    /\ jobs.nr < MaxJobs
    /\ \E c \in clicks :
           /\ c.nr = 0 /\ clicks' = (clicks \ {c}) \union {[c EXCEPT !.nr = jobs.nr + 1]}
           /\ jobs' = [jobs EXCEPT !.nr = @ + 1, !.of[jobs.nr + 1] = c.request]
    /\ UNCHANGED <<button, exporting>>

RunExport(j) ==
    /\ j <= jobs.nr
    /\ \/ jobs.status[j] = "pending" /\ jobs' = [jobs EXCEPT !.status[j] = "running"]
       \/ jobs.status[j] = "running" /\ \E end \in {"done", "error"} :
                jobs' = [jobs EXCEPT !.status[j] = end]
    /\ UNCHANGED <<button, clicks, exporting>>

-----------------------------------------------------------------------------
(* The page                                                                   *)

(* Another loop or period, or several loops, which have no export.            *)
ChangeRequest ==
    /\ \E r \in (ExportRequests \union {0}) \ {exporting.request} :
          exporting' = [exporting EXCEPT !.request = r]
    /\ UNCHANGED <<jobs, button, clicks>>

Restarted(old) == [FreshButton EXCEPT !.creating = TRUE]

StartExport ==
    /\ Phase \in {"idle", "error"} /\ exporting.request # 0
    /\ button' = Restarted(button)
    /\ clicks' = clicks \union {[nr |-> 0, request |-> exporting.request]}
    /\ exporting' = [exporting EXCEPT !.started = exporting.request]
    /\ UNCHANGED jobs

(* The answer sets the job, whichever click it answers.                       *)
CreateAnswered ==
    /\ \E c \in clicks :
           /\ c.nr # 0 /\ clicks' = clicks \ {c}
           /\ button' = [button EXCEPT !.job = c.nr, !.creating = FALSE,
                                       !.seen = "pending", !.failed = FALSE]
    /\ UNCHANGED <<jobs, exporting>>

CreateFails ==
    /\ \E c \in clicks : clicks' = clicks \ {c}
    /\ button' = [button EXCEPT !.creating = FALSE, !.refused = TRUE]
    /\ UNCHANGED <<jobs, exporting>>

(* Every 800 ms until done or error; a failed poll shows as an error, and the *)
(* next one may take it back.                                                 *)
PollJob ==
    /\ button.job # NoJob /\ button.seen \notin {"done", "error"}
    /\ \/ button' = [button EXCEPT !.seen = jobs.status[button.job], !.failed = FALSE]
       \/ button' = [button EXCEPT !.failed = TRUE]
    /\ UNCHANGED <<jobs, clicks, exporting>>

Download ==
    /\ Phase = "done"
    /\ \/ exporting' = [exporting EXCEPT !.file = jobs.of[button.job]]
          /\ button' = [button EXCEPT !.downloadError = FALSE]
       \/ button' = [button EXCEPT !.downloadError = TRUE] /\ UNCHANGED exporting
    /\ UNCHANGED <<jobs, clicks>>

LeavePage ==
    /\ button' = FreshButton /\ clicks' = {}
    /\ exporting' = [request |-> exporting.request, started |-> 0, file |-> 0]
    /\ UNCHANGED jobs

ExportNext ==
    \/ ServeCreate
    \/ \E j \in 1 .. MaxJobs : RunExport(j)
    \/ ChangeRequest \/ StartExport \/ CreateAnswered \/ CreateFails \/ PollJob \/ Download \/ LeavePage

ExportSpec == ExportInit /\ [][ExportNext]_exportVars

-----------------------------------------------------------------------------
(* The file offered is of the export started last, however retries, failed    *)
(* polls and late answers fall.                                               *)
FileIsOfTheLastExport == Phase = "done" => jobs.of[button.job] = exporting.started

(* The file downloaded is of the loop and period under the button: refuted,   *)
(* a finished job leaves nothing to click but its download.                   *)
FileIsOfTheRequest == Phase = "done" /\ exporting.request # 0 => jobs.of[button.job] = exporting.request
=============================================================================
