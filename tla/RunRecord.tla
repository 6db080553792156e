----------------------------- MODULE RunRecord -----------------------------
(***************************************************************************)
(* What the commands promise about one run's run.json: each command that   *)
(* succeeds changes the record in one step, from what it is at that moment *)
(* and only if it is then still allowed; each one that fails leaves no     *)
(* trace.  The worker, a resume, `runs export`, `runs review`,             *)
(* `runs verdict` and the dashboard are the commands.                      *)
(***************************************************************************)
CONSTANT Commands  \* processes, each of which runs one command

VARIABLES
  file,      \* run.json
  ask,       \* what each command asks for
  over,      \* the run is over, as its process and its transcript tell
  outcome    \* "pending", "done" or "failed", for each command

Verdicts == {"accept", "reject"}
Labels   == {"none", "feature"}     \* task_type
Statuses == {"running", "completed", "export_failed", "other"}

Files == [status : Statuses, resumed : BOOLEAN, timer : BOOLEAN,
          verdict : Verdicts \cup {"none"}, label : Labels]

\* "cli" commands retry a conflict; the dashboard ("web") reports it.
Request(what, from, arg) == [what |-> what, from |-> from, arg |-> arg]

Requests ==
  {Request("end", "cli", status) : status \in Statuses \ {"running"}}
    \cup {Request("resume", "cli", "none")}
    \cup {Request("export", "cli", status) : status \in {"completed", "export_failed"}}
    \cup {Request("start", from, "none") : from \in {"cli", "web"}}
    \cup {Request("verdict", from, v) : from \in {"cli", "web"}, v \in Verdicts}
    \cup {Request("label", "web", label) : label \in Labels}

\* effective_run_status and review_eligible.
Eligible(f, ended) == f.status # "running" \/ ended

\* start_review() raises, and review_action() reports, what is not allowed.
Allowed(r, f, ended) ==
  /\ r.what = "start" \/ (r.what = "verdict" /\ r.from = "web")
       => Eligible(f, ended) /\ ~f.resumed
  /\ r.what = "start" => f.verdict = "none"
  /\ r.what = "verdict" /\ r.from = "web"
       => f.verdict = r.arg \/ (f.verdict = "none" /\ f.timer)

\* _export_status_update: an export only replaces a status about the export.
Exported(old, new) ==
  IF old \in {"running", "completed", "export_failed"} THEN new ELSE old

Applied(r, f) ==
  [status  |-> IF r.what = "end" THEN r.arg
               ELSE IF r.what = "export" THEN Exported(f.status, r.arg) ELSE f.status,
   resumed |-> f.resumed \/ r.what = "resume",
   timer   |-> f.timer \/ r.what = "start",
   verdict |-> IF r.what = "verdict" THEN r.arg ELSE f.verdict,
   label   |-> IF r.what = "label" THEN r.arg ELSE f.label]

-----------------------------------------------------------------------------
Init ==
  /\ file = [status |-> "running", resumed |-> FALSE, timer |-> FALSE,
             verdict |-> "none", label |-> "none"]
  /\ ask \in [Commands -> Requests]
  /\ \A c, d \in Commands : ask[c].what = "end" /\ ask[d].what = "end" => c = d
  /\ over = FALSE
  /\ outcome = [c \in Commands |-> "pending"]

RunEnds == over' = TRUE /\ UNCHANGED <<file, ask, outcome>>

Perform(c) ==
  /\ outcome[c] = "pending"
  /\ Allowed(ask[c], file, over)
  /\ file' = Applied(ask[c], file)
  /\ outcome' = [outcome EXCEPT ![c] = "done"]
  /\ UNCHANGED <<ask, over>>

\* The dashboard found the record as asked, and writes nothing.
FoundSo(c) ==
  /\ outcome[c] = "pending" /\ ask[c].from = "web"
  /\ outcome' = [outcome EXCEPT ![c] = "done"]
  /\ UNCHANGED <<file, ask, over>>

Fail(c) ==
  /\ outcome[c] = "pending"
  /\ outcome' = [outcome EXCEPT ![c] = "failed"]
  /\ UNCHANGED <<file, ask, over>>

Next == RunEnds \/ \E c \in Commands : Perform(c) \/ FoundSo(c) \/ Fail(c)

vars == <<file, ask, over, outcome>>

Spec == Init /\ [][Next]_vars
=============================================================================
