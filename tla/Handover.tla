------------------------------ MODULE Handover ------------------------------
(***************************************************************************)
(* deploy/handover-to-llm-agent.sh and the two services it moves the order *)
(* authority between.  The script runs step by step while both services    *)
(* go on: processes crash and systemd starts them again, the LLM agent's   *)
(* shadow saves its engine state at every event, the machine reboots, and  *)
(* the script is interrupted or aborted by a failing command (set -e).     *)
(*                                                                         *)
(* An engine state is known by where its entry price comes from: "bought", *)
(* what was really paid, or "adopted", the price of the day a process with *)
(* no state met the open position (restore_position).                      *)
(***************************************************************************)
EXTENDS Naturals

VARIABLES
    step,        \* the step of the script that comes next, or how it ended
    report,      \* the backtest report the gate reads
    pending,     \* --gate-pending
    quant,       \* the quantitative service: [up, enabled]
    llm,         \* the LLM service: [up, enabled, armed, entry], the last two of its process
    unit,        \* what ExecStart of the LLM unit says, and what systemd has loaded
    files,       \* the state files: [quant, llm]
    hit          \* whether the substitutions of the script match the unit (external)

handoverVars == <<step, report, pending, quant, llm, unit, files, hit>>

Entries == {"none", "bought", "adopted"}
Modes == {"shadow", "armed"}

HandoverInit ==
    /\ step = "gate"
    /\ report \in {"absent", "passes", "fails"} /\ pending \in BOOLEAN
    /\ quant = [up |-> TRUE, enabled |-> TRUE]
    /\ llm = [up |-> TRUE, enabled |-> TRUE, armed |-> FALSE, entry |-> "adopted"]
    /\ unit = [disk |-> "shadow", loaded |-> "shadow"]
    /\ files \in [quant : {"none", "bought"}, llm : {"none", "adopted"}]
    /\ hit \in BOOLEAN

GoTo(here, next) == step = here /\ step' = next

-----------------------------------------------------------------------------
\* The script.

\* 1: a report that rejects is final; without one the owner decides.
Gate ==
    /\ IF report = "passes" \/ (report = "absent" /\ pending)
       THEN GoTo("gate", "account")
       ELSE GoTo("gate", "refused")
    /\ UNCHANGED <<report, pending, quant, llm, unit, files, hit>>

\* 2: reads the account; a failure ends the script.
Account ==
    /\ GoTo("account", "stop") \/ GoTo("account", "refused")
    /\ UNCHANGED <<report, pending, quant, llm, unit, files, hit>>

\* Mutant: the service is stopped and stays enabled.
StopQuantOnly ==
    /\ GoTo("stop", "inherit")
    /\ quant' = [quant EXCEPT !.up = FALSE]
    /\ UNCHANGED <<report, pending, llm, unit, files, hit>>

\* 3: systemctl disable --now.
StopQuant ==
    /\ GoTo("stop", "inherit")
    /\ quant' = [up |-> FALSE, enabled |-> FALSE]
    /\ UNCHANGED <<report, pending, llm, unit, files, hit>>

\* 4: the state file is copied over the shadow's.
Inherit ==
    /\ GoTo("inherit", "edit")
    /\ files' = [files EXCEPT !.llm = IF files.quant = "none" THEN @ ELSE files.quant]
    /\ UNCHANGED <<report, pending, quant, llm, unit, hit>>

\* 5: the unit is edited; an edit that did not match is taken back, and the
\* quantitative service with it.
Edit ==
    /\ hit
    /\ GoTo("edit", "restart")
    /\ unit' = [unit EXCEPT !.disk = "armed"]
    /\ UNCHANGED <<report, pending, quant, llm, files, hit>>

Revert ==
    /\ ~hit
    /\ GoTo("edit", "reverted")
    /\ unit' = [disk |-> "shadow", loaded |-> "shadow"]
    /\ quant' = [up |-> TRUE, enabled |-> TRUE]
    /\ UNCHANGED <<report, pending, llm, files, hit>>

\* daemon-reload, restart: the shadow is asked to stop (SIGINT), finishes the event it
\* is in, saves, and the new process starts.
Reload ==
    /\ GoTo("restart", "stopping")
    /\ unit' = [unit EXCEPT !.loaded = unit.disk]
    /\ UNCHANGED <<report, pending, quant, llm, files, hit>>

\* 6: exactly one process with the flag in its arguments.
Authorities == (IF quant.up THEN 1 ELSE 0) + (IF llm.up /\ llm.armed THEN 1 ELSE 0)
Verify ==
    /\ IF Authorities = 1 THEN GoTo("verify", "done") ELSE GoTo("verify", "unverified")
    /\ UNCHANGED <<report, pending, quant, llm, unit, files, hit>>

\* set -e, or the terminal goes away, at any step.
Interrupted ==
    /\ step \in {"account", "stop", "inherit", "edit", "restart", "stopping", "verify"}
    /\ step' = "interrupted"
    /\ UNCHANGED <<report, pending, quant, llm, unit, files, hit>>

\* The way back the script prints when the owner went ahead without a report.
Return ==
    /\ step = "done" /\ report = "absent" /\ pending
    /\ step' = "returned"
    /\ llm' = [llm EXCEPT !.up = FALSE, !.enabled = FALSE]
    /\ quant' = [up |-> TRUE, enabled |-> TRUE]
    /\ UNCHANGED <<report, pending, unit, files, hit>>

-----------------------------------------------------------------------------
\* The services.

\* main: arguments, the agent, the runner, which loads the state file, and only then
\* the lock and bootstrap, where a position without a state is adopted.
Loaded(file) == IF file = "none" THEN "adopted" ELSE file
LLMStarts ==
    /\ ~llm.up /\ llm.enabled /\ step # "stopping"
    /\ llm' = [llm EXCEPT !.up = TRUE, !.armed = (unit.loaded = "armed"),
                          !.entry = Loaded(files.llm)]
    /\ files' = [files EXCEPT !.llm = Loaded(@)]
    /\ UNCHANGED <<step, report, pending, quant, unit, hit>>

\* process_event saves what the process has in memory, in a dry run too.
LLMSaves ==
    /\ llm.up
    /\ files' = [files EXCEPT !.llm = llm.entry]
    /\ UNCHANGED <<step, report, pending, quant, llm, unit, hit>>

LLMDies ==
    /\ llm.up
    /\ llm' = [llm EXCEPT !.up = FALSE]
    /\ UNCHANGED <<step, report, pending, quant, unit, files, hit>>

\* The process that systemctl restart stopped is gone and the new one is up.
Restarted ==
    /\ GoTo("stopping", "verify") /\ ~llm.up
    /\ llm' = [llm EXCEPT !.up = TRUE, !.armed = (unit.loaded = "armed"),
                          !.entry = Loaded(files.llm)]
    /\ files' = [files EXCEPT !.llm = Loaded(@)]
    /\ UNCHANGED <<report, pending, quant, unit, hit>>

QuantDies ==
    /\ quant.up /\ quant' = [quant EXCEPT !.up = FALSE]
    /\ UNCHANGED <<step, report, pending, llm, unit, files, hit>>

QuantStarts ==
    /\ ~quant.up /\ quant.enabled /\ quant' = [quant EXCEPT !.up = TRUE]
    /\ files' = [files EXCEPT !.quant = Loaded(@)]
    /\ UNCHANGED <<step, report, pending, llm, unit, hit>>

\* The machine starts again: enabled services come up from their units as they are now.
Reboot ==
    /\ step' = IF step \in {"done", "returned", "reverted", "refused", "unverified"}
               THEN step ELSE "interrupted"
    /\ quant' = [quant EXCEPT !.up = quant.enabled]
    /\ unit' = [unit EXCEPT !.loaded = unit.disk]
    /\ llm' = [llm EXCEPT !.up = FALSE]
    /\ UNCHANGED <<report, pending, files, hit>>

Script == Gate \/ Account \/ StopQuant \/ Inherit \/ Edit \/ Revert \/ Reload \/ Verify \/ Return
Services == LLMStarts \/ LLMSaves \/ LLMDies \/ Restarted \/ QuantDies \/ QuantStarts
HandoverNext == Script \/ Services \/ Interrupted \/ Reboot

HandoverSpec == HandoverInit /\ [][HandoverNext]_handoverVars

-----------------------------------------------------------------------------

HandoverTypeOK ==
    /\ step \in {"gate", "account", "stop", "inherit", "edit", "restart", "stopping", "verify",
                 "done", "refused", "reverted", "unverified", "interrupted", "returned"}
    /\ quant \in [up : BOOLEAN, enabled : BOOLEAN]
    /\ llm \in [up : BOOLEAN, enabled : BOOLEAN, armed : BOOLEAN, entry : Entries]
    /\ unit \in [disk : Modes, loaded : Modes] /\ files \in [quant : Entries, llm : Entries]
    /\ report \in {"absent", "passes", "fails"} /\ pending \in BOOLEAN /\ hit \in BOOLEAN

\* "Two order authorities at once" never happens (handover-to-llm-agent.sh:9-11), wherever
\* the script stops and whatever crashes, comes back or reboots around it; and a script
\* that ends by its own refusal leaves the quantitative agent in charge.
OneAuthority ==
    /\ Authorities <= 1
    /\ step \in {"refused", "reverted"} => quant.enabled

\* "The LLM agent inherits the quantitative agent's engine state, so it keeps the true
\* entry price" (handover-to-llm-agent.sh:13-16).
EntryIsInherited == (step = "done" /\ files.quant = "bought" /\ llm.up) => llm.entry = "bought"

\* The inductive invariant: who may trade at each step.
HandoverInv ==
    /\ HandoverTypeOK
    \* The service that lost the authority is disabled too: nothing but the way back starts it.
    /\ quant.up => quant.enabled
    /\ step \in {"gate", "account", "stop", "refused", "reverted"} => quant.enabled
    /\ step \in {"inherit", "edit", "restart", "stopping", "verify", "done", "unverified"}
         => ~quant.enabled
    \* As long as it is enabled no LLM process is armed and none can come up armed.
    /\ quant.enabled =>
         \/ ~llm.armed /\ unit = [disk |-> "shadow", loaded |-> "shadow"]
         \/ step = "returned" /\ ~llm.up /\ ~llm.enabled
    /\ step \in {"inherit", "edit"} =>
         ~llm.armed /\ unit = [disk |-> "shadow", loaded |-> "shadow"]
=============================================================================
