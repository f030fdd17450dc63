---------------------------- MODULE BinaryUpdate ----------------------------
(***************************************************************************)
(* scripts/update-binary.sh against systemd and the service's start-up.    *)
(*                                                                         *)
(* The script saves the installed binary, renames the new one into place,  *)
(* restarts the service, probes it, and copies the saved one back when the *)
(* probe fails.  Meanwhile systemd starts whatever file is installed each  *)
(* time the process fails, and a starting process runs its migrations,     *)
(* which only go forward.  The script may be killed before any of its      *)
(* commands, and the host may reboot.                                      *)
(*                                                                         *)
(* A binary is told apart by the migrations it embeds and by whether it    *)
(* can serve at all.  Two runs of the script follow one another and do not *)
(* start in the same second, so that each saves its copy under a name of   *)
(* its own.  Loss of unsynchronised file contents with the power is left   *)
(* out.                                                                    *)
(***************************************************************************)
EXTENDS Integers

CONSTANTS
    Binary,        \* builds of the service
    Sound,         \* those that serve once their migrations are done
    Level,         \* the number of migrations each build embeds
    MetricsLevel,  \* the migration that creates api_request_metrics
    Attempts,      \* health probes before the script gives up: 15
    NoFile         \* a path with no complete, executable file

ASSUME UpdateAssumption ==
    /\ Sound \subseteq Binary
    /\ Level \in [Binary -> Nat]
    /\ MetricsLevel \in Nat
    /\ Attempts \in Nat \ {0}
    /\ NoFile \notin Binary

VARIABLES
    target,        \* the file at TARGET_BINARY
    copies,        \* the rollback copies next to it that are complete; no run deletes one
    svc,           \* the service's process and what systemd makes of it
    schema,        \* migrations applied to the database
    pc,            \* the script's next command; "idle" between runs
    source,        \* SOURCE_BINARY of the current or last run
    saved,         \* the contents of its BACKUP_BINARY
    misses,        \* its failed probes
    outcome,       \* how it ended
    before,        \* history: what was installed when it began
    answered,      \* history: builds that served since they were last installed
    verified,      \* history: builds that a run has declared good, and the first
    lastGood,      \* history: the latest of them to be installed
    doubtful       \* history: a run was cut short since the last success

vars == <<target, copies, svc, schema, pc, source, saved, misses, outcome,
          before, answered, verified, lastGood, doubtful>>

script  == <<pc, source, saved, misses, outcome, before>>
history == <<answered, verified, lastGood, doubtful>>

File  == Binary \cup {NoFile}
Phase == {"booting", "serving", "failed", "dead"}
Pc    == {"idle", "save", "stage", "swap", "restart", "probe", "table", "report",
          "unlink", "copy", "again"}
Outcome == {"none", "ok", "unsure", "refused", "restored", "broken", "killed"}

-----------------------------------------------------------------------------
(* The service under systemd: Type=simple, Restart=on-failure.             *)

\* What a start makes of the installed file.
Started == IF target \in Binary THEN [phase |-> "booting", bin |-> target]
                                ELSE [phase |-> "failed", bin |-> NoFile]

\* systemctl restart stops the process before it starts the file.
RestartedNot == svc
Restarted == Started

Failed == [phase |-> "failed", bin |-> NoFile]

Booting(b) == svc = [phase |-> "booting", bin |-> b]
Serving(b) == svc = [phase |-> "serving", bin |-> b]

\* Migrator::run refuses a database with migrations it does not know.
RefusesNothing(b) == FALSE
RefusesEqual(b) == schema >= Level[b]
Refuses(b) == schema > Level[b]

Ready(b) == ~Refuses(b) /\ schema >= Level[b]

-----------------------------------------------------------------------------
(* The script.                                                             *)

Goto(l) == pc' = l
End(how) == pc' = "idle" /\ outcome' = how

\* install TARGET BACKUP reads the file that is there.
SavedSource == source
SavedCopy == target

\* install BACKUP TARGET brings the saved file back.
RestoredSource == source
Restored == saved

Init ==
    /\ target \in Sound
    /\ copies = {}
    /\ schema = Level[target]
    /\ svc = [phase |-> "serving", bin |-> target]
    /\ pc = "idle" /\ outcome = "none"
    /\ source = target /\ before = target /\ saved = NoFile /\ misses = 0
    /\ answered = {target} /\ verified = {target} /\ lastGood = target
    /\ doubtful = FALSE

\* The installed file must be executable, which a missing or half-written one
\* is not.
ExecutableUnchecked == TRUE
Executable == target \in Binary

\* The checks before anything is written.
Begin(b) ==
    /\ pc = "idle"
    /\ Executable
    /\ source' = b /\ before' = target /\ saved' = NoFile /\ misses' = 0
    /\ outcome' = "none"
    /\ Goto("save")
    /\ UNCHANGED <<target, copies, svc, schema, history>>

Save ==
    /\ pc = "save"
    /\ saved' = SavedCopy
    /\ copies' = copies \cup {SavedCopy}
    /\ Goto("stage")
    /\ UNCHANGED <<target, svc, schema, source, misses, outcome, before, history>>

\* install SOURCE TEMP; nothing looks at TEMP until the rename.
Stage ==
    /\ pc = "stage"
    /\ Goto("swap")
    /\ UNCHANGED <<target, copies, svc, schema, source, saved, misses, outcome, before, history>>

\* No space for the copy or for TEMP: set -e ends the run.
NoSpace ==
    /\ pc \in {"save", "stage"}
    /\ End("refused")
    /\ UNCHANGED <<target, copies, svc, schema, source, saved, misses, before, history>>

\* mv -f TEMP TARGET
Swap ==
    /\ pc = "swap"
    /\ target' = source
    /\ answered' = answered \ {source}
    /\ Goto("restart")
    /\ UNCHANGED <<copies, svc, schema, source, saved, misses, outcome, before,
                   verified, lastGood, doubtful>>

\* systemctl restart, which for Type=simple reports success once the process
\* is forked.  It fails without touching the unit or leaves it dead.
Restart ==
    /\ pc = "restart"
    /\ \/ svc' = Restarted /\ Goto("probe")
       \/ svc' \in {svc, [phase |-> "dead", bin |-> NoFile]} /\ Goto("unlink")
    /\ UNCHANGED <<target, copies, schema, source, saved, misses, outcome, before, history>>

ProbeHit ==
    /\ pc = "probe"
    /\ svc.phase = "serving"
    /\ Goto("table")
    /\ UNCHANGED <<target, copies, svc, schema, source, saved, misses, outcome, before, history>>

ProbeMiss ==
    /\ pc = "probe"
    /\ misses' = misses + 1
    /\ IF misses + 1 < Attempts THEN UNCHANGED pc ELSE Goto("unlink")
    /\ UNCHANGED <<target, copies, svc, schema, source, saved, outcome, before, history>>

\* The query for api_request_metrics; it may fail on a busy database.
Table ==
    /\ pc = "table"
    /\ \/ /\ schema >= MetricsLevel
          /\ verified' = verified \cup {source} /\ lastGood' = source /\ doubtful' = FALSE
          /\ Goto("report")
       \/ /\ UNCHANGED <<verified, lastGood, doubtful>>
          /\ Goto("unlink")
    /\ UNCHANGED <<target, copies, svc, schema, source, saved, misses, outcome, before, answered>>

\* The status printed last is the exit status: a service that died since its
\* probe makes the run fail, without a rollback.
Report ==
    /\ pc = "report"
    /\ End(IF svc.phase \in {"booting", "serving"} THEN "ok" ELSE "unsure")
    /\ UNCHANGED <<target, copies, svc, schema, source, saved, misses, before, history>>

\* rollback: install removes the target, then writes it, then sets its mode.
RollbackUnlink ==
    /\ pc = "unlink"
    /\ target' = NoFile
    /\ Goto("copy")
    /\ UNCHANGED <<copies, svc, schema, source, saved, misses, outcome, before, history>>

RollbackCopy ==
    /\ pc = "copy"
    /\ target' = Restored
    /\ Goto("again")
    /\ UNCHANGED <<copies, svc, schema, source, saved, misses, outcome, before, history>>

\* No space for it: set -e ends the run without a restart.
RollbackFails ==
    /\ pc = "copy"
    /\ End("broken")
    /\ doubtful' = TRUE
    /\ UNCHANGED <<target, copies, svc, schema, source, saved, misses, before,
                   answered, verified, lastGood>>

\* systemctl restart || true
RollbackRestart ==
    /\ pc = "again"
    /\ svc' \in {Restarted, svc, [phase |-> "dead", bin |-> NoFile]}
    /\ End("restored")
    /\ UNCHANGED <<target, copies, schema, source, saved, misses, before, history>>

\* From the rename to the verdict, and until the copy is back, an end of the
\* run leaves an unproven file in place.
Exposed == pc \in {"restart", "probe", "table", "unlink", "copy"}

\* A signal, a lost terminal: the EXIT trap only removes TEMP.
Kill ==
    /\ pc # "idle"
    /\ End("killed")
    /\ doubtful' = (doubtful \/ Exposed)
    /\ UNCHANGED <<target, copies, svc, schema, source, saved, misses, before,
                   answered, verified, lastGood>>

Script == \/ \E b \in Binary : Begin(b)
          \/ Save \/ Stage \/ NoSpace \/ Swap \/ Restart
          \/ ProbeHit \/ ProbeMiss \/ Table \/ Report
          \/ RollbackUnlink \/ RollbackCopy \/ RollbackFails \/ RollbackRestart
          \/ Kill

-----------------------------------------------------------------------------
(* The process and systemd.                                                *)

\* RestartSec after a failure the file is started again.
AutoStart ==
    /\ svc.phase = "failed"
    /\ svc' = Started
    /\ UNCHANGED <<target, copies, schema, script, history>>

\* One migration, in a transaction of its own.
Migrate(b) ==
    /\ Booting(b) /\ schema < Level[b]
    /\ schema' = schema + 1
    /\ UNCHANGED <<target, copies, svc, script, history>>

RefuseSchema(b) ==
    /\ Booting(b) /\ Refuses(b)
    /\ svc' = Failed
    /\ UNCHANGED <<target, copies, schema, script, history>>

\* The listener is bound once everything before it has succeeded.
Listen(b) ==
    /\ Booting(b) /\ b \in Sound /\ Ready(b)
    /\ svc' = [phase |-> "serving", bin |-> b]
    /\ answered' = answered \cup {b}
    /\ UNCHANGED <<target, copies, schema, script, verified, lastGood, doubtful>>

\* A build that is not sound fails before it listens, or hangs.
Break(b) ==
    /\ Booting(b) /\ b \notin Sound
    /\ svc' = Failed
    /\ UNCHANGED <<target, copies, schema, script, history>>

Crash(b) ==
    /\ Serving(b)
    /\ svc' = Failed
    /\ UNCHANGED <<target, copies, schema, script, history>>

\* The host restarts: the script is gone and the unit is started.
Reboot ==
    /\ svc' = Started
    /\ pc' = "idle"
    /\ outcome' = IF pc = "idle" THEN outcome ELSE "killed"
    /\ doubtful' = (doubtful \/ Exposed)
    /\ UNCHANGED <<target, copies, schema, source, saved, misses, before,
                   answered, verified, lastGood>>

Service == \/ AutoStart \/ Reboot
           \/ \E b \in Binary : \/ Migrate(b) \/ RefuseSchema(b) \/ Listen(b)
                                \/ Break(b) \/ Crash(b)

Next == Script \/ Service

Spec == Init /\ [][Next]_vars

\* systemd starts a failed unit, and a sound build gets through its start.
FairSpec ==
    /\ Spec
    /\ WF_vars(AutoStart)
    /\ \A b \in Binary : WF_vars(Migrate(b)) /\ WF_vars(Listen(b))
    /\ \A b \in Binary : WF_vars(RefuseSchema(b))

-----------------------------------------------------------------------------
(* Properties.                                                             *)

\* The script's and the service's state; a run that has passed its checks has
\* a saved copy, and what runs is a whole build.  (copies stands for the
\* complete copies: one that a full disk or a kill cut short is left out of it,
\* as nothing reads a copy but the run that completed it.)
TypeOK ==
    /\ target \in File /\ copies \subseteq Binary
    /\ svc \in [phase : Phase, bin : File]
    /\ svc.phase \in {"booting", "serving"} <=> svc.bin \in Binary
    /\ schema \in Nat
    /\ pc \in Pc /\ outcome \in Outcome
    /\ source \in Binary /\ before \in Binary /\ saved \in File
    /\ pc \notin {"idle", "save"} => saved \in Binary
    /\ misses \in 0 .. Attempts
    /\ answered \subseteq Binary /\ verified \subseteq Binary
    /\ lastGood \in Binary /\ doubtful \in BOOLEAN

\* A run that reports success has installed the build it was given, and that
\* very build, not the one it replaced, has answered since: whatever crashed,
\* was restarted or migrated around the probes.
SuccessIsEarned ==
    outcome \in {"ok", "unsure"} =>
        target = source /\ source \in answered /\ schema >= MetricsLevel

\* A run that reports a restored binary has put back the one it found.
FailureRestores ==
    outcome = "restored" => target = before

\* The build that was last installed with success is never lost: it is in
\* place, or a complete copy of it lies beside it, through every kill, reboot
\* and full disk, and however many runs follow a bad one.
LastGoodKept ==
    lastGood \in {target} \cup copies

\* Between runs a build that never passed a run is installed only when a run
\* was cut short between the rename and its verdict, or its rollback failed.
CleanRunsLeaveVerified ==
    pc = "idle" /\ ~doubtful => target \in verified

\* A process serves only on exactly the schema its build was written for.
ServesItsSchema ==
    \A b \in Binary : Serving(b) => schema = Level[b]

\* What systemd promises after a crash, a failed start or a rollback: when the
\* installed build is sound and not older than the schema, it serves again
\* without anybody's help, unless a new run begins.
ServiceComesBack ==
    (/\ pc = "idle" /\ target \in Sound /\ schema <= Level[target]
     /\ \/ svc.phase = "failed"
        \/ Booting(target))
        ~> (Serving(target) \/ pc # "idle")

-----------------------------------------------------------------------------
(* The inductive invariant behind the safety properties.                   *)

\* Where the four files are while a run is on.
FilesInv ==
    /\ pc # "idle" => outcome = "none"
    /\ pc \in {"save", "stage", "swap"} => target = before
    /\ pc \notin {"idle", "save"} => saved = before
    /\ pc \in {"restart", "probe", "table", "report"} => target = source
    /\ pc = "again" => target = saved

\* Probes are counted from nothing and end at the limit.
MissInv ==
    /\ pc \in {"save", "stage", "swap", "restart"} => misses = 0
    /\ pc = "probe" => misses < Attempts

\* From the copy to the verdict the last good build is among the copies.
GoodInv ==
    pc \notin {"idle", "save", "report"} => lastGood \in copies

\* What a run found had passed, unless a run before it was cut short.
VerifiedInv ==
    ~doubtful =>
        /\ pc \in {"idle", "report"} => target \in verified
        /\ pc \notin {"idle", "report"} => before \in verified

\* After the restart only the new build runs, and what answers is recorded.
ProbeInv ==
    /\ pc \in {"probe", "table", "report"} =>
          \A b \in Binary : /\ Booting(b) => b = source
                            /\ Serving(b) => b = source /\ source \in answered
    /\ pc \in {"table", "report"} => source \in answered
    /\ pc = "report" => schema >= MetricsLevel

UpdateInv ==
    /\ TypeOK
    /\ FilesInv /\ MissInv /\ GoodInv /\ VerifiedInv /\ ProbeInv
    /\ SuccessIsEarned /\ FailureRestores /\ LastGoodKept /\ ServesItsSchema

=============================================================================
