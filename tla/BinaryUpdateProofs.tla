------------------------ MODULE BinaryUpdateProofs ------------------------
(***************************************************************************)
(* The safety properties of BinaryUpdate for any builds, any migrations    *)
(* and any number of probes.  UpdateInv is inductive: FilesInv says where  *)
(* the saved and the given build are at each command, ProbeInv that after  *)
(* the restart nothing but the given build runs, GoodInv and VerifiedInv   *)
(* what the copies and the installed file are worth meanwhile.             *)
(***************************************************************************)
EXTENDS BinaryUpdate, TLAPS

\* The start puts the first build in place, serving and verified.
LEMMA InitUpdateInv ==
    Init => UpdateInv
<1> SUFFICES ASSUME Init
             PROVE  UpdateInv
    OBVIOUS
<1> USE UpdateAssumption DEF Init, UpdateAssumption
<1>1. target \in Binary /\ Level[target] \in Nat
    OBVIOUS
<1>2. TypeOK
    <2>1. svc \in [phase : Phase, bin : File]
        BY <1>1 DEF Phase, File
    <2>2. svc.phase \in {"booting", "serving"} <=> svc.bin \in Binary
        BY <1>1
    <2>3. schema \in Nat /\ misses \in 0 .. Attempts
        BY <1>1
    <2>4. pc \in Pc /\ outcome \in Outcome /\ saved \in File /\ target \in File
        BY <1>1 DEF Pc, Outcome, File
    <2>5. copies \subseteq Binary /\ answered \subseteq Binary /\ verified \subseteq Binary
        BY <1>1
    <2>6. QED
        BY <1>1, <2>1, <2>2, <2>3, <2>4, <2>5 DEF TypeOK
<1>3. ServesItsSchema
    BY <1>1 DEF ServesItsSchema, Serving
<1>4. FilesInv /\ MissInv /\ GoodInv /\ VerifiedInv /\ ProbeInv
    BY DEF FilesInv, MissInv, GoodInv, VerifiedInv, ProbeInv
<1>5. SuccessIsEarned /\ FailureRestores /\ LastGoodKept
    BY DEF SuccessIsEarned, FailureRestores, LastGoodKept
<1>6. QED
    BY <1>2, <1>3, <1>4, <1>5 DEF UpdateInv

\* Every action of the script and of the service keeps UpdateInv.
LEMMA NextUpdateInv ==
    UpdateInv /\ [Next]_vars => UpdateInv'
<1> SUFFICES ASSUME UpdateInv, [Next]_vars
             PROVE  UpdateInv'
    OBVIOUS
<1> USE UpdateAssumption
<1> USE DEF UpdateAssumption, UpdateInv, TypeOK, FilesInv, MissInv, GoodInv, VerifiedInv, ProbeInv, SuccessIsEarned,
            FailureRestores, LastGoodKept, ServesItsSchema, File, Phase, Pc, Outcome,
            Booting, Serving, script, history
<1>1. ASSUME NEW b \in Binary, Begin(b)
      PROVE  UpdateInv'
    BY <1>1 DEF Begin, Executable, Goto
<1>2. CASE Save
    BY <1>2 DEF Save, SavedCopy, Goto
<1>3. CASE Stage
    BY <1>3 DEF Stage, Goto
<1>4. CASE NoSpace
    BY <1>4 DEF NoSpace, End
<1>5. CASE Swap
    BY <1>5 DEF Swap, Goto
<1>6. CASE Restart
    BY <1>6 DEF Restart, Restarted, Started, Goto
<1>7. CASE ProbeHit
    BY <1>7 DEF ProbeHit, Goto
<1>8. CASE ProbeMiss
    BY <1>8 DEF ProbeMiss, Goto
<1>9. CASE Table
    BY <1>9 DEF Table, Goto
<1>10. CASE Report
    BY <1>10 DEF Report, End
<1>11. CASE RollbackUnlink
    BY <1>11 DEF RollbackUnlink, Goto
<1>12. CASE RollbackCopy
    BY <1>12 DEF RollbackCopy, Restored, Goto
<1>13. CASE RollbackFails
    BY <1>13 DEF RollbackFails, End
<1>14. CASE RollbackRestart
    BY <1>14 DEF RollbackRestart, Restarted, Started, End
<1>15. CASE Kill
    BY <1>15 DEF Kill, End, Exposed
<1>16. CASE AutoStart
    BY <1>16 DEF AutoStart, Started
<1>17. ASSUME NEW b \in Binary, Migrate(b)
      PROVE  UpdateInv'
    BY <1>17 DEF Migrate
<1>18. ASSUME NEW b \in Binary, RefuseSchema(b)
      PROVE  UpdateInv'
    BY <1>18 DEF RefuseSchema, Failed, Refuses
<1>19. ASSUME NEW b \in Binary, Listen(b)
      PROVE  UpdateInv'
    BY <1>19 DEF Listen, Ready, Refuses
<1>20. ASSUME NEW b \in Binary, Break(b)
      PROVE  UpdateInv'
    BY <1>20 DEF Break, Failed
<1>21. ASSUME NEW b \in Binary, Crash(b)
      PROVE  UpdateInv'
    BY <1>21 DEF Crash, Failed
<1>22. CASE Reboot
    BY <1>22 DEF Reboot, Started, Exposed
<1>23. CASE UNCHANGED vars
    BY <1>23 DEF vars
<1>24. QED
    BY <1>1, <1>2, <1>3, <1>4, <1>5, <1>6, <1>7, <1>8, <1>9, <1>10, <1>11, <1>12, <1>13, <1>14, <1>15, <1>16, <1>17, <1>18, <1>19, <1>20, <1>21, <1>22, <1>23
    DEF Next, Script, Service

\* UpdateInv holds throughout.
LEMMA AlwaysUpdateInv ==
    Spec => []UpdateInv
<1>1. Init => UpdateInv
    BY InitUpdateInv
<1>2. UpdateInv /\ [Next]_vars => UpdateInv'
    BY NextUpdateInv
<1>3. QED
    BY <1>1, <1>2, PTL DEF Spec

\* The script and the service keep to their states, the target to whole builds,
\* part-written files and none.  That copies holds whole builds only is how
\* the module uses it: a part-written copy of the script is not in copies.
THEOREM TypeCorrect ==
    Spec => []TypeOK
<1>1. UpdateInv => TypeOK
    BY DEF UpdateInv
<1>2. QED
    BY <1>1, AlwaysUpdateInv, PTL

\* A run that ends with success has installed the given build, and that build
\* answered with the metrics table there (update-binary.sh:55-97).
THEOREM SuccessIsProven ==
    Spec => []SuccessIsEarned
<1>1. UpdateInv => SuccessIsEarned
    BY DEF UpdateInv
<1>2. QED
    BY <1>1, AlwaysUpdateInv, PTL

\* A rollback that runs to its end leaves the build the run found
\* (update-binary.sh:49-52).
THEOREM RollbackRestores ==
    Spec => []FailureRestores
<1>1. UpdateInv => FailureRestores
    BY DEF UpdateInv
<1>2. QED
    BY <1>1, AlwaysUpdateInv, PTL

\* The last good build is installed or kept in a copy, after any sequence of
\* runs, kills and reboots (update-binary.sh:39-42).
THEOREM NoGoodBuildIsLost ==
    Spec => []LastGoodKept
<1>1. UpdateInv => LastGoodKept
    BY DEF UpdateInv
<1>2. QED
    BY <1>1, AlwaysUpdateInv, PTL

\* Without a run cut short inside its window, what is installed between runs
\* has passed a run.
THEOREM UnprovenOnlyWhenCut ==
    Spec => []CleanRunsLeaveVerified
<1>1. UpdateInv => CleanRunsLeaveVerified
    BY DEF UpdateInv, VerifiedInv, CleanRunsLeaveVerified
<1>2. QED
    BY <1>1, AlwaysUpdateInv, PTL

\* Whatever order of starts, crashes and roll-backs, a serving build is on its
\* own schema (main.rs:81).
THEOREM SchemaFitsServer ==
    Spec => []ServesItsSchema
<1>1. UpdateInv => ServesItsSchema
    BY DEF UpdateInv
<1>2. QED
    BY <1>1, AlwaysUpdateInv, PTL

===========================================================================
