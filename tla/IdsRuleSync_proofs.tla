------------------------- MODULE IdsRuleSync_proofs --------------------------
(***************************************************************************)
(* Proofs about IdsRuleSync, for any engines, bundles and bounds.          *)
(* TypeCorrect holds for one thread and for two.  The other theorems are   *)
(* about the agent without the MQTT subscriber: RegInv is the part of the  *)
(* inductive invariant that survives the process being killed, FileInv the *)
(* part that holds until the first kill.                                   *)
(***************************************************************************)
EXTENDS IdsRuleSync, TLAPS

-----------------------------------------------------------------------------
\* The inductive invariant of the main thread.

Main == job["main"]

Trying == {"backup", "writeTmp", "replace", "reload", "health", "restore"}

\* `new` may replace `old` as an engine's status entry.
MayFollow(old, new) ==
  \/ /\ new.ok
     /\ new.version \in Good
     /\ old.version <= new.version
  \/ /\ new.version = old.version
     /\ new.ok => old.ok

\* The outcome of a call on an engine whose entry is `old` is written as `new`.
Outcome(old, new) ==
  /\ MayFollow(old, new)
  /\ Main.applied => /\ new = [version |-> Main.version, ok |-> TRUE]
                     /\ Main.version \in Good

\* What a call has read and computed agrees with the disk.
CallInv ==
  /\ pc["main"] # "dead"
  /\ pc["main"] = "received" => Main.version \in Versions
  /\ pc["main"] \in Trying =>
       /\ Main.version \in Versions
       /\ Main.current = status[Main.engine]
       /\ Main.current.version <= Main.version
  /\ pc["main"] = "replace" => tmp[Main.engine] = Main.version
  /\ pc["main"] \in {"reload", "health"} => target[Main.engine] = Main.version
  /\ pc["main"] = "reloadOld" => ~Main.applied
  /\ pc["main"] \in {"reloadOld", "readStatus", "writeStatus"} =>
       Outcome(status[Main.engine], Main.entry)
  /\ pc["main"] = "writeStatus" => Main.seen = status
  /\ pc["main"] = "replaceStatus" =>
       /\ statusTmp \in StatusFile
       /\ Outcome(status[Main.engine], statusTmp[Main.engine])
       /\ \A f \in Engines \ {Main.engine} : statusTmp[f] = status[f]
  /\ pc["main"] = "ack" /\ Main.applied =>
       /\ Main.version \in Good
       /\ Main.version <= status[Main.engine].version

RegInv == TypeOK /\ CallInv /\ AckedIsRecorded

-----------------------------------------------------------------------------
\* The rule file, its backup and the IDS, until the process is first killed.

\* `entry` describes the rules of engine e: the file and, if ok, the IDS.
Describes(entry, e) ==
  /\ target[e] = entry.version
  /\ entry.ok => loaded[e] = entry.version

FileInv ==
  ~killed =>
    /\ \A e \in Engines : status[e].version \in Good \union {0}
    /\ \A e \in Engines \ {Main.engine} : Describes(status[e], e)
    /\ pc["main"] \in {"idle", "requested", "received", "backup", "writeTmp",
                       "replace", "ack"} =>
         Describes(status[Main.engine], Main.engine)
    /\ pc["main"] = "reload" /\ status[Main.engine].ok =>
         loaded[Main.engine] = status[Main.engine].version
    /\ pc["main"] = "health" => loaded[Main.engine] = Main.version
    /\ pc["main"] \in Trying \ {"backup"} =>
         /\ Main.had <=> status[Main.engine].version # 0
         /\ Main.had => backup[Main.engine] = status[Main.engine].version
    /\ pc["main"] = "reloadOld" =>
         /\ target[Main.engine] = Main.entry.version
         /\ ~Main.entry.ok
    /\ pc["main"] \in {"readStatus", "writeStatus"} =>
         Describes(Main.entry, Main.engine)
    /\ pc["main"] = "replaceStatus" =>
         Describes(statusTmp[Main.engine], Main.engine)

IInv == RegInv /\ FileInv

-----------------------------------------------------------------------------
\* Type correctness, for one thread and for two.

LEMMA NoJobType == NoJob \in Job
  BY ConstantsAssumption DEF NoJob, Job, Entry, NoEntry, StatusFile

\* A step of a thread's control flow keeps labels and locals well-typed.
LEMMA GoType ==
  ASSUME TypeOK, NEW t \in Threads, NEW label \in Labels, NEW locals \in Job,
         Go(t, label, locals)
  PROVE  /\ pc' \in [Threads -> Labels]
         /\ job' \in [Threads -> Job]
  BY DEF TypeOK, Go

LEMMA ReturnType ==
  ASSUME TypeOK, NEW t \in Threads, Return(t)
  PROVE  /\ pc' \in [Threads -> Labels]
         /\ job' \in [Threads -> Job]
  BY GoType, NoJobType DEF Return, Labels

LEMMA RestartType ==
  ASSUME Restart
  PROVE  /\ pc' \in [Threads -> Labels]
         /\ job' \in [Threads -> Job]
         /\ initial' \in SUBSET Engines
         /\ mail' \in SUBSET Engines
  BY NoJobType DEF Restart, Labels

LEMMA RaiseType ==
  ASSUME TypeOK, NEW t \in Threads, Raise(t)
  PROVE  /\ pc' \in [Threads -> Labels]
         /\ job' \in [Threads -> Job]
         /\ initial' \in SUBSET Engines
         /\ mail' \in SUBSET Engines
  <1>1. CASE Restart
    BY <1>1, RestartType
  <1>2. CASE Go(t, "dead", NoJob) /\ UNCHANGED process
    BY <1>2, GoType, NoJobType DEF Labels, process, TypeOK
  <1> QED BY <1>1, <1>2 DEF Raise

\* The locals a step may leave behind are well-typed.
LEMMA OutcomeType ==
  ASSUME NEW j \in Job, NEW entry \in Entry
  PROVE  /\ NotApplied(j, entry) \in Job
         /\ Applied(j) \in Job
         /\ Failed(j) \in Job
  BY ConstantsAssumption
     DEF NotApplied, Applied, Failed, NoJob, Job, Entry, NoEntry, StatusFile

LEMMA PullType ==
  ASSUME TypeOK, NEW t \in Threads, NEW e \in Engines, PullRequest(t, e)
  PROVE  TypeOK'
  <1> DEFINE force == t = "main" /\ initial # {}
             locals == [NoJob EXCEPT !.engine = e,
                                     !.etag = IF force THEN 0 ELSE status[e].version]
  <1>1. locals \in Job
    BY NoJobType DEF TypeOK, Job, StatusFile, Entry
  <1>2. pc' \in [Threads -> Labels] /\ job' \in [Threads -> Job]
    <2> HIDE DEF locals
    <2>1. Go(t, "requested", locals)
      BY DEF PullRequest, locals
    <2> QED BY <1>1, <2>1, GoType DEF Labels
  <1> QED BY <1>2 DEF TypeOK, PullRequest, control, rules, records

LEMMA TypeInit == Init => TypeOK
  <1> SUFFICES ASSUME Init PROVE TypeOK
    OBVIOUS
  <1>1. job \in [Threads -> Job] /\ pc \in [Threads -> Labels]
    BY NoJobType DEF Init, Labels
  <1>2. status \in StatusFile /\ statusTmp \in StatusFile \union {NoStatusTmp}
    BY DEF Init, StatusFile, NoEntry, Entry
  <1>3. /\ target \in [Engines -> Content]
        /\ backup \in [Engines -> Content]
        /\ tmp \in [Engines -> Versions \union {Absent}]
        /\ loaded \in [Engines -> Content]
    BY DEF Init, Content
  <1>4. /\ active \in [Engines -> Versions \union {0}]
        /\ acked \in [Engines -> Versions \union {0}]
        /\ published \in 0 .. MaxPublish
    BY ConstantsAssumption DEF Init
  <1>5. /\ mail \in SUBSET Engines
        /\ initial \in SUBSET Engines
        /\ healthcheckCmd \in BOOLEAN
        /\ killed \in BOOLEAN
    BY DEF Init
  <1> QED
    BY <1>1, <1>2, <1>3, <1>4, <1>5 DEF TypeOK

LEMMA TypeStep ==
  ASSUME TypeOK, [Next]_vars
  PROVE  TypeOK'
  <1> USE DEF control, process, rules, records
  <1>1. ASSUME NEW e \in Engines, Publish(e)
        PROVE  TypeOK'
    <2>1. published' \in 0 .. MaxPublish
      BY <1>1, ConstantsAssumption DEF Publish, TypeOK
    <2>2. active' \in [Engines -> Versions \union {0}]
      BY <1>1 DEF Publish, TypeOK
    <2>3. mail' \in SUBSET Engines
      BY <1>1 DEF Publish, TypeOK
    <2> QED BY <1>1, <2>1, <2>2, <2>3 DEF Publish, TypeOK
  <1>2. ASSUME NEW t \in Threads, NEW e \in Engines, PullRequest(t, e)
        PROVE  TypeOK'
    BY <1>2, PullType
  <1>3. ASSUME NEW t \in Threads, Handle(t)
        PROVE  TypeOK'
    <2>0. /\ job[t] \in Job
          /\ status[job[t].engine] \in Entry
          /\ active[job[t].engine] \in Versions \union {0}
          /\ job[t].engine \in Engines
      BY DEF TypeOK, Job, StatusFile
    <2>1. CASE PullFails(t)
      BY <2>1, ReturnType DEF PullFails, TypeOK
    <2>2. CASE PullNothingNew(t)
      BY <2>2, ReturnType DEF PullNothingNew, TypeOK
    <2>3. CASE PullReceives(t)
      <3> DEFINE e == job[t].engine
                 locals == [NoJob EXCEPT !.engine = e, !.version = active[e]]
      <3>1. locals \in Job
        BY <2>0, NoJobType DEF Job
      <3>2. Go(t, "received", locals)
        BY <2>3 DEF PullReceives
      <3> HIDE DEF locals
      <3> QED BY <2>3, <3>1, <3>2, GoType DEF PullReceives, TypeOK, Labels
    <2>4. CASE ApplyUnchanged(t)
      BY <2>4, ReturnType DEF ApplyUnchanged, TypeOK
    <2>5. CASE ApplyBlocked(t)
      BY <2>5, ReturnType DEF ApplyBlocked, TypeOK
    <2>6. CASE ApplyStale(t)
      BY <2>0, <2>6, OutcomeType, GoType DEF ApplyStale, TypeOK, Labels
    <2>7. CASE ApplyBegin(t)
      <3> DEFINE locals == [job[t] EXCEPT !.current = status[job[t].engine]]
      <3>1. locals \in Job
        BY <2>0 DEF Job
      <3>2. Go(t, "backup", locals)
        BY <2>7 DEF ApplyBegin
      <3> HIDE DEF locals
      <3> QED BY <2>7, <3>1, <3>2, GoType DEF ApplyBegin, TypeOK, Labels
    <2>8. CASE Backup(t)
      <3> DEFINE locals == [job[t] EXCEPT !.had = target[job[t].engine] # Absent]
      <3>1. locals \in Job
        BY <2>0 DEF Job
      <3>2. Go(t, "writeTmp", locals)
        BY <2>8 DEF Backup
      <3> HIDE DEF locals
      <3>3. pc' \in [Threads -> Labels] /\ job' \in [Threads -> Job]
        BY <3>1, <3>2, GoType DEF Labels
      <3>4. backup' \in [Engines -> Content]
        BY <2>0, <2>8 DEF Backup, TypeOK
      <3> QED BY <2>8, <3>3, <3>4 DEF Backup, TypeOK
    <2>9. CASE WriteTmp(t)
      <3>1. pc' \in [Threads -> Labels] /\ job' \in [Threads -> Job]
        BY <2>0, <2>9, GoType DEF WriteTmp, Labels
      <3>2. tmp' \in [Engines -> Versions \union {Absent}]
        BY <2>0, <2>9 DEF WriteTmp, TypeOK, Job, Absent
      <3> QED BY <2>9, <3>1, <3>2 DEF WriteTmp, TypeOK
    <2>10. CASE Replace(t)
      <3>1. pc' \in [Threads -> Labels] /\ job' \in [Threads -> Job]
        BY <2>0, <2>10, GoType DEF Replace, Labels
      <3>2. /\ tmp' \in [Engines -> Versions \union {Absent}]
            /\ target' \in [Engines -> Content]
        BY <2>0, <2>10 DEF Replace, TypeOK, Content
      <3> QED BY <2>10, <3>1, <3>2 DEF Replace, TypeOK
    <2>11. CASE ReplaceRaises(t)
      BY <2>11, RaiseType DEF ReplaceRaises, TypeOK
    <2>12. CASE ReloadSucceeds(t)
      <3>1. pc' \in [Threads -> Labels] /\ job' \in [Threads -> Job]
        BY <2>0, <2>12, GoType DEF ReloadSucceeds, Labels
      <3>2. loaded' \in [Engines -> Content]
        BY <2>0, <2>12 DEF ReloadSucceeds, TypeOK
      <3> QED BY <2>12, <3>1, <3>2 DEF ReloadSucceeds, TypeOK
    <2>13. CASE ReloadFails(t)
      BY <2>0, <2>13, GoType DEF ReloadFails, TypeOK, Labels
    <2>14. CASE HealthSucceeds(t)
      BY <2>0, <2>14, OutcomeType, GoType DEF HealthSucceeds, TypeOK, Labels
    <2>15. CASE HealthFails(t)
      BY <2>0, <2>15, GoType DEF HealthFails, TypeOK, Labels
    <2>16. CASE RestoreBackup(t)
      <3>1. pc' \in [Threads -> Labels] /\ job' \in [Threads -> Job]
        BY <2>0, <2>16, OutcomeType, GoType DEF RestoreBackup, Labels
      <3>2. target' \in [Engines -> Content]
        BY <2>0, <2>16 DEF RestoreBackup, TypeOK
      <3> QED BY <2>16, <3>1, <3>2 DEF RestoreBackup, TypeOK
    <2>17. CASE RemoveRules(t)
      <3>1. pc' \in [Threads -> Labels] /\ job' \in [Threads -> Job]
        BY <2>0, <2>17, OutcomeType, GoType DEF RemoveRules, Labels
      <3>2. target' \in [Engines -> Content]
        BY <2>0, <2>17 DEF RemoveRules, TypeOK, Content
      <3> QED BY <2>17, <3>1, <3>2 DEF RemoveRules, TypeOK
    <2>18. CASE ReloadOld(t)
      <3>1. pc' \in [Threads -> Labels] /\ job' \in [Threads -> Job]
        BY <2>0, <2>18, GoType DEF ReloadOld, Labels
      <3>2. loaded' \in [Engines -> Content]
        BY <2>0, <2>18 DEF ReloadOld, TypeOK
      <3> QED BY <2>18, <3>1, <3>2 DEF ReloadOld, TypeOK
    <2>19. CASE ReadStatus(t)
      <3> DEFINE locals == [job[t] EXCEPT !.seen = status]
      <3>1. locals \in Job
        BY <2>0 DEF Job, TypeOK
      <3>2. Go(t, "writeStatus", locals)
        BY <2>19 DEF ReadStatus
      <3> HIDE DEF locals
      <3> QED BY <2>19, <3>1, <3>2, GoType DEF ReadStatus, TypeOK, Labels
    <2>20. CASE WriteStatus(t)
      <3> DEFINE locals == [job[t] EXCEPT !.entry = NoEntry, !.seen = NoJob.seen]
      <3>1. locals \in Job
        BY <2>0, NoJobType, ConstantsAssumption DEF Job, NoEntry, Entry
      <3>2. Go(t, "replaceStatus", locals)
        BY <2>20 DEF WriteStatus
      <3> HIDE DEF locals
      <3>3. pc' \in [Threads -> Labels] /\ job' \in [Threads -> Job]
        BY <3>1, <3>2, GoType DEF Labels
      <3>4. statusTmp' \in StatusFile
        BY <2>0, <2>20 DEF WriteStatus, Job, StatusFile
      <3> QED BY <2>20, <3>3, <3>4 DEF WriteStatus, TypeOK
    <2>21. CASE ReplaceStatus(t)
      <3>1. pc' \in [Threads -> Labels] /\ job' \in [Threads -> Job]
        BY <2>0, <2>21, GoType DEF ReplaceStatus, Labels
      <3>2. status' \in StatusFile /\ statusTmp' = NoStatusTmp
        BY <2>21 DEF ReplaceStatus, TypeOK
      <3> QED BY <2>21, <3>1, <3>2 DEF ReplaceStatus, TypeOK
    <2>22. CASE ReplaceStatusRaises(t)
      BY <2>22, RaiseType DEF ReplaceStatusRaises, TypeOK
    <2>23. CASE EmitAck(t)
      <3>1. acked' \in [Engines -> Versions \union {0}]
        BY <2>0, <2>23 DEF EmitAck, TypeOK, Job
      <3> QED BY <2>23, <3>1, ReturnType DEF EmitAck, TypeOK
    <2> QED
      BY <1>3, <2>1, <2>2, <2>3, <2>4, <2>5, <2>6, <2>7, <2>8, <2>9, <2>10,
         <2>11, <2>12, <2>13, <2>14, <2>15, <2>16, <2>17, <2>18, <2>19, <2>20,
         <2>21, <2>22, <2>23 DEF Handle
  <1>4. CASE Crash
    <2>1. target' \in [Engines -> Content] /\ backup' \in [Engines -> Content]
      <3>1. CASE UNCHANGED <<target, backup>>
        BY <3>1 DEF TypeOK
      <3>2. ASSUME NEW t \in Threads, Tears(t)
            PROVE  target' \in [Engines -> Content] /\ backup' \in [Engines -> Content]
        BY <3>2 DEF Tears, TypeOK, Content
      <3> QED BY <1>4, <3>1, <3>2 DEF Crash
    <2> QED BY <1>4, <2>1, RestartType DEF Crash, TypeOK
  <1>5. CASE UNCHANGED vars
    BY <1>5 DEF vars, TypeOK
  <1> QED BY <1>1, <1>2, <1>3, <1>4, <1>5 DEF Next

\* Every variable of the rule synchronisation keeps its type, whatever the
\* threads, failed commands, exceptions and kills do.
THEOREM TypeCorrect == Spec => []TypeOK
  BY TypeInit, TypeStep, PTL DEF Spec

-----------------------------------------------------------------------------
\* The status file as a register, for the main thread alone, across kills.

LEMMA GoMain ==
  ASSUME TypeOK, ~MqttEnabled, NEW label \in Labels, NEW locals \in Job,
         Go("main", label, locals)
  PROVE  pc'["main"] = label /\ Main' = locals
  BY DEF TypeOK, Go, Threads, Main

LEMMA OutcomeFields ==
  ASSUME NEW j \in Job, NEW entry \in Entry
  PROVE  /\ NotApplied(j, entry).engine = j.engine
         /\ NotApplied(j, entry).entry = entry
         /\ NotApplied(j, entry).applied = FALSE
         /\ Applied(j).engine = j.engine
         /\ Applied(j).version = j.version
         /\ Applied(j).entry = [version |-> j.version, ok |-> TRUE]
         /\ Applied(j).applied = TRUE
  BY DEF NotApplied, Applied, NoJob, Job, Entry

\* A call that has returned, or a process just restarted, owes nothing.
LEMMA IdleInv ==
  ASSUME pc'["main"] \in {"idle", "requested"}
  PROVE  CallInv'
  BY DEF CallInv, Trying

LEMMA RestartMain ==
  ASSUME ~MqttEnabled, Restart
  PROVE  pc'["main"] = "idle" /\ Main' = NoJob
  BY DEF Restart, Threads, Main

LEMMA ReturnMain ==
  ASSUME TypeOK, ~MqttEnabled, Return("main")
  PROVE  pc'["main"] = "idle" /\ Main' = NoJob
  BY GoMain, NoJobType DEF Return, Labels

\* A bundle received, refused, tried, accepted or rolled back: what the call
\* holds keeps agreeing with the disk, and the status file changes only by a
\* step of the register.
LEMMA RegHandle ==
  ASSUME ~MqttEnabled, RegInv, Handle("main")
  PROVE  /\ CallInv'
         /\ AckedIsRecorded'
         /\ UNCHANGED status \/ Register!Next
  <1> USE DEF control, process, rules, records, At
  <1>0. /\ Main \in Job
        /\ Main.engine \in Engines
        /\ status \in StatusFile
        /\ status[Main.engine] \in Entry
        /\ active[Main.engine] \in Versions \union {0}
        /\ TypeOK
    BY DEF RegInv, TypeOK, Job, StatusFile, Main, Threads
  <1>1. CASE PullFails("main")
    BY <1>0, <1>1, IdleInv, ReturnMain DEF PullFails, RegInv, AckedIsRecorded
  <1>2. CASE PullNothingNew("main")
    BY <1>0, <1>2, IdleInv, ReturnMain DEF PullNothingNew, RegInv, AckedIsRecorded
  <1>3. CASE PullReceives("main")
    <2> DEFINE locals == [NoJob EXCEPT !.engine = Main.engine,
                                       !.version = active[Main.engine]]
    <2>1. locals \in Job /\ locals.version = active[Main.engine]
      BY <1>0, NoJobType DEF Job
    <2>2. Go("main", "received", locals)
      BY <1>3 DEF PullReceives, Main
    <2>3. active[Main.engine] \in Versions
      BY <1>0, <1>3 DEF PullReceives, Main
    <2> HIDE DEF locals
    <2>4. pc'["main"] = "received" /\ Main' = locals
      BY <1>0, <2>1, <2>2, GoMain DEF Labels
    <2> QED
      BY <1>3, <2>1, <2>3, <2>4 DEF PullReceives, RegInv, AckedIsRecorded, CallInv, Trying
  <1>4. CASE ApplyUnchanged("main")
    BY <1>0, <1>4, IdleInv, ReturnMain DEF ApplyUnchanged, RegInv, AckedIsRecorded
  <1>5. CASE ApplyBlocked("main")
    BY <1>0, <1>5, IdleInv, ReturnMain DEF ApplyBlocked, RegInv, AckedIsRecorded
  <1>6. CASE ApplyStale("main")
    <2> DEFINE locals == NotApplied(Main, status[Main.engine])
    <2>1. /\ locals \in Job
          /\ locals.engine = Main.engine
          /\ locals.entry = status[Main.engine]
          /\ locals.applied = FALSE
      BY <1>0, OutcomeType, OutcomeFields
    <2>2. Go("main", "readStatus", locals)
      BY <1>6 DEF ApplyStale, Main
    <2> HIDE DEF locals
    <2>3. pc'["main"] = "readStatus" /\ Main' = locals
      BY <1>0, <2>1, <2>2, GoMain DEF Labels
    <2> QED
      BY <1>0, <1>6, <2>1, <2>3
         DEF ApplyStale, RegInv, AckedIsRecorded, CallInv, Trying, Outcome, MayFollow
  <1>7. CASE ApplyBegin("main")
    <2> DEFINE locals == [Main EXCEPT !.current = status[Main.engine]]
    <2>1. /\ locals \in Job
          /\ locals.engine = Main.engine
          /\ locals.version = Main.version
          /\ locals.current = status[Main.engine]
      BY <1>0 DEF Job
    <2>2. Go("main", "backup", locals)
      BY <1>7 DEF ApplyBegin, Main
    <2> HIDE DEF locals
    <2>3. pc'["main"] = "backup" /\ Main' = locals
      BY <1>0, <2>1, <2>2, GoMain DEF Labels
    <2>4. Main.version \in Versions /\ status[Main.engine].version <= Main.version
      BY <1>0, <1>7 DEF ApplyBegin, RegInv, CallInv, Main, Entry, Versions
    <2> QED
      BY <1>0, <1>7, <2>1, <2>3, <2>4 DEF ApplyBegin, RegInv, AckedIsRecorded, CallInv
  <1>8. CASE Backup("main")
    <2> DEFINE locals == [Main EXCEPT !.had = target[Main.engine] # Absent]
    <2>1. /\ locals \in Job
          /\ locals.engine = Main.engine
          /\ locals.version = Main.version
          /\ locals.current = Main.current
      BY <1>0 DEF Job
    <2>2. Go("main", "writeTmp", locals)
      BY <1>8 DEF Backup, Main
    <2> HIDE DEF locals
    <2>3. pc'["main"] = "writeTmp" /\ Main' = locals
      BY <1>0, <2>1, <2>2, GoMain DEF Labels
    <2> QED
      BY <1>0, <1>8, <2>1, <2>3 DEF Backup, RegInv, AckedIsRecorded, CallInv, Trying
  <1>9. CASE WriteTmp("main")
    <2>1. pc'["main"] = "replace" /\ Main' = Main
      BY <1>0, <1>9, GoMain DEF WriteTmp, Main, Labels
    <2>2. tmp'[Main.engine] = Main.version
      BY <1>0, <1>9 DEF WriteTmp, Main, TypeOK
    <2> QED
      BY <1>0, <1>9, <2>1, <2>2 DEF WriteTmp, RegInv, AckedIsRecorded, CallInv, Trying
  <1>10. CASE Replace("main")
    <2>1. pc'["main"] = "reload" /\ Main' = Main
      BY <1>0, <1>10, GoMain DEF Replace, Main, Labels
    <2>2. target'[Main.engine] = Main.version
      BY <1>0, <1>10 DEF Replace, Main, TypeOK, RegInv, CallInv
    <2> QED
      BY <1>0, <1>10, <2>1, <2>2 DEF Replace, RegInv, AckedIsRecorded, CallInv, Trying
  <1>11. CASE ReplaceRaises("main")
    <2>1. Main.version = Absent
      BY <1>0, <1>11 DEF ReplaceRaises, RegInv, CallInv, Main
    <2>2. Main.version \in Versions
      BY <1>0, <1>11 DEF ReplaceRaises, RegInv, CallInv, Main, Trying
    <2> QED BY <2>1, <2>2 DEF Versions, Absent
  <1>12. CASE ReloadSucceeds("main")
    <2>1. pc'["main"] = "health" /\ Main' = Main
      BY <1>0, <1>12, GoMain DEF ReloadSucceeds, Main, Labels
    <2> QED
      BY <1>0, <1>12, <2>1 DEF ReloadSucceeds, RegInv, AckedIsRecorded, CallInv, Trying
  <1>13. CASE ReloadFails("main")
    <2>1. pc'["main"] = "restore" /\ Main' = Main
      BY <1>0, <1>13, GoMain DEF ReloadFails, Main, Labels
    <2> QED
      BY <1>0, <1>13, <2>1 DEF ReloadFails, RegInv, AckedIsRecorded, CallInv, Trying
  <1>14. CASE HealthSucceeds("main")
    <2> DEFINE locals == Applied(Main)
    <2>1. /\ locals \in Job
          /\ locals.engine = Main.engine
          /\ locals.version = Main.version
          /\ locals.entry = [version |-> Main.version, ok |-> TRUE]
      BY <1>0, OutcomeType, OutcomeFields
    <2>2. Go("main", "readStatus", locals)
      BY <1>14 DEF HealthSucceeds, Main
    <2>3. /\ Main.version \in Good
          /\ status[Main.engine].version <= Main.version
      BY <1>0, <1>14 DEF HealthSucceeds, RegInv, CallInv, Trying, Main
    <2> HIDE DEF locals
    <2>4. pc'["main"] = "readStatus" /\ Main' = locals
      BY <1>0, <2>1, <2>2, GoMain DEF Labels
    <2>5. UNCHANGED status
      BY <1>14 DEF HealthSucceeds
    <2>6. Outcome(status[Main.engine], Main.entry)'
      <3>1. /\ Main'.version = Main.version
            /\ Main'.entry = [version |-> Main.version, ok |-> TRUE]
            /\ status'[Main'.engine] = status[Main.engine]
        BY <2>1, <2>4, <2>5
      <3>2. /\ Main'.entry.ok
            /\ Main'.entry.version = Main.version
        BY <3>1
      <3> QED BY <2>3, <3>1, <3>2 DEF Outcome, MayFollow
    <2>7. CallInv'
      BY <2>4, <2>6 DEF CallInv, Trying
    <2> QED
      BY <1>14, <2>5, <2>7 DEF HealthSucceeds, RegInv, AckedIsRecorded
  <1>15. CASE HealthFails("main")
    <2>1. pc'["main"] = "restore" /\ Main' = Main
      BY <1>0, <1>15, GoMain DEF HealthFails, Main, Labels
    <2> QED
      BY <1>0, <1>15, <2>1 DEF HealthFails, RegInv, AckedIsRecorded, CallInv, Trying
  <1>16. ASSUME RestoreBackup("main") \/ RemoveRules("main")
         PROVE  CallInv' /\ AckedIsRecorded' /\ UNCHANGED status
    <2> DEFINE entry == [version |-> Main.current.version, ok |-> FALSE]
               locals == NotApplied(Main, entry)
    <2>1. entry \in Entry
      BY <1>0 DEF Job, Entry
    <2>2. /\ locals \in Job
          /\ locals.engine = Main.engine
          /\ locals.entry = entry
          /\ locals.applied = FALSE
      BY <1>0, <2>1, OutcomeType, OutcomeFields
    <2>3. PICK label \in {"reloadOld", "readStatus"} : Go("main", label, locals)
      BY <1>16 DEF RestoreBackup, RemoveRules, Main, Failed
    <2>4. Main.current = status[Main.engine]
      BY <1>0, <1>16 DEF RestoreBackup, RemoveRules, RegInv, CallInv, Trying, Main
    <2> HIDE DEF locals
    <2>5. pc'["main"] \in {"reloadOld", "readStatus"} /\ Main' = locals
      BY <1>0, <2>2, <2>3, GoMain DEF Labels
    <2> QED
      BY <1>0, <1>16, <2>2, <2>4, <2>5
         DEF RestoreBackup, RemoveRules, RegInv, AckedIsRecorded, CallInv, Trying,
             Outcome, MayFollow
  <1>17. CASE ReloadOld("main")
    <2>1. pc'["main"] = "readStatus" /\ Main' = Main
      BY <1>0, <1>17, GoMain DEF ReloadOld, Main, Labels
    <2> QED
      BY <1>0, <1>17, <2>1
         DEF ReloadOld, RegInv, AckedIsRecorded, CallInv, Trying, Outcome
  <1>18. CASE ReadStatus("main")
    <2> DEFINE locals == [Main EXCEPT !.seen = status]
    <2>1. /\ locals \in Job
          /\ locals.engine = Main.engine
          /\ locals.version = Main.version
          /\ locals.applied = Main.applied
          /\ locals.entry = Main.entry
          /\ locals.seen = status
      BY <1>0 DEF Job
    <2>2. Go("main", "writeStatus", locals)
      BY <1>18 DEF ReadStatus, Main
    <2> HIDE DEF locals
    <2>3. pc'["main"] = "writeStatus" /\ Main' = locals
      BY <1>0, <2>1, <2>2, GoMain DEF Labels
    <2> QED
      BY <1>0, <1>18, <2>1, <2>3
         DEF ReadStatus, RegInv, AckedIsRecorded, CallInv, Trying, Outcome
  <1>19. CASE WriteStatus("main")
    <2> DEFINE locals == [Main EXCEPT !.entry = NoEntry, !.seen = NoJob.seen]
    <2>1. /\ locals \in Job
          /\ locals.engine = Main.engine
          /\ locals.version = Main.version
          /\ locals.applied = Main.applied
      BY <1>0, NoJobType, ConstantsAssumption DEF Job, NoEntry, Entry
    <2>2. Go("main", "replaceStatus", locals)
      BY <1>19 DEF WriteStatus, Main
    <2> HIDE DEF locals
    <2>3. pc'["main"] = "replaceStatus" /\ Main' = locals
      BY <1>0, <2>1, <2>2, GoMain DEF Labels
    <2>4. statusTmp' = [status EXCEPT ![Main.engine] = Main.entry]
      BY <1>19 DEF WriteStatus, RegInv, CallInv, Main
    <2>5. /\ statusTmp' \in StatusFile
          /\ statusTmp'[Main.engine] = Main.entry
          /\ \A f \in Engines \ {Main.engine} : statusTmp'[f] = status[f]
      BY <1>0, <2>4 DEF StatusFile, Job
    <2>6. Outcome(status[Main.engine], Main.entry)
      BY <1>19 DEF WriteStatus, RegInv, CallInv
    <2> QED
      BY <1>0, <1>19, <2>1, <2>3, <2>5, <2>6
         DEF WriteStatus, RegInv, AckedIsRecorded, CallInv, Trying, Outcome
  <1>20. CASE ReplaceStatus("main")
    <2>1. pc'["main"] = "ack" /\ Main' = Main
      BY <1>0, <1>20, GoMain DEF ReplaceStatus, Main, Labels
    <2>2. /\ status' = statusTmp
          /\ status' \in StatusFile
          /\ Outcome(status[Main.engine], status'[Main.engine])
          /\ \A f \in Engines \ {Main.engine} : status'[f] = status[f]
      BY <1>20 DEF ReplaceStatus, RegInv, CallInv
    <2>3. status' = [status EXCEPT ![Main.engine] = status'[Main.engine]]
      BY <1>0, <2>2 DEF StatusFile
    <2>4. \A f \in Engines : /\ status[f] \in Entry
                             /\ status'[f] \in Entry
                             /\ status[f].version <= status'[f].version
      BY <1>0, <2>2 DEF StatusFile, Entry, Outcome, MayFollow, Versions
    <2>5. UNCHANGED status \/ Register!Next
      <3> DEFINE old == status[Main.engine]
                 new == status'[Main.engine]
      <3>1. old \in Entry /\ new \in Entry
        BY <1>0, <2>4
      <3>2. CASE new.ok /\ new.version \in Good /\ old.version <= new.version
        <4>1. new = [version |-> new.version, ok |-> TRUE]
          BY <3>1, <3>2 DEF Entry
        <4>2. Register!Accept(Main.engine)
          BY <1>0, <2>3, <3>2, <4>1 DEF Register!Accept, Entry, Versions
        <4> QED BY <1>0, <4>2 DEF Register!Next
      <3>3. CASE new.version = old.version /\ (new.ok => old.ok)
        <4>1. CASE new.ok
          <5>1. new = old
            BY <3>1, <3>3, <4>1 DEF Entry
          <5> QED BY <1>0, <2>3, <5>1 DEF StatusFile
        <4>2. CASE ~new.ok
          <5>1. new = [version |-> old.version, ok |-> FALSE]
            BY <3>1, <3>3, <4>2 DEF Entry
          <5>2. Register!Reject(Main.engine)
            BY <2>3, <5>1 DEF Register!Reject
          <5> QED BY <1>0, <5>2 DEF Register!Next
        <4> QED BY <4>1, <4>2
      <3> QED BY <2>2, <3>2, <3>3 DEF Outcome, MayFollow
    <2>6. AckedIsRecorded'
      <3> SUFFICES ASSUME NEW f \in Engines, acked[f] # 0
                   PROVE  acked[f] \in Good /\ acked[f] <= status'[f].version
        BY <1>20 DEF ReplaceStatus, AckedIsRecorded
      <3>1. acked[f] \in Good /\ acked[f] <= status[f].version
        BY DEF RegInv, AckedIsRecorded
      <3>2. /\ acked[f] \in Int
            /\ status[f].version \in Int
            /\ status'[f].version \in Int
        <4>1. acked[f] \in 1 .. MaxVersion
          BY <3>1, ConstantsAssumption DEF Versions
        <4>2. /\ status[f].version \in (1 .. MaxVersion) \union {0}
              /\ status'[f].version \in (1 .. MaxVersion) \union {0}
          BY <2>4 DEF Entry, Versions
        <4> QED BY <4>1, <4>2
      <3>3. status[f].version <= status'[f].version
        BY <2>4
      <3> QED BY <3>1, <3>2, <3>3
    <2>7. CallInv'
      BY <1>0, <1>20, <2>1, <2>2, ConstantsAssumption
         DEF ReplaceStatus, CallInv, Trying, Outcome, MayFollow, Versions, Job
    <2> QED BY <2>5, <2>6, <2>7
  <1>21. CASE ReplaceStatusRaises("main")
    <2>1. NoStatusTmp \in StatusFile
      BY <1>21 DEF ReplaceStatusRaises, RegInv, CallInv
    <2>2. NoStatusTmp[Main.engine].version = Torn
      BY <1>0 DEF NoStatusTmp
    <2> QED BY <1>0, <2>1, <2>2 DEF StatusFile, Entry, Versions, Torn
  <1>22. CASE EmitAck("main")
    <2>1. CallInv'
      BY <1>0, <1>22, IdleInv, ReturnMain DEF EmitAck
    <2>2. AckedIsRecorded'
      BY <1>0, <1>22 DEF EmitAck, RegInv, AckedIsRecorded, CallInv, Main, TypeOK
    <2> QED BY <1>22, <2>1, <2>2 DEF EmitAck
  <1> QED
    BY <1>1, <1>2, <1>3, <1>4, <1>5, <1>6, <1>7, <1>8, <1>9, <1>10, <1>11, <1>12,
       <1>13, <1>14, <1>15, <1>16, <1>17, <1>18, <1>19, <1>20, <1>21, <1>22 DEF Handle

LEMMA RegInit ==
  ASSUME ~MqttEnabled, Init
  PROVE  RegInv /\ Register!Init
  <1>1. TypeOK
    BY TypeInit
  <1>2. CallInv
    BY DEF Init, CallInv, Trying, Threads
  <1>3. AckedIsRecorded
    BY DEF Init, AckedIsRecorded
  <1>4. Register!Init
    BY DEF Init, Register!Init, NoEntry
  <1> QED BY <1>1, <1>2, <1>3, <1>4 DEF RegInv

LEMMA RegStep ==
  ASSUME ~MqttEnabled, RegInv, [Next]_vars
  PROVE  RegInv' /\ [Register!Next]_status
  <1>1. TypeOK'
    BY TypeStep DEF RegInv
  <1>2. Threads = {"main"}
    BY DEF Threads
  <1>3. ASSUME NEW e \in Engines, Publish(e)
        PROVE  CallInv' /\ AckedIsRecorded' /\ UNCHANGED status
    BY <1>3 DEF Publish, RegInv, CallInv, Trying, Outcome, AckedIsRecorded, Main,
                rules, records
  <1>4. ASSUME NEW e \in Engines, PullRequest("main", e)
        PROVE  CallInv' /\ AckedIsRecorded' /\ UNCHANGED status
    <2>1. pc'["main"] = "requested"
      BY <1>2, <1>4 DEF PullRequest, Go, RegInv, TypeOK
    <2> QED
      BY <1>4, <2>1, IdleInv DEF PullRequest, RegInv, AckedIsRecorded, records
  <1>5. ASSUME Handle("main")
        PROVE  CallInv' /\ AckedIsRecorded' /\ (UNCHANGED status \/ Register!Next)
    BY <1>5, RegHandle
  <1>6. ASSUME Crash
        PROVE  CallInv' /\ AckedIsRecorded' /\ UNCHANGED status
    BY <1>6, RestartMain, IdleInv DEF Crash, RegInv, AckedIsRecorded, records
  <1>7. ASSUME UNCHANGED vars
        PROVE  CallInv' /\ AckedIsRecorded' /\ UNCHANGED status
    BY <1>7 DEF vars, RegInv, CallInv, Trying, Outcome, AckedIsRecorded, Main,
                rules, records
  <1> QED
    BY <1>1, <1>2, <1>3, <1>4, <1>5, <1>6, <1>7 DEF Next, RegInv

LEMMA RegCorrect ==
  ASSUME ~MqttEnabled
  PROVE  Spec => []RegInv
  <1>1. Init => RegInv
    BY RegInit
  <1>2. RegInv /\ [Next]_vars => RegInv'
    BY RegStep
  <1> QED BY <1>1, <1>2, PTL DEF Spec

\* Whatever commands fail and whenever the process is killed, the agent
\* without the MQTT subscriber changes its status file one engine at a time,
\* to a bundle the engine can run and never to an older one.
THEOREM RegisterRefinement ==
  ASSUME ~MqttEnabled
  PROVE  Spec => ImplementsRegister
  <1>1. Init => Register!Init
    BY RegInit
  <1>2. RegInv /\ [Next]_vars => [Register!Next]_status
    BY RegStep
  <1> QED
    BY <1>1, <1>2, RegCorrect, PTL DEF Spec, ImplementsRegister, Register!Spec

\* A bundle the control plane has been told is applied is one the engine can
\* run and one the status file knows, across kills.
THEOREM AckCorrect ==
  ASSUME ~MqttEnabled
  PROVE  Spec => []AckedIsRecorded
  <1>1. RegInv => AckedIsRecorded
    BY DEF RegInv
  <1> QED BY <1>1, RegCorrect, PTL

-----------------------------------------------------------------------------
\* The rule file and the IDS agree with the status file, for the main thread
\* alone, until the process is first killed.

\* A step that leaves the files, the status and the IDS alone and goes from
\* one place to another where the same is required.
LEMMA FileFrame ==
  ASSUME FileInv, UNCHANGED <<target, backup, status, loaded, killed>>,
         Main'.engine \in Engines,
         pc["main"] \in {"idle", "requested", "received", "backup", "ack"},
         pc'["main"] \in {"idle", "requested", "received", "backup"}
  PROVE  FileInv'
  <1> SUFFICES ASSUME ~killed
               PROVE  FileInv'
    BY DEF FileInv
  <1>1. /\ \A e \in Engines : status[e].version \in Good \union {0}
        /\ \A e \in Engines \ {Main.engine} : Describes(status[e], e)
        /\ Describes(status[Main.engine], Main.engine)
    BY DEF FileInv
  <1>2. \A e \in Engines : Describes(status[e], e)
    BY <1>1
  <1>3. \A e \in Engines : Describes(status[e], e)'
    BY <1>2 DEF Describes
  <1> QED BY <1>1, <1>3 DEF FileInv, Trying

\* What FileInv requires depends on where the call is; every step but the last
\* of a call keeps the engine it is about.
LEMMA FileHandle ==
  ASSUME ~MqttEnabled, IInv, ~killed, Handle("main"), TypeOK'
  PROVE  FileInv'
  <1> USE DEF control, process, rules, records, At
  <1>0. /\ Main \in Job
        /\ Main.engine \in Engines
        /\ status \in StatusFile
        /\ TypeOK
        /\ Main'.engine \in Engines
    BY DEF IInv, RegInv, TypeOK, Job, StatusFile, Main, Threads
  <1>a. /\ \A e \in Engines : status[e].version \in Good \union {0}
        /\ \A e \in Engines \ {Main.engine} : Describes(status[e], e)
    BY DEF IInv, FileInv
  <1>1. CASE PullFails("main")
    BY <1>0, <1>1, ReturnMain, FileFrame DEF PullFails, IInv
  <1>2. CASE PullNothingNew("main")
    BY <1>0, <1>2, ReturnMain, FileFrame DEF PullNothingNew, IInv
  <1>3. CASE PullReceives("main")
    <2>1. pc'["main"] = "received"
      BY <1>0, <1>3 DEF PullReceives, Go, TypeOK, Threads
    <2> QED BY <1>0, <1>3, <2>1, FileFrame DEF PullReceives, IInv
  <1>4. CASE ApplyUnchanged("main")
    BY <1>0, <1>4, ReturnMain, FileFrame DEF ApplyUnchanged, IInv
  <1>5. CASE ApplyBlocked("main")
    BY <1>0, <1>5, ReturnMain, FileFrame DEF ApplyBlocked, IInv
  <1>6. CASE ApplyStale("main")
    <2>1. /\ NotApplied(Main, status[Main.engine]) \in Job
          /\ NotApplied(Main, status[Main.engine]).engine = Main.engine
          /\ NotApplied(Main, status[Main.engine]).entry = status[Main.engine]
      BY <1>0, OutcomeType, OutcomeFields DEF StatusFile
    <2>2. pc'["main"] = "readStatus" /\ Main' = NotApplied(Main, status[Main.engine])
      BY <1>0, <1>6, <2>1, GoMain DEF ApplyStale, Main, Labels
    <2>3. Describes(status[Main.engine], Main.engine)
      BY <1>6 DEF ApplyStale, IInv, FileInv
    <2> QED
      BY <1>a, <1>6, <2>1, <2>2, <2>3 DEF ApplyStale, FileInv, Trying, Describes
  <1>7. CASE ApplyBegin("main")
    <2>1. pc'["main"] = "backup"
      BY <1>0, <1>7 DEF ApplyBegin, Go, TypeOK, Threads
    <2> QED BY <1>0, <1>7, <2>1, FileFrame DEF ApplyBegin, IInv
  <1>8. CASE Backup("main")
    <2> DEFINE had == target[Main.engine] # Absent
               locals == [Main EXCEPT !.had = had]
    <2>1. /\ locals \in Job
          /\ locals.engine = Main.engine
          /\ locals.had <=> had
      BY <1>0 DEF Job
    <2>2. Go("main", "writeTmp", locals)
      BY <1>8 DEF Backup, Main
    <2>3. /\ Describes(status[Main.engine], Main.engine)
          /\ had => backup'[Main.engine] = target[Main.engine]
      BY <1>0, <1>8 DEF Backup, IInv, FileInv, Main, TypeOK
    <2>4. /\ had <=> status[Main.engine].version # 0
          /\ had => backup'[Main.engine] = status[Main.engine].version
      BY <2>3 DEF Describes, Absent
    <2> HIDE DEF locals, had
    <2>5. pc'["main"] = "writeTmp" /\ Main' = locals
      BY <1>0, <2>1, <2>2, GoMain DEF Labels
    <2> QED
      BY <1>a, <1>8, <2>1, <2>3, <2>4, <2>5 DEF Backup, FileInv, Trying, Describes
  <1>9. CASE WriteTmp("main")
    <2>1. pc'["main"] = "replace" /\ Main' = Main
      BY <1>0, <1>9, GoMain DEF WriteTmp, Main, Labels
    <2> QED
      BY <1>a, <1>9, <2>1 DEF WriteTmp, IInv, FileInv, Trying, Describes
  <1>10. CASE Replace("main")
    <2>1. pc'["main"] = "reload" /\ Main' = Main
      BY <1>0, <1>10, GoMain DEF Replace, Main, Labels
    <2>2. \A e \in Engines \ {Main.engine} : target'[e] = target[e]
      BY <1>0, <1>10 DEF Replace, Main, TypeOK
    <2>3. /\ Describes(status[Main.engine], Main.engine)
          /\ Main.had <=> status[Main.engine].version # 0
          /\ Main.had => backup[Main.engine] = status[Main.engine].version
      BY <1>10 DEF Replace, IInv, FileInv, Trying
    <2> QED
      BY <1>a, <1>10, <2>1, <2>2, <2>3 DEF Replace, FileInv, Trying, Describes
  <1>11. CASE ReplaceRaises("main")
    <2>1. Main.version = Absent /\ Main.version \in Versions
      BY <1>0, <1>11 DEF ReplaceRaises, IInv, RegInv, CallInv, Main, Trying
    <2> QED BY <2>1 DEF Versions, Absent
  <1>12. CASE ReloadSucceeds("main")
    <2>1. pc'["main"] = "health" /\ Main' = Main
      BY <1>0, <1>12, GoMain DEF ReloadSucceeds, Main, Labels
    <2>2. \A e \in Engines \ {Main.engine} : loaded'[e] = loaded[e]
      BY <1>0, <1>12 DEF ReloadSucceeds, Main, TypeOK
    <2>3. /\ Main.had <=> status[Main.engine].version # 0
          /\ Main.had => backup[Main.engine] = status[Main.engine].version
      BY <1>12 DEF ReloadSucceeds, IInv, FileInv, Trying
    <2>4. loaded'[Main.engine] = Main.version
      BY <1>0, <1>12 DEF ReloadSucceeds, Main, TypeOK, IInv, RegInv, CallInv
    <2> QED
      BY <1>a, <1>12, <2>1, <2>2, <2>3, <2>4 DEF ReloadSucceeds, FileInv, Trying, Describes
  <1>13. CASE ReloadFails("main")
    <2>1. pc'["main"] = "restore" /\ Main' = Main
      BY <1>0, <1>13, GoMain DEF ReloadFails, Main, Labels
    <2> QED
      BY <1>a, <1>13, <2>1 DEF ReloadFails, IInv, FileInv, Trying, Describes
  <1>14. CASE HealthSucceeds("main")
    <2>1. /\ Applied(Main) \in Job
          /\ Applied(Main).engine = Main.engine
          /\ Applied(Main).entry = [version |-> Main.version, ok |-> TRUE]
      BY <1>0, OutcomeType, OutcomeFields DEF Job
    <2>2. pc'["main"] = "readStatus" /\ Main' = Applied(Main)
      BY <1>0, <1>14, <2>1, GoMain DEF HealthSucceeds, Main, Labels
    <2>3. target[Main.engine] = Main.version /\ loaded[Main.engine] = Main.version
      BY <1>14 DEF HealthSucceeds, IInv, RegInv, CallInv, FileInv
    <2>4. Describes(Main.entry, Main.engine)'
      <3>1. /\ Main'.entry.version = Main.version
            /\ Main'.engine = Main.engine
        BY <2>1, <2>2
      <3>2. UNCHANGED <<target, loaded>>
        BY <1>14 DEF HealthSucceeds
      <3> QED BY <2>3, <3>1, <3>2 DEF Describes
    <2> QED
      BY <1>a, <1>14, <2>1, <2>2, <2>4 DEF HealthSucceeds, FileInv, Trying, Describes
  <1>15. CASE HealthFails("main")
    <2>1. pc'["main"] = "restore" /\ Main' = Main
      BY <1>0, <1>15, GoMain DEF HealthFails, Main, Labels
    <2> QED
      BY <1>a, <1>15, <2>1 DEF HealthFails, IInv, FileInv, Trying, Describes
  <1>16. ASSUME RestoreBackup("main") \/ RemoveRules("main")
         PROVE  FileInv'
    <2> DEFINE entry == [version |-> Main.current.version, ok |-> FALSE]
               locals == NotApplied(Main, entry)
    <2>1. entry \in Entry
      BY <1>0 DEF Job, Entry
    <2>2. /\ locals \in Job
          /\ locals.engine = Main.engine
          /\ locals.entry = entry
      BY <1>0, <2>1, OutcomeType, OutcomeFields
    <2>3. /\ Main.current = status[Main.engine]
          /\ Main.had <=> status[Main.engine].version # 0
          /\ Main.had => backup[Main.engine] = status[Main.engine].version
      BY <1>16 DEF RestoreBackup, RemoveRules, IInv, RegInv, CallInv, FileInv, Trying
    <2>4. target'[Main.engine] = entry.version
      <3>1. CASE RestoreBackup("main")
        BY <1>0, <2>3, <3>1 DEF RestoreBackup, Main, TypeOK
      <3>2. CASE RemoveRules("main")
        BY <1>0, <2>3, <3>2 DEF RemoveRules, Main, TypeOK, Absent
      <3> QED BY <1>16, <3>1, <3>2
    <2>5. \A e \in Engines \ {Main.engine} : target'[e] = target[e]
      BY <1>0, <1>16 DEF RestoreBackup, RemoveRules, Main, TypeOK
    <2>6. PICK label \in {"reloadOld", "readStatus"} : Go("main", label, locals)
      BY <1>16 DEF RestoreBackup, RemoveRules, Main, Failed
    <2>7. ~entry.ok
      OBVIOUS
    <2> HIDE DEF locals, entry
    <2>8. pc'["main"] \in {"reloadOld", "readStatus"} /\ Main' = locals
      BY <1>0, <2>2, <2>6, GoMain DEF Labels
    <2>9. UNCHANGED <<status, loaded>>
      BY <1>16 DEF RestoreBackup, RemoveRules
    <2> QED
      BY <1>a, <2>2, <2>4, <2>5, <2>7, <2>8, <2>9 DEF FileInv, Trying, Describes
  <1>17. CASE ReloadOld("main")
    <2>1. pc'["main"] = "readStatus" /\ Main' = Main
      BY <1>0, <1>17, GoMain DEF ReloadOld, Main, Labels
    <2>2. \A e \in Engines \ {Main.engine} : loaded'[e] = loaded[e]
      BY <1>0, <1>17 DEF ReloadOld, Main, TypeOK
    <2>3. target[Main.engine] = Main.entry.version /\ ~Main.entry.ok
      BY <1>17 DEF ReloadOld, IInv, FileInv
    <2> QED
      BY <1>a, <1>17, <2>1, <2>2, <2>3 DEF ReloadOld, FileInv, Trying, Describes
  <1>18. CASE ReadStatus("main")
    <2> DEFINE locals == [Main EXCEPT !.seen = status]
    <2>1. /\ locals \in Job
          /\ locals.engine = Main.engine
          /\ locals.entry = Main.entry
      BY <1>0 DEF Job
    <2>2. Go("main", "writeStatus", locals)
      BY <1>18 DEF ReadStatus, Main
    <2> HIDE DEF locals
    <2>3. pc'["main"] = "writeStatus" /\ Main' = locals
      BY <1>0, <2>1, <2>2, GoMain DEF Labels
    <2> QED
      BY <1>a, <1>18, <2>1, <2>3 DEF ReadStatus, IInv, FileInv, Trying, Describes
  <1>19. CASE WriteStatus("main")
    <2> DEFINE locals == [Main EXCEPT !.entry = NoEntry, !.seen = NoJob.seen]
    <2>1. locals \in Job /\ locals.engine = Main.engine
      BY <1>0, NoJobType, ConstantsAssumption DEF Job, NoEntry, Entry
    <2>2. Go("main", "replaceStatus", locals)
      BY <1>19 DEF WriteStatus, Main
    <2> HIDE DEF locals
    <2>3. pc'["main"] = "replaceStatus" /\ Main' = locals
      BY <1>0, <2>1, <2>2, GoMain DEF Labels
    <2>4. statusTmp'[Main.engine] = Main.entry
      BY <1>0, <1>19 DEF WriteStatus, IInv, RegInv, CallInv, Main, StatusFile
    <2> QED
      BY <1>a, <1>19, <2>1, <2>3, <2>4 DEF WriteStatus, IInv, FileInv, Trying, Describes
  <1>20. CASE ReplaceStatus("main")
    <2>1. pc'["main"] = "ack" /\ Main' = Main
      BY <1>0, <1>20, GoMain DEF ReplaceStatus, Main, Labels
    <2>2. /\ status' = statusTmp
          /\ Outcome(status[Main.engine], statusTmp[Main.engine])
          /\ \A f \in Engines \ {Main.engine} : status'[f] = status[f]
          /\ Describes(statusTmp[Main.engine], Main.engine)
      BY <1>20 DEF ReplaceStatus, IInv, RegInv, CallInv, FileInv
    <2>3. \A e \in Engines : status'[e].version \in Good \union {0}
      BY <1>0, <1>a, <2>2 DEF Outcome, MayFollow
    <2> QED
      BY <1>a, <1>20, <2>1, <2>2, <2>3 DEF ReplaceStatus, FileInv, Trying, Describes
  <1>21. CASE ReplaceStatusRaises("main")
    <2>1. NoStatusTmp \in StatusFile
      BY <1>21 DEF ReplaceStatusRaises, IInv, RegInv, CallInv
    <2>2. NoStatusTmp[Main.engine].version = Torn
      BY <1>0 DEF NoStatusTmp
    <2> QED BY <1>0, <2>1, <2>2 DEF StatusFile, Entry, Versions, Torn
  <1>22. CASE EmitAck("main")
    BY <1>0, <1>22, ReturnMain, FileFrame DEF EmitAck, IInv
  <1> QED
    BY <1>1, <1>2, <1>3, <1>4, <1>5, <1>6, <1>7, <1>8, <1>9, <1>10, <1>11, <1>12,
       <1>13, <1>14, <1>15, <1>16, <1>17, <1>18, <1>19, <1>20, <1>21, <1>22 DEF Handle

LEMMA FileStep ==
  ASSUME ~MqttEnabled, IInv, [Next]_vars
  PROVE  IInv'
  <1>1. RegInv'
    BY RegStep DEF IInv
  <1>2. Threads = {"main"}
    BY DEF Threads
  <1>3. TypeOK /\ TypeOK'
    BY <1>1 DEF IInv, RegInv
  <1>4. ASSUME NEW e \in Engines, Publish(e)
        PROVE  FileInv'
    BY <1>4 DEF Publish, IInv, FileInv, Describes, Trying, Main, rules, records
  <1>5. ASSUME NEW e \in Engines, PullRequest("main", e)
        PROVE  FileInv'
    <2>1. pc["main"] = "idle" /\ pc'["main"] = "requested"
      BY <1>2, <1>3, <1>5 DEF PullRequest, At, Go, TypeOK
    <2>2. Main'.engine \in Engines
      BY <1>2, <1>3 DEF TypeOK, Main, Job
    <2> QED
      BY <1>5, <2>1, <2>2, FileFrame DEF PullRequest, IInv, rules, records
  <1>6. ASSUME Handle("main")
        PROVE  FileInv'
    <2>1. CASE killed
      BY <1>6, <2>1
         DEF FileInv, Handle, PullFails, PullNothingNew, PullReceives, ApplyUnchanged,
             ApplyBlocked, ApplyStale, ApplyBegin, Backup, WriteTmp, Replace,
             ReplaceRaises, ReloadSucceeds, ReloadFails, HealthSucceeds, HealthFails,
             RestoreBackup, RemoveRules, ReloadOld, ReadStatus, WriteStatus,
             ReplaceStatus, ReplaceStatusRaises, EmitAck
    <2>2. CASE ~killed
      BY <1>3, <1>6, <2>2, FileHandle
    <2> QED BY <2>1, <2>2
  <1>7. ASSUME Crash
        PROVE  FileInv'
    BY <1>7 DEF Crash, FileInv
  <1>8. ASSUME UNCHANGED vars
        PROVE  FileInv'
    BY <1>8 DEF vars, IInv, FileInv, Describes, Trying, Main, rules, records
  <1> QED
    BY <1>1, <1>2, <1>4, <1>5, <1>6, <1>7, <1>8 DEF Next, IInv

LEMMA FileInit ==
  ASSUME ~MqttEnabled, Init
  PROVE  IInv
  <1>1. Main = NoJob /\ pc["main"] = "idle" /\ Main.engine \in Engines
    BY NoJobType DEF Init, Main, Threads, Job
  <1>2. \A e \in Engines : /\ status[e].version = 0
                           /\ Describes(status[e], e)
    BY DEF Init, Describes, NoEntry, Absent
  <1>3. FileInv
    BY <1>1, <1>2 DEF FileInv, Trying
  <1> QED BY <1>3, RegInit DEF IInv

LEMMA InvCorrect ==
  ASSUME ~MqttEnabled
  PROVE  Spec => []IInv
  <1>1. Init => IInv
    BY FileInit
  <1>2. IInv /\ [Next]_vars => IInv'
    BY FileStep
  <1> QED BY <1>1, <1>2, PTL DEF Spec

\* Until the process is killed, whatever commands fail, every engine keeps the
\* last bundle that passed its health check, and the status file names it.
THEOREM LastKnownGoodCorrect ==
  ASSUME ~MqttEnabled
  PROVE  Spec => []LastKnownGood
  <1>1. ASSUME IInv, ~killed, NEW e \in Engines
        PROVE  /\ OnTrial(e) \/ target[e] \in Good \union {Absent}
               /\ At("main", "idle") => target[e] = status[e].version
    <2>1. /\ Threads = {"main"}
          /\ pc["main"] \in Labels
          /\ Main.engine \in Engines
          /\ \A f \in Engines : status[f].version \in Good \union {0}
      BY <1>1 DEF IInv, RegInv, TypeOK, FileInv, Threads, Job, Main
    <2>2. CASE e # Main.engine
      BY <1>1, <2>1, <2>2 DEF IInv, FileInv, Describes, Absent
    <2>3. CASE e = Main.engine
      <3>1. CASE pc["main"] \in {"reload", "health", "restore"}
        BY <2>1, <2>3, <3>1 DEF OnTrial, Main, At
      <3>2. CASE pc["main"] \in {"idle", "requested", "received", "backup", "writeTmp",
                                "replace", "ack"}
        BY <1>1, <2>1, <2>3, <3>2 DEF IInv, FileInv, Describes, Absent, At
      <3>3. CASE pc["main"] \in {"reloadOld", "readStatus", "writeStatus"}
        <4>1. target[e] = Main.entry.version
          BY <1>1, <2>3, <3>3 DEF IInv, FileInv, Describes
        <4>2. MayFollow(status[e], Main.entry)
          BY <1>1, <2>3, <3>3 DEF IInv, RegInv, CallInv, Outcome
        <4> QED BY <2>1, <3>3, <4>1, <4>2 DEF MayFollow, Absent, At
      <3>4. CASE pc["main"] = "replaceStatus"
        <4>1. target[e] = statusTmp[e].version
          BY <1>1, <2>3, <3>4 DEF IInv, FileInv, Describes
        <4>2. MayFollow(status[e], statusTmp[e])
          BY <1>1, <2>3, <3>4 DEF IInv, RegInv, CallInv, Outcome
        <4> QED BY <2>1, <3>4, <4>1, <4>2 DEF MayFollow, Absent, At
      <3>5. pc["main"] # "dead"
        BY <1>1 DEF IInv, RegInv, CallInv
      <3> QED BY <2>1, <3>1, <3>2, <3>3, <3>4, <3>5 DEF Labels
    <2> QED BY <2>2, <2>3
  <1>2. IInv => LastKnownGood
    BY <1>1 DEF LastKnownGood
  <1> QED BY <1>2, InvCorrect, PTL

\* Until the process is killed, an engine whose last apply is reported ok runs
\* the reported bundle between two pulls.
THEOREM EngineRunsCorrect ==
  ASSUME ~MqttEnabled
  PROVE  Spec => []EngineRunsReported
  <1>1. ASSUME IInv, ~killed, At("main", "idle"), NEW e \in Engines, status[e].ok
        PROVE  loaded[e] = status[e].version
    BY <1>1 DEF IInv, FileInv, Describes, At
  <1>2. IInv => EngineRunsReported
    BY <1>1 DEF EngineRunsReported
  <1> QED BY <1>2, InvCorrect, PTL
=============================================================================
