------------------------ MODULE Supervision_proofs -------------------------
(***************************************************************************)
(* Proofs about Supervision, for any interfaces, services and number of    *)
(* starts: what dnsmasq, the scripts and the backend find in the files     *)
(* that init.sh made, after stops between any two of its steps.            *)
(***************************************************************************)
EXTENDS Supervision, TLAPS

\* The type invariant in three parts: the host, init.sh, and the processes.
HostOK ==
    /\ container \in {"stopped", "running"}
    /\ starts \in Nat
    /\ present \in SUBSET Interfaces
    /\ configured \in Lists
    /\ obstacle \in Obstacles \cup {"none"}
    /\ reachable \in SUBSET Interfaces /\ absent \in SUBSET Interfaces

InitOK ==
    /\ initPlace \in Places \cup {"done", "failed"}
    /\ moving \in BOOLEAN
    /\ found \subseteq Interfaces
    /\ looked \subseteq Interfaces \cup {AutoIf, Blank}
    /\ resolved \in Files /\ tmp \in Files /\ conf \in Files

ProcessOK ==
    /\ leaseFile \in BOOLEAN
    /\ epochFile \in Nat
    /\ epoch \in Nat
    /\ service \in [Services -> {"down", "up", "ended", "failed"}]
    /\ backend \in {"none", "created", "opened", "configured", "loaded",
                   "serving"}
    /\ backend # "none" <=> service["backend"] = "up"
    /\ backendEpoch \in Nat
    /\ script \in Nat
    /\ container = "stopped" => script = 0 /\ \A s \in Services : service[s] = "down"

\* Where init.sh is once a step is behind it.
AfterDrop == {"ntp", "dns", "render", "done"}
AfterCopy == {"auto", "pools", "drop"} \cup AfterDrop
AfterEpoch == {"copy"} \cup AfterCopy

\* Services are started in the order of their dependencies, and init.sh has a
\* file to move only in its passes over the resolved options.
Order ==
    /\ service["dnsmasq"] # "down" => initPlace = "done"
    /\ service["backend"] # "down" => service["dnsmasq"] # "down"
    /\ script # 0 => service["dnsmasq"] # "down"
    /\ moving => initPlace \in {"auto", "pools", "drop", "ntp", "dns"}
    /\ looked # {} => initPlace = "drop" /\ ~moving

\* From the moment the epoch is written, it is the one that everybody has.
Epochs ==
    /\ initPlace \in AfterEpoch => epochFile = epoch /\ epochFile # 0
    /\ script # 0 => script = epochFile
    /\ backend \notin {"none", "created"} => backendEpoch = epochFile

\* What the options are from the copy on, and the configuration in the end.
Current ==
    /\ initPlace \in AfterCopy => resolved.current
    /\ moving => tmp.current
    /\ initPlace = "done" => conf.current

\* The list of interfaces loses nothing that it had to keep ...
Kept ==
    /\ Looking => reachable \subseteq present
    /\ initPlace \in {"reset", "truncate", "epoch", "copy"} =>
            reachable \subseteq configured
    /\ initPlace = "auto" /\ ~moving => resolved.interfaces = configured
    /\ initPlace \in AfterCopy /\ ~moving => reachable \subseteq resolved.interfaces
    /\ initPlace = "drop" /\ ~moving => reachable \cap looked \subseteq found
    /\ moving => reachable \subseteq tmp.interfaces
    /\ initPlace = "done" => reachable \subseteq conf.interfaces

\* ... and, once init.sh has dropped the missing ones, has none of them.
NoneMissing(interfaces) ==
    interfaces \subseteq Interfaces \ absent \/ interfaces = {Blank}

Dropped ==
    /\ Looking => absent \cap present = {}
    /\ found \subseteq Interfaces \ absent
    /\ initPlace \in AfterDrop => NoneMissing(resolved.interfaces)
    /\ moving /\ initPlace \in AfterDrop \cup {"drop"} => NoneMissing(tmp.interfaces)
    /\ initPlace = "done" => NoneMissing(conf.interfaces)

IInv ==
    HostOK /\ InitOK /\ ProcessOK /\ Order /\ Epochs /\ Current /\ Kept /\ Dropped

-----------------------------------------------------------------------------
LEMMA TypeParts == SupervisionTypeOK <=> HostOK /\ InitOK /\ ProcessOK
  BY DEF SupervisionTypeOK, HostOK, InitOK, ProcessOK

LEMMA StaleType == Stale \in Files
  BY DEF Stale, Files, Lists

LEMMA InitIInv == Init => IInv
<1> SUFFICES ASSUME Init PROVE IInv
  OBVIOUS
<1>1. HostOK
  BY DEF Init, HostOK, Lists
<1>2. InitOK
  BY StaleType DEF Init, InitOK, Places, After
<1>3. ProcessOK
  BY SupervisionAssumption DEF Init, ProcessOK, Services
<1>4. Order /\ Epochs /\ Current /\ Kept /\ Dropped
  BY DEF Init, Order, Epochs, Current, Kept, Dropped, NoneMissing, Services,
         AfterDrop, AfterCopy, AfterEpoch
<1> QED
  BY <1>1, <1>2, <1>3, <1>4 DEF IInv

-----------------------------------------------------------------------------
(* Every step keeps each part of the invariant.                            *)

LEMMA HostStep ==
    ASSUME IInv, [Next]_vars
    PROVE  HostOK'
<1> USE DEF historyVars
<1>1. CASE StartContainer
  <2>1. present' \in SUBSET Interfaces
    BY <1>1 DEF StartContainer
  <2>2. configured' \in Lists
    BY <1>1, SupervisionAssumption DEF StartContainer
  <2>3. obstacle' \in Obstacles \cup {"none"} /\ absent' \in SUBSET Interfaces
    BY <1>1 DEF StartContainer
  <2>4. QED
    BY <1>1, <2>1, <2>2, <2>3 DEF StartContainer, IInv, HostOK
<1>2. CASE StopContainer
  BY <1>2 DEF StopContainer, AllDown, IInv, HostOK
<1>3. CASE InterfaceAppears
  BY <1>3 DEF InterfaceAppears, IInv, HostOK
<1>4. CASE InterfaceVanishes
  BY <1>4 DEF InterfaceVanishes, IInv, HostOK
<1>5. CASE ObstacleChanges
  BY <1>5 DEF ObstacleChanges, Obstacles, Needs, IInv, HostOK
<1>6. CASE ResetLeases
  BY <1>6 DEF ResetLeases, hostVars, IInv, HostOK
<1>7. CASE TruncateEpoch
  BY <1>7 DEF TruncateEpoch, hostVars, IInv, HostOK
<1>8. CASE WriteEpoch
  BY <1>8 DEF WriteEpoch, hostVars, IInv, HostOK
<1>9. CASE CopyOptions
  BY <1>9 DEF CopyOptions, hostVars, IInv, HostOK
<1>10. CASE ResolveAuto
  BY <1>10 DEF ResolveAuto, Rewrite, hostVars, IInv, HostOK
<1>11. CASE ResolveNoAuto
  BY <1>11 DEF ResolveNoAuto, hostVars, IInv, HostOK
<1>12. CASE LookFor
  BY <1>12 DEF LookFor, hostVars, IInv, HostOK
<1>13. CASE DropMissing
  BY <1>13 DEF DropMissing, Rewrite, hostVars, IInv, HostOK
<1>14. CASE RewriteOthers
  BY <1>14 DEF RewriteOthers, Rewrite, hostVars, IInv, HostOK
<1>15. CASE SkipServers
  BY <1>15 DEF SkipServers, hostVars, IInv, HostOK
<1>16. CASE Move
  BY <1>16 DEF Move, hostVars, IInv, HostOK
<1>17. CASE Render
  BY <1>17 DEF Render, hostVars, IInv, HostOK
<1>18. CASE InitFails
  BY <1>18 DEF InitFails, hostVars, IInv, HostOK
<1>19. ASSUME NEW s \in Services, StartService(s) PROVE HostOK'
  BY <1>19 DEF StartService, Run, hostVars, IInv, HostOK
<1>20. ASSUME NEW s \in Services, Dies(s) PROVE HostOK'
  BY <1>20 DEF Dies, Ends, hostVars, IInv, HostOK
<1>21. ASSUME NEW s \in Services, Restart(s) PROVE HostOK'
  BY <1>21 DEF Restart, Run, hostVars, IInv, HostOK
<1>22. ASSUME NEW s \in Services, Finish(s) PROVE HostOK'
  BY <1>22 DEF Finish, AllDown, IInv, HostOK
<1>23. CASE StartScript
  BY <1>23 DEF StartScript, hostVars, IInv, HostOK
<1>24. CASE EndScript
  BY <1>24 DEF EndScript, hostVars, IInv, HostOK
<1>25. CASE OpenBackend
  BY <1>25 DEF OpenBackend, hostVars, IInv, HostOK
<1>26. CASE OpenBackendFails
  BY <1>26 DEF OpenBackendFails, Ends, hostVars, IInv, HostOK
<1>27. CASE ReadOptions
  BY <1>27 DEF ReadOptions, hostVars, IInv, HostOK
<1>28. CASE ReadLeases
  BY <1>28 DEF ReadLeases, hostVars, IInv, HostOK
<1>29. CASE ListenAndServeFails
  BY <1>29 DEF ListenAndServeFails, Needs, Ends, hostVars, IInv, HostOK
<1>30. CASE Serve
  BY <1>30 DEF Serve, hostVars, IInv, HostOK
<1>31. CASE UNCHANGED vars
  BY <1>31 DEF vars, hostVars, IInv, HostOK
<1> QED
  BY <1>1, <1>2, <1>3, <1>4, <1>5, <1>6, <1>7, <1>8, <1>9, <1>10, <1>11,
         <1>12, <1>13, <1>14, <1>15, <1>16, <1>17, <1>18, <1>19, <1>20,
         <1>21, <1>22, <1>23, <1>24, <1>25, <1>26, <1>27, <1>28, <1>29,
         <1>30, <1>31 DEF Next, InitStep,
         ServiceStep, BackendStep

LEMMA InitStepType ==
    ASSUME IInv, [Next]_vars
    PROVE  InitOK'
<1> USE DEF lookVars
<1>1. CASE StartContainer
  BY <1>1, StaleType DEF StartContainer, InitOK, Places, After
<1>2. CASE StopContainer
  BY <1>2 DEF StopContainer, AllDown, initVars, filesVars, IInv, InitOK
<1>3. CASE InterfaceAppears
  BY <1>3 DEF InterfaceAppears, initVars, filesVars, IInv, InitOK
<1>4. CASE InterfaceVanishes
  BY <1>4 DEF InterfaceVanishes, initVars, filesVars, IInv, InitOK
<1>5. CASE ObstacleChanges
  BY <1>5 DEF ObstacleChanges, initVars, filesVars, IInv, InitOK
<1>6. CASE ResetLeases
  BY <1>6 DEF ResetLeases, At, GoOn, Places, After, filesVars, IInv, InitOK
<1>7. CASE TruncateEpoch
  BY <1>7 DEF TruncateEpoch, At, GoOn, Places, After, filesVars, IInv, InitOK
<1>8. CASE WriteEpoch
  BY <1>8 DEF WriteEpoch, At, GoOn, Places, After, filesVars, IInv, InitOK
<1>9. CASE CopyOptions
  BY <1>9 DEF CopyOptions, At, GoOn, Places, After, IInv, HostOK, InitOK,
         Files
<1>10. CASE ResolveAuto
  BY <1>10 DEF ResolveAuto, Rewrite, IInv, HostOK, InitOK, Files, Lists
<1>11. CASE ResolveNoAuto
  BY <1>11 DEF ResolveNoAuto, At, Places, After, filesVars, IInv,
         InitOK
<1>12. CASE LookFor
  BY <1>12 DEF LookFor, At, Places, After, filesVars, IInv, HostOK,
         InitOK, Files, Lists
<1>13. CASE DropMissing
  BY <1>13 DEF DropMissing, Rewrite, IInv, Dropped, InitOK, Files, Lists
<1>14. CASE RewriteOthers
  BY <1>14 DEF RewriteOthers, Rewrite, IInv, InitOK, Files
<1>15. CASE SkipServers
  BY <1>15 DEF SkipServers, At, GoOn, Places, After, filesVars, IInv,
         InitOK
<1>16. CASE Move
  <2>1. initPlace \in {"auto", "pools", "drop", "ntp", "dns"}
    BY <1>16 DEF Move, IInv, Order
  <2>2. initPlace' \in Places
    BY <1>16, <2>1 DEF Move, GoOn, Places, After
  <2>3. QED
    BY <1>16, <2>2, StaleType DEF Move, IInv, InitOK
<1>17. CASE Render
  BY <1>17 DEF Render, At, GoOn, After, IInv, InitOK
<1>18. CASE InitFails
  BY <1>18, StaleType DEF InitFails, IInv, InitOK
<1>19. ASSUME NEW s \in Services, StartService(s) PROVE InitOK'
  BY <1>19 DEF StartService, Run, initVars, filesVars, IInv, InitOK
<1>20. ASSUME NEW s \in Services, Dies(s) PROVE InitOK'
  BY <1>20 DEF Dies, Ends, initVars, filesVars, IInv, InitOK
<1>21. ASSUME NEW s \in Services, Restart(s) PROVE InitOK'
  BY <1>21 DEF Restart, Run, initVars, filesVars, IInv, InitOK
<1>22. ASSUME NEW s \in Services, Finish(s) PROVE InitOK'
  BY <1>22 DEF Finish, AllDown, initVars, filesVars, IInv, InitOK
<1>23. CASE StartScript
  BY <1>23 DEF StartScript, initVars, filesVars, IInv, InitOK
<1>24. CASE EndScript
  BY <1>24 DEF EndScript, initVars, filesVars, IInv, InitOK
<1>25. CASE OpenBackend
  BY <1>25 DEF OpenBackend, initVars, filesVars, IInv, InitOK
<1>26. CASE OpenBackendFails
  BY <1>26 DEF OpenBackendFails, Ends, initVars, filesVars, IInv, InitOK
<1>27. CASE ReadOptions
  BY <1>27 DEF ReadOptions, initVars, filesVars, IInv, InitOK
<1>28. CASE ReadLeases
  BY <1>28 DEF ReadLeases, initVars, filesVars, IInv, InitOK
<1>29. CASE ListenAndServeFails
  BY <1>29 DEF ListenAndServeFails, Needs, Ends, initVars, filesVars, IInv,
         InitOK
<1>30. CASE Serve
  BY <1>30 DEF Serve, initVars, filesVars, IInv, InitOK
<1>31. CASE UNCHANGED vars
  BY <1>31 DEF vars, initVars, filesVars, IInv, InitOK
<1> QED
  BY <1>1, <1>2, <1>3, <1>4, <1>5, <1>6, <1>7, <1>8, <1>9, <1>10, <1>11,
         <1>12, <1>13, <1>14, <1>15, <1>16, <1>17, <1>18, <1>19, <1>20,
         <1>21, <1>22, <1>23, <1>24, <1>25, <1>26, <1>27, <1>28, <1>29,
         <1>30, <1>31 DEF Next, InitStep,
         ServiceStep, BackendStep

LEMMA ProcessStep ==
    ASSUME IInv, [Next]_vars
    PROVE  ProcessOK'
<1>1. CASE StartContainer
  BY <1>1 DEF StartContainer, epochVars, processVars, IInv, ProcessOK
<1>2. CASE StopContainer
  BY <1>2 DEF StopContainer, AllDown, epochVars, IInv, ProcessOK, Services
<1>3. CASE InterfaceAppears
  BY <1>3 DEF InterfaceAppears, epochVars, processVars, IInv, ProcessOK
<1>4. CASE InterfaceVanishes
  BY <1>4 DEF InterfaceVanishes, epochVars, processVars, IInv, ProcessOK
<1>5. CASE ObstacleChanges
  BY <1>5 DEF ObstacleChanges, epochVars, processVars, IInv, ProcessOK
<1>6. CASE ResetLeases
  BY <1>6 DEF ResetLeases, hostVars, epochVars, processVars, IInv, ProcessOK
<1>7. CASE TruncateEpoch
  BY <1>7 DEF TruncateEpoch, hostVars, processVars, IInv, ProcessOK
<1>8. CASE WriteEpoch
  BY <1>8 DEF WriteEpoch, hostVars, processVars, IInv, ProcessOK
<1>9. CASE CopyOptions
  BY <1>9 DEF CopyOptions, hostVars, epochVars, processVars, IInv, ProcessOK
<1>10. CASE ResolveAuto
  BY <1>10 DEF ResolveAuto, Rewrite, hostVars, epochVars, processVars, IInv,
         ProcessOK
<1>11. CASE ResolveNoAuto
  BY <1>11 DEF ResolveNoAuto, hostVars, epochVars, processVars, IInv,
         ProcessOK
<1>12. CASE LookFor
  BY <1>12 DEF LookFor, hostVars, epochVars, processVars, IInv,
         ProcessOK
<1>13. CASE DropMissing
  BY <1>13 DEF DropMissing, Rewrite, hostVars, epochVars, processVars, IInv,
         ProcessOK
<1>14. CASE RewriteOthers
  BY <1>14 DEF RewriteOthers, Rewrite, hostVars, epochVars, processVars, IInv,
         ProcessOK
<1>15. CASE SkipServers
  BY <1>15 DEF SkipServers, hostVars, epochVars, processVars, IInv,
         ProcessOK
<1>16. CASE Move
  BY <1>16 DEF Move, hostVars, epochVars, processVars, IInv, ProcessOK
<1>17. CASE Render
  BY <1>17 DEF Render, hostVars, epochVars, processVars, IInv, ProcessOK
<1>18. CASE InitFails
  BY <1>18 DEF InitFails, hostVars, epochVars, processVars, IInv, ProcessOK
<1>19. ASSUME NEW s \in Services, StartService(s) PROVE ProcessOK'
  BY <1>19 DEF StartService, Run, Services, hostVars, epochVars, IInv,
         ProcessOK
<1>20. ASSUME NEW s \in Services, Dies(s) PROVE ProcessOK'
  BY <1>20 DEF Dies, Ends, Services, hostVars, epochVars, IInv, ProcessOK
<1>21. ASSUME NEW s \in Services, Restart(s) PROVE ProcessOK'
  BY <1>21 DEF Restart, Run, Services, hostVars, epochVars, IInv, ProcessOK
<1>22. ASSUME NEW s \in Services, Finish(s) PROVE ProcessOK'
  BY <1>22 DEF Finish, AllDown, Services, epochVars, IInv, ProcessOK
<1>23. CASE StartScript
  BY <1>23 DEF StartScript, hostVars, epochVars, IInv, ProcessOK, Services
<1>24. CASE EndScript
  BY <1>24 DEF EndScript, hostVars, epochVars, IInv, ProcessOK
<1>25. CASE OpenBackend
  BY <1>25 DEF OpenBackend, hostVars, epochVars, IInv, ProcessOK
<1>26. CASE OpenBackendFails
  BY <1>26 DEF OpenBackendFails, Ends, Services, hostVars, epochVars, IInv,
         ProcessOK
<1>27. CASE ReadOptions
  BY <1>27 DEF ReadOptions, hostVars, epochVars, IInv, ProcessOK
<1>28. CASE ReadLeases
  BY <1>28 DEF ReadLeases, hostVars, epochVars, IInv, ProcessOK
<1>29. CASE ListenAndServeFails
  BY <1>29 DEF ListenAndServeFails, Needs, Ends, Services, hostVars,
         epochVars, IInv,
         ProcessOK
<1>30. CASE Serve
  BY <1>30 DEF Serve, hostVars, epochVars, IInv, ProcessOK
<1>31. CASE UNCHANGED vars
  BY <1>31 DEF vars, hostVars, epochVars, processVars, IInv, ProcessOK
<1> QED
  BY <1>1, <1>2, <1>3, <1>4, <1>5, <1>6, <1>7, <1>8, <1>9, <1>10, <1>11,
         <1>12, <1>13, <1>14, <1>15, <1>16, <1>17, <1>18, <1>19, <1>20,
         <1>21, <1>22, <1>23, <1>24, <1>25, <1>26, <1>27, <1>28, <1>29,
         <1>30, <1>31 DEF Next, InitStep,
         ServiceStep, BackendStep

LEMMA OrderStep ==
    ASSUME IInv, [Next]_vars
    PROVE  Order'
<1> USE DEF lookVars
<1>1. CASE StartContainer
  BY <1>1 DEF StartContainer, processVars, IInv, Order, ProcessOK, Services
<1>2. CASE StopContainer
  BY <1>2 DEF StopContainer, AllDown, initVars, IInv, Order, Services
<1>3. CASE InterfaceAppears
  BY <1>3 DEF InterfaceAppears, initVars, processVars, IInv, Order
<1>4. CASE InterfaceVanishes
  BY <1>4 DEF InterfaceVanishes, initVars, processVars, IInv, Order
<1>5. CASE ObstacleChanges
  BY <1>5 DEF ObstacleChanges, initVars, processVars, IInv, Order
<1>6. CASE ResetLeases
  BY <1>6 DEF ResetLeases, At, processVars, IInv, Order
<1>7. CASE TruncateEpoch
  BY <1>7 DEF TruncateEpoch, At, processVars, IInv, Order
<1>8. CASE WriteEpoch
  BY <1>8 DEF WriteEpoch, At, processVars, IInv, Order
<1>9. CASE CopyOptions
  BY <1>9 DEF CopyOptions, At, processVars, IInv, Order
<1>10. CASE ResolveAuto
  BY <1>10 DEF ResolveAuto, At, Rewrite, processVars, IInv, Order
<1>11. CASE ResolveNoAuto
  BY <1>11 DEF ResolveNoAuto, At, processVars, IInv, Order
<1>12. CASE LookFor
  BY <1>12 DEF LookFor, At, processVars, IInv, Order
<1>13. CASE DropMissing
  BY <1>13 DEF DropMissing, At, Rewrite, processVars, IInv, Order
<1>14. CASE RewriteOthers
  BY <1>14 DEF RewriteOthers, At, Rewrite, processVars, IInv, Order
<1>15. CASE SkipServers
  BY <1>15 DEF SkipServers, At, processVars, IInv, Order
<1>16. CASE Move
  BY <1>16 DEF Move, processVars, IInv, Order
<1>17. CASE Render
  BY <1>17 DEF Render, At, processVars, IInv, Order
<1>18. CASE InitFails
  BY <1>18 DEF InitFails, Places, processVars, IInv, Order, After
<1>19. ASSUME NEW s \in Services, StartService(s) PROVE Order'
  BY <1>19 DEF StartService, Run, DependenciesUp, initVars, IInv, Order
<1>20. ASSUME NEW s \in Services, Dies(s) PROVE Order'
  BY <1>20 DEF Dies, Ends, Services, initVars, IInv, Order, ProcessOK
<1>21. ASSUME NEW s \in Services, Restart(s) PROVE Order'
  BY <1>21 DEF Restart, Run, initVars, IInv, Order
<1>22. ASSUME NEW s \in Services, Finish(s) PROVE Order'
  BY <1>22 DEF Finish, AllDown, Services, initVars, IInv, Order
<1>23. CASE StartScript
  BY <1>23 DEF StartScript, initVars, IInv, Order
<1>24. CASE EndScript
  BY <1>24 DEF EndScript, initVars, IInv, Order
<1>25. CASE OpenBackend
  BY <1>25 DEF OpenBackend, initVars, IInv, Order
<1>26. CASE OpenBackendFails
  BY <1>26 DEF OpenBackendFails, Ends, initVars, IInv, Order, ProcessOK
<1>27. CASE ReadOptions
  BY <1>27 DEF ReadOptions, initVars, IInv, Order
<1>28. CASE ReadLeases
  BY <1>28 DEF ReadLeases, initVars, IInv, Order
<1>29. CASE ListenAndServeFails
  BY <1>29 DEF ListenAndServeFails, Needs, Ends, initVars, IInv, Order,
         ProcessOK
<1>30. CASE Serve
  BY <1>30 DEF Serve, initVars, IInv, Order
<1>31. CASE UNCHANGED vars
  BY <1>31 DEF vars, initVars, processVars, IInv, Order
<1> QED
  BY <1>1, <1>2, <1>3, <1>4, <1>5, <1>6, <1>7, <1>8, <1>9, <1>10, <1>11,
         <1>12, <1>13, <1>14, <1>15, <1>16, <1>17, <1>18, <1>19, <1>20,
         <1>21, <1>22, <1>23, <1>24, <1>25, <1>26, <1>27, <1>28, <1>29,
         <1>30, <1>31 DEF Next, InitStep,
         ServiceStep, BackendStep

LEMMA EpochsStep ==
    ASSUME IInv, [Next]_vars
    PROVE  Epochs'
<1>1. CASE StartContainer
  BY <1>1 DEF StartContainer, epochVars, processVars, IInv, Epochs,
         AfterEpoch, AfterCopy, AfterDrop
<1>2. CASE StopContainer
  BY <1>2 DEF StopContainer, AllDown, initVars, epochVars, IInv, Epochs
<1>3. CASE InterfaceAppears
  BY <1>3 DEF InterfaceAppears, initVars, epochVars, processVars, IInv, Epochs
<1>4. CASE InterfaceVanishes
  BY <1>4 DEF InterfaceVanishes, initVars, epochVars, processVars, IInv, Epochs
<1>5. CASE ObstacleChanges
  BY <1>5 DEF ObstacleChanges, initVars, epochVars, processVars, IInv, Epochs
<1>6. CASE ResetLeases
  BY <1>6 DEF ResetLeases, At, GoOn, After, epochVars, processVars, IInv,
         Epochs, AfterEpoch, AfterCopy, AfterDrop
<1>7. CASE TruncateEpoch
  BY <1>7 DEF TruncateEpoch, At, GoOn, After, processVars, IInv, Order,
         Epochs, ProcessOK, AfterEpoch, AfterCopy, AfterDrop
<1>8. CASE WriteEpoch
  BY <1>8 DEF WriteEpoch, At, processVars, IInv, Order, Epochs, ProcessOK
<1>9. CASE CopyOptions
  BY <1>9 DEF CopyOptions, At, GoOn, epochVars, processVars, IInv, Epochs,
         AfterEpoch, AfterDrop
<1>10. CASE ResolveAuto
  BY <1>10 DEF ResolveAuto, Rewrite, epochVars, processVars, IInv, Epochs
<1>11. CASE ResolveNoAuto
  BY <1>11 DEF ResolveNoAuto, At, epochVars, processVars, IInv,
         Epochs, AfterEpoch, AfterCopy, AfterDrop
<1>12. CASE LookFor
  BY <1>12 DEF LookFor, At, epochVars, processVars, IInv,
         Epochs, AfterEpoch, AfterCopy, AfterDrop
<1>13. CASE DropMissing
  BY <1>13 DEF DropMissing, Rewrite, epochVars, processVars, IInv, Epochs
<1>14. CASE RewriteOthers
  BY <1>14 DEF RewriteOthers, Rewrite, epochVars, processVars, IInv, Epochs
<1>15. CASE SkipServers
  BY <1>15 DEF SkipServers, At, GoOn, epochVars, processVars, IInv,
         Epochs, AfterEpoch, AfterCopy, AfterDrop
<1>16. CASE Move
  BY <1>16 DEF Move, GoOn, epochVars, processVars, IInv, Order, Epochs,
         AfterEpoch, AfterCopy, AfterDrop
<1>17. CASE Render
  BY <1>17 DEF Render, At, GoOn, epochVars, processVars, IInv, Epochs,
         AfterEpoch, AfterCopy, AfterDrop
<1>18. CASE InitFails
  BY <1>18 DEF InitFails, epochVars, processVars, IInv, Epochs, AfterEpoch,
         AfterCopy, AfterDrop
<1>19. ASSUME NEW s \in Services, StartService(s) PROVE Epochs'
  BY <1>19 DEF StartService, Run, initVars, epochVars, IInv, Epochs
<1>20. ASSUME NEW s \in Services, Dies(s) PROVE Epochs'
  BY <1>20 DEF Dies, Ends, initVars, epochVars, IInv, Epochs
<1>21. ASSUME NEW s \in Services, Restart(s) PROVE Epochs'
  BY <1>21 DEF Restart, Run, initVars, epochVars, IInv, Epochs
<1>22. ASSUME NEW s \in Services, Finish(s) PROVE Epochs'
  BY <1>22 DEF Finish, AllDown, initVars, epochVars, IInv, Epochs
<1>23. CASE StartScript
  BY <1>23 DEF StartScript, initVars, epochVars, IInv, Epochs
<1>24. CASE EndScript
  BY <1>24 DEF EndScript, initVars, epochVars, IInv, Epochs
<1>25. CASE OpenBackend
  BY <1>25 DEF OpenBackend, initVars, epochVars, IInv, Epochs
<1>26. CASE OpenBackendFails
  BY <1>26 DEF OpenBackendFails, Ends, initVars, epochVars, IInv, Epochs
<1>27. CASE ReadOptions
  BY <1>27 DEF ReadOptions, initVars, epochVars, IInv, Epochs
<1>28. CASE ReadLeases
  BY <1>28 DEF ReadLeases, initVars, epochVars, IInv, Epochs
<1>29. CASE ListenAndServeFails
  BY <1>29 DEF ListenAndServeFails, Needs, Ends, initVars, epochVars, IInv,
         Epochs
<1>30. CASE Serve
  BY <1>30 DEF Serve, initVars, epochVars, IInv, Epochs
<1>31. CASE UNCHANGED vars
  BY <1>31 DEF vars, initVars, epochVars, processVars, IInv, Epochs
<1> QED
  BY <1>1, <1>2, <1>3, <1>4, <1>5, <1>6, <1>7, <1>8, <1>9, <1>10, <1>11,
         <1>12, <1>13, <1>14, <1>15, <1>16, <1>17, <1>18, <1>19, <1>20,
         <1>21, <1>22, <1>23, <1>24, <1>25, <1>26, <1>27, <1>28, <1>29,
         <1>30, <1>31 DEF Next, InitStep,
         ServiceStep, BackendStep

LEMMA CurrentStep ==
    ASSUME IInv, [Next]_vars
    PROVE  Current'
<1>1. CASE StartContainer
  BY <1>1 DEF StartContainer, IInv, Current, AfterCopy, AfterDrop
<1>2. CASE StopContainer
  BY <1>2 DEF StopContainer, AllDown, initVars, filesVars, IInv, Current
<1>3. CASE InterfaceAppears
  BY <1>3 DEF InterfaceAppears, initVars, filesVars, IInv, Current
<1>4. CASE InterfaceVanishes
  BY <1>4 DEF InterfaceVanishes, initVars, filesVars, IInv, Current
<1>5. CASE ObstacleChanges
  BY <1>5 DEF ObstacleChanges, initVars, filesVars, IInv, Current
<1>6. CASE ResetLeases
  BY <1>6 DEF ResetLeases, At, GoOn, After, filesVars, IInv, Current,
         AfterCopy, AfterDrop
<1>7. CASE TruncateEpoch
  BY <1>7 DEF TruncateEpoch, At, GoOn, After, filesVars, IInv, Current,
         AfterCopy, AfterDrop
<1>8. CASE WriteEpoch
  BY <1>8 DEF WriteEpoch, At, GoOn, After, filesVars, IInv, Current,
         AfterCopy, AfterDrop
<1>9. CASE CopyOptions
  BY <1>9 DEF CopyOptions, At, GoOn, After, IInv, Current
<1>10. CASE ResolveAuto
  BY <1>10 DEF ResolveAuto, At, Rewrite, IInv, Current, AfterCopy, AfterDrop
<1>11. CASE ResolveNoAuto
  BY <1>11 DEF ResolveNoAuto, At, After, filesVars, IInv, Current,
         AfterCopy, AfterDrop
<1>12. CASE LookFor
  BY <1>12 DEF LookFor, At, After, filesVars, IInv, Current,
         AfterCopy, AfterDrop
<1>13. CASE DropMissing
  BY <1>13 DEF DropMissing, At, Rewrite, IInv, Current, AfterCopy, AfterDrop
<1>14. CASE RewriteOthers
  BY <1>14 DEF RewriteOthers, At, Rewrite, IInv, Current, AfterCopy, AfterDrop
<1>15. CASE SkipServers
  BY <1>15 DEF SkipServers, At, GoOn, After, filesVars, IInv, Current,
         AfterCopy, AfterDrop
<1>16. CASE Move
  BY <1>16 DEF Move, GoOn, After, IInv, Order, Current
<1>17. CASE Render
  BY <1>17 DEF Render, At, GoOn, IInv, Current, AfterCopy, AfterDrop
<1>18. CASE InitFails
  BY <1>18 DEF InitFails, IInv, Current, AfterCopy, AfterDrop
<1>19. ASSUME NEW s \in Services, StartService(s) PROVE Current'
  BY <1>19 DEF StartService, Run, initVars, filesVars, IInv, Current
<1>20. ASSUME NEW s \in Services, Dies(s) PROVE Current'
  BY <1>20 DEF Dies, Ends, initVars, filesVars, IInv, Current
<1>21. ASSUME NEW s \in Services, Restart(s) PROVE Current'
  BY <1>21 DEF Restart, Run, initVars, filesVars, IInv, Current
<1>22. ASSUME NEW s \in Services, Finish(s) PROVE Current'
  BY <1>22 DEF Finish, AllDown, initVars, filesVars, IInv, Current
<1>23. CASE StartScript
  BY <1>23 DEF StartScript, initVars, filesVars, IInv, Current
<1>24. CASE EndScript
  BY <1>24 DEF EndScript, initVars, filesVars, IInv, Current
<1>25. CASE OpenBackend
  BY <1>25 DEF OpenBackend, initVars, filesVars, IInv, Current
<1>26. CASE OpenBackendFails
  BY <1>26 DEF OpenBackendFails, Ends, initVars, filesVars, IInv, Current
<1>27. CASE ReadOptions
  BY <1>27 DEF ReadOptions, initVars, filesVars, IInv, Current
<1>28. CASE ReadLeases
  BY <1>28 DEF ReadLeases, initVars, filesVars, IInv, Current
<1>29. CASE ListenAndServeFails
  BY <1>29 DEF ListenAndServeFails, Needs, Ends, initVars, filesVars, IInv,
         Current
<1>30. CASE Serve
  BY <1>30 DEF Serve, initVars, filesVars, IInv, Current
<1>31. CASE UNCHANGED vars
  BY <1>31 DEF vars, initVars, filesVars, IInv, Current
<1> QED
  BY <1>1, <1>2, <1>3, <1>4, <1>5, <1>6, <1>7, <1>8, <1>9, <1>10, <1>11,
         <1>12, <1>13, <1>14, <1>15, <1>16, <1>17, <1>18, <1>19, <1>20,
         <1>21, <1>22, <1>23, <1>24, <1>25, <1>26, <1>27, <1>28, <1>29,
         <1>30, <1>31 DEF Next, InitStep,
         ServiceStep, BackendStep

LEMMA KeptStep ==
    ASSUME IInv, [Next]_vars
    PROVE  Kept'
<1> USE DEF historyVars, lookVars, Looking
<1>1. CASE StartContainer
  BY <1>1 DEF StartContainer, epochVars, IInv, Kept, AfterCopy, AfterDrop
<1>2. CASE StopContainer
  BY <1>2 DEF StopContainer, AllDown, initVars, filesVars, epochVars, IInv,
         Kept
<1>3. CASE InterfaceAppears
  BY <1>3 DEF InterfaceAppears, initVars, filesVars, epochVars, IInv, Kept
<1>4. CASE InterfaceVanishes
  BY <1>4 DEF InterfaceVanishes, initVars, filesVars, epochVars, IInv, Kept
<1>5. CASE ObstacleChanges
  BY <1>5 DEF ObstacleChanges, initVars, filesVars, epochVars, IInv, Kept
<1>6. CASE ResetLeases
  BY <1>6 DEF ResetLeases, At, GoOn, After, hostVars, filesVars, epochVars,
         IInv, Kept, AfterCopy, AfterDrop
<1>7. CASE TruncateEpoch
  BY <1>7 DEF TruncateEpoch, At, GoOn, After, hostVars, filesVars, IInv, Kept,
         AfterCopy, AfterDrop
<1>8. CASE WriteEpoch
  BY <1>8 DEF WriteEpoch, At, GoOn, After, hostVars, filesVars, IInv, Kept,
         AfterCopy, AfterDrop
<1>9. CASE CopyOptions
  BY <1>9 DEF CopyOptions, At, GoOn, After, hostVars, epochVars, IInv, Kept
<1>10. CASE ResolveAuto
  BY <1>10, SupervisionAssumption DEF ResolveAuto, At, Rewrite, hostVars,
         epochVars, IInv, Order, Kept, HostOK, AfterCopy, AfterDrop
<1>11. CASE ResolveNoAuto
  BY <1>11 DEF ResolveNoAuto, At, After, hostVars, filesVars,
         epochVars, IInv, Order, Kept, AfterCopy, AfterDrop
<1>12. CASE LookFor
  BY <1>12 DEF LookFor, At, After, hostVars, filesVars,
         epochVars, IInv, Order, Kept, AfterCopy, AfterDrop
<1>13. CASE DropMissing
  BY <1>13 DEF DropMissing, At, Rewrite, hostVars, epochVars, IInv, Order,
         Kept,
         AfterCopy, AfterDrop
<1>14. CASE RewriteOthers
  BY <1>14 DEF RewriteOthers, At, Rewrite, hostVars, epochVars, IInv, Order,
         Kept,
         AfterCopy, AfterDrop
<1>15. CASE SkipServers
  BY <1>15 DEF SkipServers, At, GoOn, After, hostVars, filesVars,
         epochVars, IInv, Order, Kept, AfterCopy, AfterDrop
<1>16. CASE Move
  BY <1>16 DEF Move, GoOn, After, hostVars, epochVars, IInv, Order, Kept
<1>17. CASE Render
  BY <1>17 DEF Render, At, GoOn, After, hostVars, epochVars, IInv, Order,
         Kept, AfterCopy, AfterDrop
<1>18. CASE InitFails
  BY <1>18 DEF InitFails, hostVars, epochVars, IInv, Kept, AfterCopy,
         AfterDrop
<1>19. ASSUME NEW s \in Services, StartService(s) PROVE Kept'
  BY <1>19 DEF StartService, Run, hostVars, initVars, filesVars, epochVars,
         IInv, Kept
<1>20. ASSUME NEW s \in Services, Dies(s) PROVE Kept'
  BY <1>20 DEF Dies, Ends, hostVars, initVars, filesVars, epochVars, IInv,
         Kept
<1>21. ASSUME NEW s \in Services, Restart(s) PROVE Kept'
  BY <1>21 DEF Restart, Run, hostVars, initVars, filesVars, epochVars, IInv,
         Kept
<1>22. ASSUME NEW s \in Services, Finish(s) PROVE Kept'
  BY <1>22 DEF Finish, AllDown, initVars, filesVars, epochVars, IInv, Kept
<1>23. CASE StartScript
  BY <1>23 DEF StartScript, hostVars, initVars, filesVars, epochVars, IInv,
         Kept
<1>24. CASE EndScript
  BY <1>24 DEF EndScript, hostVars, initVars, filesVars, epochVars, IInv, Kept
<1>25. CASE OpenBackend
  BY <1>25 DEF OpenBackend, hostVars, initVars, filesVars, epochVars, IInv,
         Kept
<1>26. CASE OpenBackendFails
  BY <1>26 DEF OpenBackendFails, Ends, hostVars, initVars, filesVars,
         epochVars, IInv, Kept
<1>27. CASE ReadOptions
  BY <1>27 DEF ReadOptions, hostVars, initVars, filesVars, epochVars, IInv,
         Kept
<1>28. CASE ReadLeases
  BY <1>28 DEF ReadLeases, hostVars, initVars, filesVars, epochVars, IInv,
         Kept
<1>29. CASE ListenAndServeFails
  BY <1>29 DEF ListenAndServeFails, Needs, Ends, hostVars, initVars, filesVars,
         epochVars, IInv, Kept
<1>30. CASE Serve
  BY <1>30 DEF Serve, hostVars, initVars, filesVars, epochVars, IInv, Kept
<1>31. CASE UNCHANGED vars
  BY <1>31 DEF vars, hostVars, initVars, filesVars, epochVars, IInv, Kept
<1> QED
  BY <1>1, <1>2, <1>3, <1>4, <1>5, <1>6, <1>7, <1>8, <1>9, <1>10, <1>11,
         <1>12, <1>13, <1>14, <1>15, <1>16, <1>17, <1>18, <1>19, <1>20,
         <1>21, <1>22, <1>23, <1>24, <1>25, <1>26, <1>27, <1>28, <1>29,
         <1>30, <1>31 DEF Next, InitStep,
         ServiceStep, BackendStep

LEMMA DroppedStep ==
    ASSUME IInv, [Next]_vars
    PROVE  Dropped'
<1> USE DEF hostVars, historyVars, lookVars, Looking
<1>1. CASE StartContainer
  BY <1>1 DEF StartContainer, IInv, Dropped, NoneMissing, AfterDrop
<1>2. CASE StopContainer
  BY <1>2 DEF StopContainer, AllDown, initVars, filesVars, IInv, Dropped,
         NoneMissing
<1>3. CASE InterfaceAppears
  BY <1>3 DEF InterfaceAppears, initVars, filesVars, IInv, Dropped,
         NoneMissing
<1>4. CASE InterfaceVanishes
  BY <1>4 DEF InterfaceVanishes, initVars, filesVars, IInv, Dropped,
         NoneMissing
<1>5. CASE ObstacleChanges
  BY <1>5 DEF ObstacleChanges, initVars, filesVars, IInv, Dropped,
         NoneMissing
<1>6. CASE ResetLeases
  BY <1>6 DEF ResetLeases, At, GoOn, After, filesVars, IInv, Dropped,
         NoneMissing, AfterDrop
<1>7. CASE TruncateEpoch
  BY <1>7 DEF TruncateEpoch, At, GoOn, After, filesVars, IInv, Dropped,
         NoneMissing, AfterDrop
<1>8. CASE WriteEpoch
  BY <1>8 DEF WriteEpoch, At, GoOn, After, filesVars, IInv, Dropped,
         NoneMissing, AfterDrop
<1>9. CASE CopyOptions
  BY <1>9 DEF CopyOptions, At, GoOn, After, IInv, Dropped, NoneMissing,
         AfterDrop
<1>10. CASE ResolveAuto
  BY <1>10 DEF ResolveAuto, At, Rewrite, IInv, Dropped, NoneMissing, AfterDrop
<1>11. CASE ResolveNoAuto
  BY <1>11 DEF ResolveNoAuto, At, After, filesVars, IInv, Dropped,
         NoneMissing, AfterDrop
<1>12. CASE LookFor
  <2>1. /\ UNCHANGED <<present, absent, initPlace, moving, resolved, tmp,
         conf>>
        /\ Looking
    BY <1>12 DEF LookFor, At, filesVars
  <2>2. found' \subseteq Interfaces \ absent
    BY <1>12, <2>1 DEF LookFor, IInv, HostOK, Dropped
  <2>3. QED
    BY <2>1, <2>2 DEF IInv, Dropped, NoneMissing
<1>13. CASE DropMissing
  BY <1>13 DEF DropMissing, Rewrite, hostVars, IInv, Dropped, NoneMissing
<1>14. CASE RewriteOthers
  BY <1>14 DEF RewriteOthers, At, Rewrite, hostVars, IInv, Dropped,
         NoneMissing
<1>15. CASE SkipServers
  BY <1>15 DEF SkipServers, At, GoOn, After, hostVars, filesVars, IInv,
         Dropped, NoneMissing, AfterDrop
<1>16. CASE Move
  <2>1. /\ UNCHANGED <<present, absent, found, conf>> /\ ~moving'
        /\ resolved' = tmp
    BY <1>16 DEF Move
  <2>2. /\ initPlace \in {"auto", "pools", "drop", "ntp", "dns"}
        /\ initPlace' = After[initPlace]
    BY <1>16 DEF Move, GoOn, IInv, Order
  <2>3. Looking' => Looking
    BY <2>2 DEF After
  <2>4. /\ initPlace' # "done"
        /\ initPlace' \in AfterDrop => initPlace \in AfterDrop \cup {"drop"}
    BY <2>2 DEF After, AfterDrop
  <2>5. moving
    BY <1>16 DEF Move
  <2>6. QED
    BY <2>1, <2>3, <2>4, <2>5 DEF IInv, Dropped, NoneMissing
<1>17. CASE Render
  BY <1>17 DEF Render, At, GoOn, After, IInv, Dropped, NoneMissing, AfterDrop
<1>18. CASE InitFails
  BY <1>18 DEF InitFails, IInv, Dropped, NoneMissing, AfterDrop
<1>19. ASSUME NEW s \in Services, StartService(s) PROVE Dropped'
  BY <1>19 DEF StartService, Run, hostVars, initVars, filesVars, IInv,
         Dropped, NoneMissing
<1>20. ASSUME NEW s \in Services, Dies(s) PROVE Dropped'
  BY <1>20 DEF Dies, Ends, hostVars, initVars, filesVars, IInv, Dropped,
         NoneMissing
<1>21. ASSUME NEW s \in Services, Restart(s) PROVE Dropped'
  BY <1>21 DEF Restart, Run, hostVars, initVars, filesVars, IInv, Dropped,
         NoneMissing
<1>22. ASSUME NEW s \in Services, Finish(s) PROVE Dropped'
  BY <1>22 DEF Finish, AllDown, initVars, filesVars, IInv, Dropped,
         NoneMissing
<1>23. CASE StartScript
  BY <1>23 DEF StartScript, hostVars, initVars, filesVars, IInv, Dropped,
         NoneMissing
<1>24. CASE EndScript
  BY <1>24 DEF EndScript, hostVars, initVars, filesVars, IInv, Dropped,
         NoneMissing
<1>25. CASE OpenBackend
  BY <1>25 DEF OpenBackend, hostVars, initVars, filesVars, IInv, Dropped,
         NoneMissing
<1>26. CASE OpenBackendFails
  BY <1>26 DEF OpenBackendFails, Ends, hostVars, initVars, filesVars, IInv,
         Dropped, NoneMissing
<1>27. CASE ReadOptions
  BY <1>27 DEF ReadOptions, hostVars, initVars, filesVars, IInv, Dropped,
         NoneMissing
<1>28. CASE ReadLeases
  BY <1>28 DEF ReadLeases, hostVars, initVars, filesVars, IInv, Dropped,
         NoneMissing
<1>29. CASE ListenAndServeFails
  BY <1>29 DEF ListenAndServeFails, Needs, Ends, hostVars, initVars,
         filesVars, IInv,
         Dropped, NoneMissing
<1>30. CASE Serve
  BY <1>30 DEF Serve, hostVars, initVars, filesVars, IInv, Dropped,
         NoneMissing
<1>31. CASE UNCHANGED vars
  BY <1>31 DEF vars, hostVars, initVars, filesVars, IInv, Dropped, NoneMissing
<1> QED
  BY <1>1, <1>2, <1>3, <1>4, <1>5, <1>6, <1>7, <1>8, <1>9, <1>10, <1>11,
         <1>12, <1>13, <1>14, <1>15, <1>16, <1>17, <1>18, <1>19, <1>20,
         <1>21, <1>22, <1>23, <1>24, <1>25, <1>26, <1>27, <1>28, <1>29,
         <1>30, <1>31 DEF Next, InitStep,
         ServiceStep, BackendStep

-----------------------------------------------------------------------------
LEMMA NextIInv == IInv /\ [Next]_vars => IInv'
<1> SUFFICES ASSUME IInv, [Next]_vars PROVE IInv'
  OBVIOUS
<1>1. HostOK' /\ InitOK' /\ ProcessOK'
  BY HostStep, InitStepType, ProcessStep
<1>2. Order' /\ Epochs' /\ Current' /\ Kept' /\ Dropped'
  BY OrderStep, EpochsStep, CurrentStep, KeptStep, DroppedStep
<1> QED
  BY <1>1, <1>2 DEF IInv

\* All of the above holds of every reachable state.
THEOREM SupervisionInvariant == Spec => []IInv
  BY InitIInv, NextIInv, PTL DEF Spec

-----------------------------------------------------------------------------
\* A service that is up has a process and a stopped container has none, the
\* files keep their types, whatever dies or fails (finish scripts, init.sh).
THEOREM SupervisionTypeCorrect == Spec => []SupervisionTypeOK
<1>1. IInv => SupervisionTypeOK
  BY TypeParts DEF IInv
<1> QED
  BY <1>1, SupervisionInvariant, PTL

\* dnsmasq runs on a configuration that this start of the container made, with
\* the configured interfaces that were there until init.sh looked and none that
\* was missing until then, whatever comes and goes (init.sh 188-231).
THEOREM ConfCorrect == Spec => []ConfOfThisStart
<1>1. IInv => ConfOfThisStart
  <2> SUFFICES ASSUME IInv, service["dnsmasq"] = "up"
               PROVE  /\ conf.current
                      /\ NoneMissing(conf.interfaces)
                      /\ reachable \subseteq conf.interfaces
    BY DEF ConfOfThisStart, NoneMissing
  <2>1. initPlace = "done"
    BY DEF IInv, Order
  <2>2. QED
    BY <2>1 DEF IInv, Current, Kept, Dropped
<1> QED
  BY <1>1, SupervisionInvariant, PTL

\* dnsmasq, its scripts and the backend have the epoch of this start, after any
\* number of restarts of each (init.sh 204, script 35-44,
\* uibackend.go 106-111).
THEOREM EpochCorrect == Spec => []EpochOfThisStart
<1>1. IInv => EpochOfThisStart
  BY DEF IInv, Order, Epochs, EpochOfThisStart, AfterEpoch, AfterCopy,
         AfterDrop
<1> QED
  BY <1>1, SupervisionInvariant, PTL

\* Only init.sh writes the epoch.
LEMMA OnlyInitWritesEpoch ==
    [Next]_vars => TruncateEpoch \/ WriteEpoch \/ epochFile' = epochFile
<1> SUFFICES ASSUME [Next]_vars
             PROVE  TruncateEpoch \/ WriteEpoch \/ epochFile' = epochFile
  OBVIOUS
<1> USE DEF epochVars
<1>1. CASE StartContainer \/ StopContainer \/ InterfaceAppears \/
          InterfaceVanishes \/ ObstacleChanges
  BY <1>1 DEF StartContainer, StopContainer, AllDown, InterfaceAppears,
         InterfaceVanishes, ObstacleChanges
<1>2. CASE ResetLeases \/ CopyOptions \/ ResolveAuto \/ ResolveNoAuto \/
          LookFor \/ DropMissing \/ RewriteOthers \/ SkipServers \/ Move \/
          Render \/ InitFails
  BY <1>2 DEF ResetLeases, Places, After, CopyOptions, ResolveAuto, Rewrite,
         ResolveNoAuto, LookFor, DropMissing, RewriteOthers, SkipServers,
         Move, Render, InitFails
<1>3. CASE StartScript \/ EndScript \/ OpenBackend \/ OpenBackendFails \/
          ReadOptions \/ ReadLeases \/ Serve \/ ListenAndServeFails
  BY <1>3 DEF StartScript, EndScript, OpenBackend, OpenBackendFails, Ends,
         ReadOptions, ReadLeases, Serve, ListenAndServeFails
<1>4. ASSUME NEW s \in Services,
             StartService(s) \/ Dies(s) \/ Restart(s) \/ Finish(s)
      PROVE  epochFile' = epochFile
  BY <1>4 DEF StartService, Run, DependenciesUp, Dies, Ends, Restart, Finish,
         AllDown
<1>5. CASE UNCHANGED vars
  BY <1>5 DEF vars
<1> QED
  BY <1>1, <1>2, <1>3, <1>4, <1>5 DEF Next, InitStep, ServiceStep, BackendStep

\* The epoch changes only while nobody uses it, and to none that was in use
\* before (init.sh 162-166).
THEOREM EpochStandsCorrect == Spec => EpochStands
<1>1. IInv /\ [Next]_vars =>
        [epochFile' # epochFile =>
            /\ service["dnsmasq"] # "up" /\ service["backend"] # "up"
            /\ script = 0
            /\ epochFile' = 0 \/ epochFile' > epoch]_vars
  <2> SUFFICES ASSUME IInv, TruncateEpoch \/ WriteEpoch
               PROVE  /\ service["dnsmasq"] # "up" /\ service["backend"] # "up"
                      /\ script = 0
                      /\ epochFile' = 0 \/ epochFile' > epoch
    BY OnlyInitWritesEpoch
  <2>1. initPlace # "done"
    BY DEF TruncateEpoch, WriteEpoch, At
  <2>2. service["dnsmasq"] = "down" /\ service["backend"] = "down" /\ script = 0
    BY <2>1 DEF IInv, Order
  <2>3. epochFile' = 0 \/ epochFile' > epoch
    BY DEF TruncateEpoch, WriteEpoch, IInv, ProcessOK
  <2>4. QED
    BY <2>2, <2>3
<1> QED
  BY <1>1, SupervisionInvariant, PTL DEF Spec, EpochStands
=============================================================================
