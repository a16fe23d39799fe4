------------------------- MODULE UpdateClientProofs -------------------------
(***************************************************************************)
(* Proofs about the `ah` processes of an installation and their update     *)
(* helpers, for any number of processes, crashes, failures and starts.     *)
(***************************************************************************)
EXTENDS UpdateClient, TLAPS

ClientStates ==
    {"idle", "done", "failed", "manual", "start", "hold_recovery", "rediscover", "recovery_copy", "resolve",
     "adopt", "adopt_check", "adopt_write", "adopt_bind", "fetch", "hold", "cleanup", "prepare", "stage",
     "copy", "stop", "launch", "ack", "undo"}
HelperStates ==
    {"none", "claim", "parent", "quiesce", "activate", "decide", "recover", "restore", "service", "finalize"}
TransStates == {"none", "planned", "prepared", "started", "committed", "rolled_back"}

ClientTypes ==
    /\ files \in Nat /\ binding \in Clients \cup {0} /\ bindlock \in Clients \cup {0}
    /\ idents \in [Clients -> {"none", "partial", "whole"}]
    /\ trans \in [Clients -> TransStates] /\ wasUp \in [Clients -> BOOLEAN]
    /\ copies \subseteq Clients /\ handles \subseteq Clients \X {"ah", "helper"}
    /\ mcpUp \in BOOLEAN /\ stopper \in BOOLEAN
    /\ clientPc \in [Clients -> ClientStates] /\ ver \in [Clients -> Nat \ {0}]
    /\ helper \in [Clients -> HelperStates] /\ job \in [Clients -> Clients \cup {0}]

\* The adoption of an installation is serialised by the persist lock.
AdoptionInv ==
    /\ \A c \in Clients : clientPc[c] \in {"adopt_check", "adopt_write", "adopt_bind"} => bindlock = c
    /\ \A c \in Clients : clientPc[c] \in {"adopt_write", "adopt_bind"} => binding = 0
    /\ \A c \in Clients : clientPc[c] = "adopt_bind" => idents[c] = "whole"
    /\ BindingSound

\* The lease: everybody in the critical section has an open handle, every
\* handle belongs to somebody who is in it or about to leave, and all handles
\* are those of one `ah` and its helper.
LeaseInv ==
    /\ \A c \in Clients : clientPc[c] \in Holding \cup {"undo"} <=> Ah(c) \in handles
    /\ \A c \in Clients : helper[c] \in Applying \cup {"claim"} => HelperHandle(c) \in handles
    /\ \A c \in Clients : HelperHandle(c) \in handles => HelperAlive(c)
    /\ \A h, g \in handles : h[1] = g[1]

\* One helper at a time, with its copy on disk; an `ah` that has a helper waits
\* for its acknowledgement or is gone.
HelperInv ==
    /\ \A c \in Clients : HelperAlive(c) => c \in copies
    /\ \A c, d \in Clients : HelperAlive(c) /\ HelperAlive(d) => c = d
    /\ \A c, d \in Clients : clientPc[c] \in {"prepare", "stage", "copy", "stop", "launch"} => ~HelperAlive(d)
    /\ \A c, d \in Clients : clientPc[c] \in {"ack", "undo"} /\ HelperAlive(d) => d = c
    /\ \A c \in Clients : HelperAlive(c) =>
         \/ clientPc[c] \in Ended
         \/ clientPc[c] = "ack" /\ helper[c] \in {"claim", "parent", "restore", "service", "finalize"}
    /\ \A c \in Clients : HelperAlive(c) => job[c] # 0
    /\ \A c \in Clients : clientPc[c] \in {"stop", "launch"} => c \in copies
    /\ \A c \in Clients : clientPc[c] \in {"recovery_copy", "stop", "launch"} => job[c] # 0

\* Which transactions there are where somebody works on one.
Working(c) == clientPc[c] \in {"stop", "launch", "ack", "undo", "recovery_copy"} \/ HelperAlive(c)
BeforeActivation(c) ==
    \/ clientPc[c] \in {"stage", "copy", "stop"}
    \/ clientPc[c] = "launch" /\ job[c] = c
    \/ helper[c] \in {"claim", "parent", "quiesce", "activate"} /\ job[c] = c
TransInv ==
    /\ \A c \in Clients : clientPc[c] \in {"start", "hold_recovery", "rediscover", "recovery_copy", "resolve",
                             "adopt", "adopt_check", "adopt_write", "adopt_bind", "fetch", "hold", "cleanup",
                             "prepare"} => trans[c] = "none"
    /\ \A c \in Clients : clientPc[c] \in {"copy", "stop"} => trans[c] = "prepared"
    /\ \A c \in Clients : clientPc[c] = "stop" => job[c] = c
    /\ \A c \in Clients : clientPc[c] = "recovery_copy" => job[c] # c
    /\ \A c \in Clients : helper[c] = "activate" => job[c] = c
    /\ \A c \in Clients : helper[c] = "quiesce" => trans[job[c]] \notin {"none", "planned"}
    /\ \A c \in Clients : helper[c] = "decide" => trans[job[c]] = "started"
    /\ \A c \in Clients : helper[c] = "finalize" => trans[job[c]] = "committed"
    /\ \A c \in Clients : BeforeActivation(c) => files # Mixed
    /\ \A t \in Clients : trans[t] = "started" => files = Mixed
    /\ \A t, u \in Clients : trans[t] = "started" /\ trans[u] = "started" => t = u
    /\ \A c, t \in Clients : Working(c) /\ trans[t] = "started" => job[c] = t

\* What is known of the managed service: a service that is to be started again is
\* down, and the transaction that says so is still there, or the helper that
\* has removed it is about to try.
Remembers(t) ==
    /\ wasUp[t]
    /\ trans[t] \notin {"none", "planned"} \/ \E c \in Clients : helper[c] = "service" /\ job[c] = t
ServiceInv ==
    /\ ~(mcpUp /\ stopper)
    /\ \A c \in Clients : clientPc[c] \in {"prepare", "stage", "copy", "stop"} /\ wasUp[c] => ~stopper
    /\ \A c \in Clients : helper[c] = "finalize" => ~(stopper /\ wasUp[job[c]])
    /\ stopper => \E t \in Clients : Remembers(t)

ClientInv == ClientTypes /\ AdoptionInv /\ LeaseInv /\ HelperInv /\ TransInv

-----------------------------------------------------------------------------
(* The lemmas.                                                             *)

\* No process has the number that stands for nobody.
LEMMA NobodyIsNoClient == 0 \notin Clients
BY ClientAssumption

USE NobodyIsNoClient

\* The handles of an `ah` and of its helper are told apart.
LEMMA HandleFacts ==
    /\ \A c \in Clients : /\ Ah(c) \in Clients \X {"ah", "helper"} /\ Ah(c)[1] = c
                         /\ HelperHandle(c) \in Clients \X {"ah", "helper"} /\ HelperHandle(c)[1] = c
    /\ \A c, d \in Clients : Ah(c) # HelperHandle(d)
    /\ \A c, d \in Clients : (Ah(c) = Ah(d) => c = d) /\ (HelperHandle(c) = HelperHandle(d) => c = d)
BY DEF Ah, HelperHandle

\* What the lease gives: at most one `ah` and its own helper are in the section.
LEMMA OneHolder ==
  ASSUME LeaseInv
  PROVE  /\ \A c, d \in Clients : clientPc[c] \in Holding \cup {"undo"} /\ clientPc[d] \in Holding \cup {"undo"} => c = d
         /\ \A c, d \in Clients : clientPc[c] \in Holding \cup {"undo"} /\ helper[d] \in Applying \cup {"claim"} => c = d
         /\ \A c, d \in Clients : helper[c] \in Applying \cup {"claim"} /\ helper[d] \in Applying \cup {"claim"} => c = d
         /\ LeaseFree => \A c \in Clients : clientPc[c] \notin Holding \cup {"undo"} /\ helper[c] \notin Applying \cup {"claim"}
BY HandleFacts DEF LeaseInv, LeaseFree

\* Every step keeps the types; where a transaction's release is installed again
\* the helper has a job.
LEMMA ClientTypesStep == ASSUME ClientTypes, HelperInv, [ClientNext]_clientVars PROVE ClientTypes'
<1> USE DEF ClientTypes, ClientStates, HelperStates, TransStates, clientDisk, service
<1> USE ClientAssumption
<1>1. ASSUME NEW c \in Clients, Start(c) PROVE ClientTypes'
  BY <1>1 DEF Start, Go, Mixed
<1>2. ASSUME NEW c \in Clients, StartTorn(c) PROVE ClientTypes'
  BY <1>2 DEF StartTorn, Go
<1>3. ASSUME NEW c \in Clients, Discover(c) PROVE ClientTypes'
  BY <1>3 DEF Discover, Continue, Go
<1>4. ASSUME NEW c \in Clients, HoldRecovery(c) PROVE ClientTypes'
  BY <1>4, HandleFacts DEF HoldRecovery, Go
<1>5. ASSUME NEW c \in Clients, Rediscover(c) PROVE ClientTypes'
  <2>1. Continue(c) \in ClientStates
    BY DEF Continue
  <2>2. trans' \in [Clients -> TransStates] /\ job' \in [Clients -> Clients \cup {0}] /\ handles' \subseteq handles
    BY <1>5 DEF Rediscover, Stops, EndsAt, Removed
  <2>3. clientPc' \in [Clients -> ClientStates]
    BY <1>5, <2>1 DEF Rediscover, Stops, EndsAt, Go
  <2>4. mcpUp' \in BOOLEAN /\ stopper' \in BOOLEAN
    BY <1>5 DEF Rediscover, Stops
  <2> QED
    BY <1>5, <2>2, <2>3, <2>4 DEF Rediscover, Stops
<1>6. ASSUME NEW c \in Clients, RecoveryCopy(c) PROVE ClientTypes'
  <2>1. copies' \subseteq Clients /\ handles' \subseteq handles /\ clientPc' \in [Clients -> ClientStates]
    <3>1. CASE CopiesRemovable
      BY <1>6, <3>1 DEF RecoveryCopy, EndsAt, Go
    <3>2. CASE ~CopiesRemovable
      BY <1>6, <3>2 DEF RecoveryCopy, EndsAt, Go
    <3> QED
      BY <3>1, <3>2
  <2> QED
    BY <1>6, <2>1 DEF RecoveryCopy
<1>7. ASSUME NEW c \in Clients, Resolve(c) PROVE ClientTypes'
  BY <1>7 DEF Resolve, Go
<1>8. ASSUME NEW c \in Clients, AdoptLock(c) PROVE ClientTypes'
  BY <1>8 DEF AdoptLock, Go
<1>9. ASSUME NEW c \in Clients, AdoptCheck(c) PROVE ClientTypes'
  BY <1>9 DEF AdoptCheck, Go
<1>10. ASSUME NEW c \in Clients, AdoptWrite(c) PROVE ClientTypes'
  BY <1>10 DEF AdoptWrite, Go
<1>11. ASSUME NEW c \in Clients, AdoptBind(c) PROVE ClientTypes'
  BY <1>11 DEF AdoptBind, Go
<1>12. ASSUME NEW c \in Clients, AdoptFails(c) PROVE ClientTypes'
  BY <1>12 DEF AdoptFails, Fails, Go
<1>13. ASSUME NEW c \in Clients, Fetch(c) PROVE ClientTypes'
  BY <1>13 DEF Fetch, Go
<1>14. ASSUME NEW c \in Clients, FetchFails(c) PROVE ClientTypes'
  BY <1>14 DEF FetchFails, Fails, Go
<1>15. ASSUME NEW c \in Clients, Hold(c) PROVE ClientTypes'
  BY <1>15, HandleFacts DEF Hold, Go
<1>16. ASSUME NEW c \in Clients, HoldTimeout(c) PROVE ClientTypes'
  BY <1>16 DEF HoldTimeout, Go
<1>17. ASSUME NEW c \in Clients, Cleanup(c) PROVE ClientTypes'
  BY <1>17, ZenonT(60) DEF Cleanup, EndsAt, Go
<1>18. ASSUME NEW c \in Clients, PrepareTransaction(c) PROVE ClientTypes'
  BY <1>18 DEF PrepareTransaction, EndsAt, Go
<1>19. ASSUME NEW c \in Clients, Stage(c) PROVE ClientTypes'
  BY <1>19 DEF Stage, Go
<1>20. ASSUME NEW c \in Clients, StageFails(c) PROVE ClientTypes'
  BY <1>20 DEF StageFails, EndsAt, Fails, Go, Removed
<1>21. ASSUME NEW c \in Clients, CopyHelper(c) PROVE ClientTypes'
  BY <1>21 DEF CopyHelper, Go
<1>22. ASSUME NEW c \in Clients, StopService(c) PROVE ClientTypes'
  BY <1>22 DEF StopService, Stops, Go
<1>23. ASSUME NEW c \in Clients, StopMismatch(c) PROVE ClientTypes'
  <2>1. trans' \in [Clients -> TransStates] /\ clientPc' \in [Clients -> ClientStates] /\ handles' \subseteq handles
    BY <1>23 DEF StopMismatch, EndsAt, Go, Removed, Undo
  <2>2. copies' \subseteq Clients /\ job' \in [Clients -> Clients \cup {0}]
    BY <1>23 DEF StopMismatch, Undo
  <2>3. mcpUp' \in BOOLEAN /\ stopper' \in BOOLEAN
    BY <1>23 DEF StopMismatch, Undo
  <2> QED
    BY <1>23, <2>1, <2>2, <2>3 DEF StopMismatch
<1>24. ASSUME NEW c \in Clients, StopFails(c) PROVE ClientTypes'
  <2>1. trans' \in [Clients -> TransStates] /\ clientPc' \in [Clients -> ClientStates] /\ handles' \subseteq handles
    BY <1>24 DEF StopFails, EndsAt, Go, Removed, Undo
  <2>2. copies' \subseteq Clients /\ job' \in [Clients -> Clients \cup {0}]
    BY <1>24 DEF StopFails, Undo
  <2>3. mcpUp' \in BOOLEAN /\ stopper' \in BOOLEAN
    BY <1>24 DEF StopFails, Undo
  <2> QED
    BY <1>24, <2>1, <2>2, <2>3 DEF StopFails
<1>25. ASSUME NEW c \in Clients, Launch(c) PROVE ClientTypes'
  BY <1>25, HandleFacts DEF Launch, Go
<1>26. ASSUME NEW c \in Clients, HandoffFails(c) PROVE ClientTypes'
  <2>1. CASE job[c] = c
    BY <1>26, <2>1, ZenonT(60) DEF HandoffFails, EndsAt, Fails, Go, LaunchUndone, Removed, Undo
  <2>2. CASE job[c] # c
    BY <1>26, <2>2 DEF HandoffFails, EndsAt, Fails, Go, LaunchUndone, Removed, Undo
  <2> QED
    BY <2>1, <2>2
<1>27. ASSUME NEW c \in Clients, Acknowledged(c) PROVE ClientTypes'
  BY <1>27 DEF Acknowledged, EndsAt, Go
<1>28. ASSUME NEW c \in Clients, Terminated(c) PROVE ClientTypes'
  BY <1>28 DEF Terminated, Fails, Go
<1>29. ASSUME NEW c \in Clients, HelperGone(c) PROVE ClientTypes'
  BY <1>29 DEF HelperGone, Go
<1>30. ASSUME NEW c \in Clients, SafeCleanup(c) PROVE ClientTypes'
  <2>1. CASE job[c] = c
    BY <1>30, <2>1, ZenonT(60) DEF SafeCleanup, EndsAt, Go, LaunchUndone, Removed, Undo
  <2>2. CASE job[c] # c
    BY <1>30, <2>2 DEF SafeCleanup, EndsAt, Go, LaunchUndone, Removed, Undo
  <2> QED
    BY <2>1, <2>2
<1>31. ASSUME NEW c \in Clients, NotTerminated(c) PROVE ClientTypes'
  BY <1>31 DEF NotTerminated, EndsAt, Fails, Go
<1>32. ASSUME NEW c \in Clients, ClientCrash(c) PROVE ClientTypes'
  BY <1>32 DEF ClientCrash, EndsAt, Go
<1>33. ASSUME NEW c \in Clients, Claim(c) PROVE ClientTypes'
  BY <1>33 DEF Claim, HelperGo
<1>34. ASSUME NEW c \in Clients, ClaimFails(c) PROVE ClientTypes'
  BY <1>34 DEF ClaimFails, Fails, HelperGo, HelperLeaves
<1>35. ASSUME NEW c \in Clients, ParentGone(c) PROVE ClientTypes'
  BY <1>35 DEF ParentGone, HelperGo
<1>36. ASSUME NEW c \in Clients, HelperGivesUp(c) PROVE ClientTypes'
  BY <1>36 DEF HelperGivesUp, Fails, HelperGo
<1>37. ASSUME NEW c \in Clients, QuiesceBlockers(c) PROVE ClientTypes'
  <2>1. handles' \subseteq Clients \X {"ah", "helper"} /\ helper' \in [Clients -> HelperStates]
    BY <1>37, HandleFacts DEF QuiesceBlockers, HelperGo
  <2>2. clientPc' \in [Clients -> ClientStates] /\ bindlock' \in Clients \cup {0}
    BY <1>37 DEF QuiesceBlockers, Ended
  <2>3. mcpUp' \in BOOLEAN /\ stopper' \in BOOLEAN
    BY <1>37 DEF QuiesceBlockers, Stops
  <2> QED
    BY <1>37, <2>1, <2>2, <2>3 DEF QuiesceBlockers
<1>38. ASSUME NEW c \in Clients, Activate(c) PROVE ClientTypes'
  BY <1>38 DEF Activate, HelperGo, HelperInv, HelperAlive, Mixed
<1>39. ASSUME NEW c \in Clients, Decide(c) PROVE ClientTypes'
  <2> helper[c] # "none"
    BY <1>39 DEF Decide
  <2>0. job[c] \in Clients
    BY DEF HelperInv, HelperAlive
  <2>1. job[c] \in Clients /\ ver[job[c]] \in Nat
    BY <2>0
  <2>2. files' \in Nat /\ trans' \in [Clients -> TransStates]
    BY <1>39, <2>1 DEF Decide, TargetOf, HelperGo
  <2> QED
    BY <1>39, <2>2 DEF Decide, TargetOf, HelperGo
<1>40. ASSUME NEW c \in Clients, Recover(c) PROVE ClientTypes'
  <2> helper[c] # "none"
    BY <1>40 DEF Recover
  <2>0. job[c] \in Clients
    BY DEF HelperInv, HelperAlive
  <2>1. job[c] \in Clients /\ ver[job[c]] \in Nat
    BY <2>0
  <2>2. files' \in Nat /\ trans' \in [Clients -> TransStates]
    BY <1>40, <2>1 DEF Recover, HelperGo
  <2> QED
    BY <1>40, <2>2 DEF Recover, HelperGo
<1>41. ASSUME NEW c \in Clients, RestoreAndFinalize(c) PROVE ClientTypes'
  <2>1. trans' \in [Clients -> TransStates] /\ handles' \subseteq handles
    BY <1>41 DEF RestoreAndFinalize, HelperLeaves, Removed
  <2>2. helper' \in [Clients -> HelperStates]
    BY <1>41 DEF RestoreAndFinalize, HelperGo, HelperLeaves
  <2>3. mcpUp' \in BOOLEAN /\ stopper' \in BOOLEAN
    BY <1>41 DEF RestoreAndFinalize
  <2> QED
    BY <1>41, <2>1, <2>2, <2>3 DEF RestoreAndFinalize
<1>42. ASSUME NEW c \in Clients, RestoreService(c) PROVE ClientTypes'
  BY <1>42 DEF RestoreService, HelperGo, HelperLeaves
<1>43. ASSUME NEW c \in Clients, FinalizeCommitted(c) PROVE ClientTypes'
  BY <1>43 DEF FinalizeCommitted, HelperGo, HelperLeaves, Removed
<1>44. ASSUME NEW c \in Clients, HelperCrash(c) PROVE ClientTypes'
  BY <1>44 DEF HelperCrash, HelperGo, HelperLeaves
<1>45. CASE ServiceDies
  BY <1>45 DEF ServiceDies, Fails
<1>46. CASE UNCHANGED clientVars
  BY <1>46 DEF clientVars
<1>47. CASE ServeManaged
  BY <1>47 DEF ServeManaged
<1> QED
  BY <1>1, <1>2, <1>3, <1>4, <1>5, <1>6, <1>7, <1>8, <1>9, <1>10, <1>11, <1>12, <1>13, <1>14, <1>15, <1>16, <1>17, <1>18, <1>19, <1>20, <1>21, <1>22, <1>23, <1>24, <1>25, <1>26, <1>27, <1>28, <1>29, <1>30, <1>31, <1>32, <1>33, <1>34, <1>35, <1>36, <1>37, <1>38, <1>39, <1>40, <1>41, <1>42, <1>43, <1>44, <1>45, <1>46, <1>47 DEF ClientNext, AhStep, HelperStep

\* The adoption of the installation: nobody but the holder of the persist lock
\* writes an identity, and the binding follows the directory.
LEMMA AdoptionStep == ASSUME ClientTypes, AdoptionInv, [ClientNext]_clientVars PROVE AdoptionInv'
<1> USE DEF ClientTypes, AdoptionInv, BindingSound, clientDisk, service
<1>1. ASSUME NEW c \in Clients, Start(c) PROVE AdoptionInv'
  BY <1>1 DEF Start, Go
<1>2. ASSUME NEW c \in Clients, StartTorn(c) PROVE AdoptionInv'
  BY <1>2 DEF StartTorn, Go
<1>3. ASSUME NEW c \in Clients, Discover(c) PROVE AdoptionInv'
  BY <1>3 DEF Discover, Continue, Go
<1>4. ASSUME NEW c \in Clients, HoldRecovery(c) PROVE AdoptionInv'
  BY <1>4 DEF HoldRecovery, Go
<1>5. ASSUME NEW c \in Clients, Rediscover(c) PROVE AdoptionInv'
  BY <1>5 DEF Rediscover, Stops, Continue, EndsAt, Go, Removed
<1>6. ASSUME NEW c \in Clients, RecoveryCopy(c) PROVE AdoptionInv'
  <2>1. /\ clientPc'[c] \in {"launch", "failed"} /\ \A d \in Clients \ {c} : clientPc'[d] = clientPc[d]
        /\ UNCHANGED <<binding, bindlock, idents>>
    BY <1>6 DEF RecoveryCopy, EndsAt, Go
  <2> QED
    BY <2>1
<1>7. ASSUME NEW c \in Clients, Resolve(c) PROVE AdoptionInv'
  BY <1>7 DEF Resolve, Go
<1>8. ASSUME NEW c \in Clients, AdoptLock(c) PROVE AdoptionInv'
  BY <1>8 DEF AdoptLock, Go
<1>9. ASSUME NEW c \in Clients, AdoptCheck(c) PROVE AdoptionInv'
  BY <1>9 DEF AdoptCheck, Go
<1>10. ASSUME NEW c \in Clients, AdoptWrite(c) PROVE AdoptionInv'
  BY <1>10 DEF AdoptWrite, Go
<1>11. ASSUME NEW c \in Clients, AdoptBind(c) PROVE AdoptionInv'
  BY <1>11 DEF AdoptBind, Go
<1>12. ASSUME NEW c \in Clients, AdoptFails(c) PROVE AdoptionInv'
  BY <1>12 DEF AdoptFails, Fails, Go
<1>13. ASSUME NEW c \in Clients, Fetch(c) PROVE AdoptionInv'
  BY <1>13 DEF Fetch, Go
<1>14. ASSUME NEW c \in Clients, FetchFails(c) PROVE AdoptionInv'
  BY <1>14 DEF FetchFails, Fails, Go
<1>15. ASSUME NEW c \in Clients, Hold(c) PROVE AdoptionInv'
  BY <1>15 DEF Hold, Go
<1>16. ASSUME NEW c \in Clients, HoldTimeout(c) PROVE AdoptionInv'
  BY <1>16 DEF HoldTimeout, Go
<1>17. ASSUME NEW c \in Clients, Cleanup(c) PROVE AdoptionInv'
  BY <1>17 DEF Cleanup, EndsAt, Go
<1>18. ASSUME NEW c \in Clients, PrepareTransaction(c) PROVE AdoptionInv'
  BY <1>18 DEF PrepareTransaction, EndsAt, Go
<1>19. ASSUME NEW c \in Clients, Stage(c) PROVE AdoptionInv'
  BY <1>19 DEF Stage, Go
<1>20. ASSUME NEW c \in Clients, StageFails(c) PROVE AdoptionInv'
  BY <1>20 DEF StageFails, EndsAt, Fails, Go, Removed
<1>21. ASSUME NEW c \in Clients, CopyHelper(c) PROVE AdoptionInv'
  BY <1>21 DEF CopyHelper, Go
<1>22. ASSUME NEW c \in Clients, StopService(c) PROVE AdoptionInv'
  BY <1>22 DEF StopService, Stops, Go
<1>23. ASSUME NEW c \in Clients, StopMismatch(c) PROVE AdoptionInv'
  BY <1>23 DEF StopMismatch, EndsAt, Go, Removed, Undo
<1>24. ASSUME NEW c \in Clients, StopFails(c) PROVE AdoptionInv'
  BY <1>24 DEF StopFails, EndsAt, Fails, Go, Removed, Undo
<1>25. ASSUME NEW c \in Clients, Launch(c) PROVE AdoptionInv'
  BY <1>25 DEF Launch, Go
<1>26. ASSUME NEW c \in Clients, HandoffFails(c) PROVE AdoptionInv'
  BY <1>26 DEF HandoffFails, EndsAt, Fails, Go, LaunchUndone, Removed, Undo
<1>27. ASSUME NEW c \in Clients, Acknowledged(c) PROVE AdoptionInv'
  BY <1>27 DEF Acknowledged, EndsAt, Go
<1>28. ASSUME NEW c \in Clients, Terminated(c) PROVE AdoptionInv'
  BY <1>28 DEF Terminated, Fails, Go
<1>29. ASSUME NEW c \in Clients, HelperGone(c) PROVE AdoptionInv'
  BY <1>29 DEF HelperGone, Go
<1>30. ASSUME NEW c \in Clients, SafeCleanup(c) PROVE AdoptionInv'
  BY <1>30 DEF SafeCleanup, EndsAt, Go, LaunchUndone, Removed, Undo
<1>31. ASSUME NEW c \in Clients, NotTerminated(c) PROVE AdoptionInv'
  BY <1>31 DEF NotTerminated, EndsAt, Fails, Go
<1>32. ASSUME NEW c \in Clients, ClientCrash(c) PROVE AdoptionInv'
  BY <1>32 DEF ClientCrash, EndsAt, Go
<1>33. ASSUME NEW c \in Clients, Claim(c) PROVE AdoptionInv'
  BY <1>33 DEF Claim, HelperGo
<1>34. ASSUME NEW c \in Clients, ClaimFails(c) PROVE AdoptionInv'
  BY <1>34 DEF ClaimFails, Fails, HelperGo, HelperLeaves
<1>35. ASSUME NEW c \in Clients, ParentGone(c) PROVE AdoptionInv'
  BY <1>35 DEF ParentGone, HelperGo
<1>36. ASSUME NEW c \in Clients, HelperGivesUp(c) PROVE AdoptionInv'
  BY <1>36 DEF HelperGivesUp, Fails, HelperGo
<1>37. ASSUME NEW c \in Clients, QuiesceBlockers(c) PROVE AdoptionInv'
  BY <1>37 DEF QuiesceBlockers, Stops, HelperGo, Ended
<1>38. ASSUME NEW c \in Clients, Activate(c) PROVE AdoptionInv'
  BY <1>38 DEF Activate, HelperGo
<1>39. ASSUME NEW c \in Clients, Decide(c) PROVE AdoptionInv'
  BY <1>39 DEF Decide, TargetOf, HelperGo
<1>40. ASSUME NEW c \in Clients, Recover(c) PROVE AdoptionInv'
  BY <1>40 DEF Recover, HelperGo
<1>41. ASSUME NEW c \in Clients, RestoreAndFinalize(c) PROVE AdoptionInv'
  BY <1>41 DEF RestoreAndFinalize, HelperGo, HelperLeaves, Removed
<1>42. ASSUME NEW c \in Clients, RestoreService(c) PROVE AdoptionInv'
  BY <1>42 DEF RestoreService, HelperGo, HelperLeaves
<1>43. ASSUME NEW c \in Clients, FinalizeCommitted(c) PROVE AdoptionInv'
  BY <1>43 DEF FinalizeCommitted, HelperGo, HelperLeaves, Removed
<1>44. ASSUME NEW c \in Clients, HelperCrash(c) PROVE AdoptionInv'
  BY <1>44 DEF HelperCrash, HelperGo, HelperLeaves
<1>45. CASE ServiceDies
  BY <1>45 DEF ServiceDies, Fails
<1>46. CASE UNCHANGED clientVars
  BY <1>46 DEF clientVars
<1>47. CASE ServeManaged
  BY <1>47 DEF ServeManaged
<1> QED
  BY <1>1, <1>2, <1>3, <1>4, <1>5, <1>6, <1>7, <1>8, <1>9, <1>10, <1>11, <1>12, <1>13, <1>14, <1>15, <1>16, <1>17, <1>18, <1>19, <1>20, <1>21, <1>22, <1>23, <1>24, <1>25, <1>26, <1>27, <1>28, <1>29, <1>30, <1>31, <1>32, <1>33, <1>34, <1>35, <1>36, <1>37, <1>38, <1>39, <1>40, <1>41, <1>42, <1>43, <1>44, <1>45, <1>46, <1>47 DEF ClientNext, AhStep, HelperStep

\* Every step keeps the lease in the hands of one `ah` and its helper.
LEMMA LeaseStep == ASSUME ClientTypes, LeaseInv, HelperInv, [ClientNext]_clientVars PROVE LeaseInv'
<1> USE DEF LeaseInv, Holding, Applying, Ended, HelperAlive, clientDisk, service, ClientTypes
<1>1. ASSUME NEW c \in Clients, Start(c) PROVE LeaseInv'
  BY <1>1, HandleFacts DEF Start, Go
<1>2. ASSUME NEW c \in Clients, StartTorn(c) PROVE LeaseInv'
  BY <1>2, HandleFacts DEF StartTorn, Go
<1>3. ASSUME NEW c \in Clients, Discover(c) PROVE LeaseInv'
  BY <1>3, HandleFacts DEF Discover, Continue, Go
<1>4. ASSUME NEW c \in Clients, HoldRecovery(c) PROVE LeaseInv'
  BY <1>4, HandleFacts DEF HoldRecovery, Go, LeaseFree
<1>5. ASSUME NEW c \in Clients, Rediscover(c) PROVE LeaseInv'
  BY <1>5, HandleFacts DEF Rediscover, Stops, Continue, EndsAt, Go, Removed
<1>6. ASSUME NEW c \in Clients, RecoveryCopy(c) PROVE LeaseInv'
  BY <1>6, HandleFacts DEF RecoveryCopy, EndsAt, Go, CopiesRemovable
<1>7. ASSUME NEW c \in Clients, Resolve(c) PROVE LeaseInv'
  BY <1>7, HandleFacts DEF Resolve, Go
<1>8. ASSUME NEW c \in Clients, AdoptLock(c) PROVE LeaseInv'
  BY <1>8, HandleFacts DEF AdoptLock, Go
<1>9. ASSUME NEW c \in Clients, AdoptCheck(c) PROVE LeaseInv'
  BY <1>9, HandleFacts DEF AdoptCheck, Go
<1>10. ASSUME NEW c \in Clients, AdoptWrite(c) PROVE LeaseInv'
  BY <1>10, HandleFacts DEF AdoptWrite, Go
<1>11. ASSUME NEW c \in Clients, AdoptBind(c) PROVE LeaseInv'
  BY <1>11, HandleFacts DEF AdoptBind, Go
<1>12. ASSUME NEW c \in Clients, AdoptFails(c) PROVE LeaseInv'
  BY <1>12, HandleFacts DEF AdoptFails, Fails, Go
<1>13. ASSUME NEW c \in Clients, Fetch(c) PROVE LeaseInv'
  BY <1>13, HandleFacts DEF Fetch, Go
<1>14. ASSUME NEW c \in Clients, FetchFails(c) PROVE LeaseInv'
  BY <1>14, HandleFacts DEF FetchFails, Fails, Go
<1>15. ASSUME NEW c \in Clients, Hold(c) PROVE LeaseInv'
  BY <1>15, HandleFacts DEF Hold, Go, LeaseFree
<1>16. ASSUME NEW c \in Clients, HoldTimeout(c) PROVE LeaseInv'
  BY <1>16, HandleFacts DEF HoldTimeout, Go
<1>17. ASSUME NEW c \in Clients, Cleanup(c) PROVE LeaseInv'
  BY <1>17, HandleFacts DEF Cleanup, EndsAt, Go, CopiesRemovable
<1>18. ASSUME NEW c \in Clients, PrepareTransaction(c) PROVE LeaseInv'
  BY <1>18, HandleFacts DEF PrepareTransaction, EndsAt, Go
<1>19. ASSUME NEW c \in Clients, Stage(c) PROVE LeaseInv'
  BY <1>19, HandleFacts DEF Stage, Go
<1>20. ASSUME NEW c \in Clients, StageFails(c) PROVE LeaseInv'
  BY <1>20, HandleFacts DEF StageFails, EndsAt, Fails, Go, Removed
<1>21. ASSUME NEW c \in Clients, CopyHelper(c) PROVE LeaseInv'
  BY <1>21, HandleFacts DEF CopyHelper, Go
<1>22. ASSUME NEW c \in Clients, StopService(c) PROVE LeaseInv'
  BY <1>22, HandleFacts DEF StopService, Stops, Go
<1>23. ASSUME NEW c \in Clients, StopMismatch(c) PROVE LeaseInv'
  BY <1>23, HandleFacts DEF StopMismatch, EndsAt, Go, Removed, Undo
<1>24. ASSUME NEW c \in Clients, StopFails(c) PROVE LeaseInv'
  BY <1>24, HandleFacts DEF StopFails, EndsAt, Fails, Go, Removed, Undo
<1>25. ASSUME NEW c \in Clients, Launch(c) PROVE LeaseInv'
  BY <1>25, HandleFacts DEF Launch, Go
<1>26. ASSUME NEW c \in Clients, HandoffFails(c) PROVE LeaseInv'
  BY <1>26, HandleFacts DEF HandoffFails, EndsAt, Fails, Go, LaunchUndone, Removed, Undo
<1>27. ASSUME NEW c \in Clients, Acknowledged(c) PROVE LeaseInv'
  <2>1. /\ clientPc[c] = "ack" /\ clientPc'[c] = "done" /\ \A d \in Clients \ {c} : clientPc'[d] = clientPc[d]
        /\ handles' = handles \ {Ah(c)} /\ helper' = helper
    BY <1>27 DEF Acknowledged, EndsAt, Go
  <2> QED
    BY <2>1, HandleFacts
<1>28. ASSUME NEW c \in Clients, Terminated(c) PROVE LeaseInv'
  BY <1>28, HandleFacts DEF Terminated, Fails, Go
<1>29. ASSUME NEW c \in Clients, HelperGone(c) PROVE LeaseInv'
  BY <1>29, HandleFacts DEF HelperGone, Go
<1>30. ASSUME NEW c \in Clients, SafeCleanup(c) PROVE LeaseInv'
  BY <1>30, HandleFacts DEF SafeCleanup, EndsAt, Go, LaunchUndone, Removed, Undo
<1>31. ASSUME NEW c \in Clients, NotTerminated(c) PROVE LeaseInv'
  BY <1>31, HandleFacts DEF NotTerminated, EndsAt, Fails, Go
<1>32. ASSUME NEW c \in Clients, ClientCrash(c) PROVE LeaseInv'
  BY <1>32, HandleFacts DEF ClientCrash, EndsAt, Go
<1>33. ASSUME NEW c \in Clients, Claim(c) PROVE LeaseInv'
  BY <1>33, HandleFacts DEF Claim, HelperGo
<1>34. ASSUME NEW c \in Clients, ClaimFails(c) PROVE LeaseInv'
  BY <1>34, HandleFacts DEF ClaimFails, Fails, HelperGo, HelperLeaves
<1>35. ASSUME NEW c \in Clients, ParentGone(c) PROVE LeaseInv'
  BY <1>35, HandleFacts DEF ParentGone, HelperGo
<1>36. ASSUME NEW c \in Clients, HelperGivesUp(c) PROVE LeaseInv'
  BY <1>36, HandleFacts DEF HelperGivesUp, Fails, HelperGo
<1>37. ASSUME NEW c \in Clients, QuiesceBlockers(c) PROVE LeaseInv'
  BY <1>37, HandleFacts DEF QuiesceBlockers, Stops, HelperGo
<1>38. ASSUME NEW c \in Clients, Activate(c) PROVE LeaseInv'
  BY <1>38, HandleFacts DEF Activate, HelperGo
<1>39. ASSUME NEW c \in Clients, Decide(c) PROVE LeaseInv'
  BY <1>39, HandleFacts DEF Decide, TargetOf, HelperGo
<1>40. ASSUME NEW c \in Clients, Recover(c) PROVE LeaseInv'
  BY <1>40, HandleFacts DEF Recover, HelperGo
<1>41. ASSUME NEW c \in Clients, RestoreAndFinalize(c) PROVE LeaseInv'
  BY <1>41, HandleFacts DEF RestoreAndFinalize, HelperGo, HelperLeaves, Removed, LeaseFree
<1>42. ASSUME NEW c \in Clients, RestoreService(c) PROVE LeaseInv'
  BY <1>42, HandleFacts DEF RestoreService, HelperGo, HelperLeaves
<1>43. ASSUME NEW c \in Clients, FinalizeCommitted(c) PROVE LeaseInv'
  BY <1>43, HandleFacts DEF FinalizeCommitted, HelperGo, HelperLeaves, Removed
<1>44. ASSUME NEW c \in Clients, HelperCrash(c) PROVE LeaseInv'
  BY <1>44, HandleFacts DEF HelperCrash, HelperGo, HelperLeaves
<1>45. CASE ServiceDies
  BY <1>45 DEF ServiceDies, Fails
<1>46. CASE UNCHANGED clientVars
  BY <1>46 DEF clientVars
<1>47. CASE ServeManaged
  BY <1>47 DEF ServeManaged
<1> QED
  BY <1>1, <1>2, <1>3, <1>4, <1>5, <1>6, <1>7, <1>8, <1>9, <1>10, <1>11, <1>12, <1>13, <1>14, <1>15, <1>16, <1>17, <1>18, <1>19, <1>20, <1>21, <1>22, <1>23, <1>24, <1>25, <1>26, <1>27, <1>28, <1>29, <1>30, <1>31, <1>32, <1>33, <1>34, <1>35, <1>36, <1>37, <1>38, <1>39, <1>40, <1>41, <1>42, <1>43, <1>44, <1>45, <1>46, <1>47 DEF ClientNext, AhStep, HelperStep

\* Every step keeps the helpers apart: a new one is copied only after the old
\* copies could be deleted, which a running helper prevents.
LEMMA HelperInvStep == ASSUME ClientTypes, LeaseInv, HelperInv, [ClientNext]_clientVars PROVE HelperInv'
<1> USE DEF HelperInv, HelperAlive, Holding, Applying, Ended, clientDisk, service, ClientTypes
<1>1. ASSUME NEW c \in Clients, Start(c) PROVE HelperInv'
  BY <1>1 DEF Start, Go
<1>2. ASSUME NEW c \in Clients, StartTorn(c) PROVE HelperInv'
  BY <1>2 DEF StartTorn, Go
<1>3. ASSUME NEW c \in Clients, Discover(c) PROVE HelperInv'
  BY <1>3 DEF Discover, Continue, Go, ClientStates
<1>4. ASSUME NEW c \in Clients, HoldRecovery(c) PROVE HelperInv'
  BY <1>4 DEF HoldRecovery, Go
<1>5. ASSUME NEW c \in Clients, Rediscover(c) PROVE HelperInv'
  BY <1>5 DEF Rediscover, Stops, Continue, EndsAt, Go, Removed
<1>6. ASSUME NEW c \in Clients, RecoveryCopy(c) PROVE HelperInv'
  <2>1. CASE CopiesRemovable
    <3>1. \A d \in Clients : ~HelperAlive(d)
      BY <2>1 DEF CopiesRemovable
    <3> QED
      BY <1>6, <2>1, <3>1, OneHolder DEF RecoveryCopy, EndsAt, Go
  <2>2. CASE ~CopiesRemovable
    BY <1>6, <2>2 DEF RecoveryCopy, EndsAt, Go
  <2> QED
    BY <2>1, <2>2
<1>7. ASSUME NEW c \in Clients, Resolve(c) PROVE HelperInv'
  BY <1>7 DEF Resolve, Go
<1>8. ASSUME NEW c \in Clients, AdoptLock(c) PROVE HelperInv'
  BY <1>8 DEF AdoptLock, Go
<1>9. ASSUME NEW c \in Clients, AdoptCheck(c) PROVE HelperInv'
  BY <1>9 DEF AdoptCheck, Go
<1>10. ASSUME NEW c \in Clients, AdoptWrite(c) PROVE HelperInv'
  BY <1>10 DEF AdoptWrite, Go
<1>11. ASSUME NEW c \in Clients, AdoptBind(c) PROVE HelperInv'
  BY <1>11 DEF AdoptBind, Go
<1>12. ASSUME NEW c \in Clients, AdoptFails(c) PROVE HelperInv'
  BY <1>12 DEF AdoptFails, Fails, Go
<1>13. ASSUME NEW c \in Clients, Fetch(c) PROVE HelperInv'
  BY <1>13 DEF Fetch, Go
<1>14. ASSUME NEW c \in Clients, FetchFails(c) PROVE HelperInv'
  BY <1>14 DEF FetchFails, Fails, Go
<1>15. ASSUME NEW c \in Clients, Hold(c) PROVE HelperInv'
  BY <1>15 DEF Hold, Go
<1>16. ASSUME NEW c \in Clients, HoldTimeout(c) PROVE HelperInv'
  BY <1>16 DEF HoldTimeout, Go
<1>17. ASSUME NEW c \in Clients, Cleanup(c) PROVE HelperInv'
  <2>1. CASE CopiesRemovable
    <3>1. \A d \in Clients : ~HelperAlive(d)
      BY <2>1 DEF CopiesRemovable
    <3> QED
      BY <1>17, <2>1, <3>1, OneHolder DEF Cleanup, EndsAt, Go
  <2>2. CASE ~CopiesRemovable
    BY <1>17, <2>2 DEF Cleanup, EndsAt, Go
  <2> QED
    BY <2>1, <2>2
<1>18. ASSUME NEW c \in Clients, PrepareTransaction(c) PROVE HelperInv'
  BY <1>18 DEF PrepareTransaction, EndsAt, Go
<1>19. ASSUME NEW c \in Clients, Stage(c) PROVE HelperInv'
  BY <1>19 DEF Stage, Go
<1>20. ASSUME NEW c \in Clients, StageFails(c) PROVE HelperInv'
  BY <1>20 DEF StageFails, EndsAt, Fails, Go, Removed
<1>21. ASSUME NEW c \in Clients, CopyHelper(c) PROVE HelperInv'
  BY <1>21, OneHolder DEF CopyHelper, Go
<1>22. ASSUME NEW c \in Clients, StopService(c) PROVE HelperInv'
  BY <1>22 DEF StopService, Stops, Go
<1>23. ASSUME NEW c \in Clients, StopMismatch(c) PROVE HelperInv'
  BY <1>23 DEF StopMismatch, EndsAt, Go, Removed, Undo
<1>24. ASSUME NEW c \in Clients, StopFails(c) PROVE HelperInv'
  BY <1>24 DEF StopFails, EndsAt, Fails, Go, Removed, Undo
<1>25. ASSUME NEW c \in Clients, Launch(c) PROVE HelperInv'
  BY <1>25, OneHolder DEF Launch, Go
<1>26. ASSUME NEW c \in Clients, HandoffFails(c) PROVE HelperInv'
  BY <1>26 DEF HandoffFails, EndsAt, Fails, Go, LaunchUndone, Removed, Undo
<1>27. ASSUME NEW c \in Clients, Acknowledged(c) PROVE HelperInv'
  <2>1. /\ clientPc'[c] = "done" /\ \A d \in Clients \ {c} : clientPc'[d] = clientPc[d]
        /\ helper' = helper /\ job' = job /\ copies' = copies
    BY <1>27 DEF Acknowledged, EndsAt, Go
  <2> QED
    BY <2>1
<1>28. ASSUME NEW c \in Clients, Terminated(c) PROVE HelperInv'
  BY <1>28 DEF Terminated, Fails, Go
<1>29. ASSUME NEW c \in Clients, HelperGone(c) PROVE HelperInv'
  BY <1>29 DEF HelperGone, Go
<1>30. ASSUME NEW c \in Clients, SafeCleanup(c) PROVE HelperInv'
  BY <1>30 DEF SafeCleanup, EndsAt, Go, LaunchUndone, Removed, Undo
<1>31. ASSUME NEW c \in Clients, NotTerminated(c) PROVE HelperInv'
  <2>1. /\ clientPc'[c] = "failed" /\ \A d \in Clients \ {c} : clientPc'[d] = clientPc[d]
        /\ helper' = helper /\ job' = job /\ copies' = copies
    BY <1>31 DEF NotTerminated, EndsAt, Fails, Go
  <2> QED
    BY <2>1
<1>32. ASSUME NEW c \in Clients, ClientCrash(c) PROVE HelperInv'
  BY <1>32 DEF ClientCrash, EndsAt, Go
<1>33. ASSUME NEW c \in Clients, Claim(c) PROVE HelperInv'
  <2>1. \A d \in Clients : HelperAlive(d)' <=> HelperAlive(d)
    BY <1>33 DEF Claim, HelperGo
  <2>2. \A d \in Clients : helper'[d] = helper[d] \/ helper'[d] = "parent"
    BY <1>33 DEF Claim, HelperGo
  <2> QED
    BY <1>33, <2>1, <2>2 DEF Claim
<1>34. ASSUME NEW c \in Clients, ClaimFails(c) PROVE HelperInv'
  BY <1>34 DEF ClaimFails, Fails, HelperGo, HelperLeaves
<1>35. ASSUME NEW c \in Clients, ParentGone(c) PROVE HelperInv'
  BY <1>35 DEF ParentGone, HelperGo
<1>36. ASSUME NEW c \in Clients, HelperGivesUp(c) PROVE HelperInv'
  BY <1>36 DEF HelperGivesUp, Fails, HelperGo
<1>37. ASSUME NEW c \in Clients, QuiesceBlockers(c) PROVE HelperInv'
  BY <1>37 DEF QuiesceBlockers, Stops, HelperGo
<1>38. ASSUME NEW c \in Clients, Activate(c) PROVE HelperInv'
  BY <1>38 DEF Activate, HelperGo
<1>39. ASSUME NEW c \in Clients, Decide(c) PROVE HelperInv'
  BY <1>39 DEF Decide, TargetOf, HelperGo
<1>40. ASSUME NEW c \in Clients, Recover(c) PROVE HelperInv'
  BY <1>40 DEF Recover, HelperGo
<1>41. ASSUME NEW c \in Clients, RestoreAndFinalize(c) PROVE HelperInv'
  <2>1. /\ helper[c] = "restore" /\ helper'[c] \in {"none", "service", "finalize"}
        /\ \A d \in Clients \ {c} : helper'[d] = helper[d]
        /\ helper'[c] = "finalize" => trans[job[c]] = "committed"
        /\ UNCHANGED <<clientPc, copies, job>>
    BY <1>41 DEF RestoreAndFinalize, HelperGo, HelperLeaves, FinalizeBeforeStart, SafeStates
  <2> QED
    BY <2>1
<1>42. ASSUME NEW c \in Clients, RestoreService(c) PROVE HelperInv'
  BY <1>42 DEF RestoreService, HelperGo, HelperLeaves
<1>43. ASSUME NEW c \in Clients, FinalizeCommitted(c) PROVE HelperInv'
  BY <1>43 DEF FinalizeCommitted, HelperGo, HelperLeaves, Removed
<1>44. ASSUME NEW c \in Clients, HelperCrash(c) PROVE HelperInv'
  BY <1>44 DEF HelperCrash, HelperGo, HelperLeaves
<1>45. CASE ServiceDies
  BY <1>45 DEF ServiceDies, Fails
<1>46. CASE UNCHANGED clientVars
  BY <1>46, SMTT(40) DEF clientVars
<1>47. CASE ServeManaged
  BY <1>47, SMTT(40) DEF ServeManaged
<1> QED
  BY <1>1, <1>2, <1>3, <1>4, <1>5, <1>6, <1>7, <1>8, <1>9, <1>10, <1>11, <1>12, <1>13, <1>14, <1>15, <1>16, <1>17, <1>18, <1>19, <1>20, <1>21, <1>22, <1>23, <1>24, <1>25, <1>26, <1>27, <1>28, <1>29, <1>30, <1>31, <1>32, <1>33, <1>34, <1>35, <1>36, <1>37, <1>38, <1>39, <1>40, <1>41, <1>42, <1>43, <1>44, <1>45, <1>46, <1>47 DEF ClientNext, AhStep, HelperStep

\* Every step keeps what is known of the transactions while somebody works on one.
LEMMA TransStep == ASSUME ClientTypes, LeaseInv, HelperInv, TransInv, [ClientNext]_clientVars PROVE TransInv'
<1> USE DEF TransInv, Working, BeforeActivation, HelperAlive, Holding, Applying, Ended, clientDisk, service, ClientTypes, HelperInv
<1>1. ASSUME NEW c \in Clients, Start(c) PROVE TransInv'
  BY <1>1, OneHolder DEF Start, Go
<1>2. ASSUME NEW c \in Clients, StartTorn(c) PROVE TransInv'
  BY <1>2, OneHolder DEF StartTorn, Go
<1>3. ASSUME NEW c \in Clients, Discover(c) PROVE TransInv'
  BY <1>3, OneHolder DEF Discover, Continue, Go
<1>4. ASSUME NEW c \in Clients, HoldRecovery(c) PROVE TransInv'
  BY <1>4, OneHolder DEF HoldRecovery, Go
<1>5. ASSUME NEW c \in Clients, Rediscover(c) PROVE TransInv'
  BY <1>5, OneHolder DEF Rediscover, Stops, Continue, EndsAt, Go, Removed, Pending
<1>6. ASSUME NEW c \in Clients, RecoveryCopy(c) PROVE TransInv'
  BY <1>6, OneHolder DEF RecoveryCopy, EndsAt, Go
<1>7. ASSUME NEW c \in Clients, Resolve(c) PROVE TransInv'
  BY <1>7, OneHolder DEF Resolve, Go
<1>8. ASSUME NEW c \in Clients, AdoptLock(c) PROVE TransInv'
  <2>1. /\ clientPc[c] = "adopt" /\ clientPc'[c] = "adopt_check"
        /\ \A d \in Clients \ {c} : clientPc'[d] = clientPc[d]
        /\ UNCHANGED <<files, trans, helper, job>>
    BY <1>8 DEF AdoptLock, Go
  <2> QED
    BY <2>1
<1>9. ASSUME NEW c \in Clients, AdoptCheck(c) PROVE TransInv'
  BY <1>9, OneHolder DEF AdoptCheck, Go
<1>10. ASSUME NEW c \in Clients, AdoptWrite(c) PROVE TransInv'
  BY <1>10, OneHolder DEF AdoptWrite, Go
<1>11. ASSUME NEW c \in Clients, AdoptBind(c) PROVE TransInv'
  BY <1>11, OneHolder DEF AdoptBind, Go
<1>12. ASSUME NEW c \in Clients, AdoptFails(c) PROVE TransInv'
  BY <1>12, OneHolder DEF AdoptFails, Fails, Go
<1>13. ASSUME NEW c \in Clients, Fetch(c) PROVE TransInv'
  BY <1>13, OneHolder DEF Fetch, Go
<1>14. ASSUME NEW c \in Clients, FetchFails(c) PROVE TransInv'
  BY <1>14, OneHolder DEF FetchFails, Fails, Go
<1>15. ASSUME NEW c \in Clients, Hold(c) PROVE TransInv'
  <2>1. /\ clientPc[c] = "hold" /\ clientPc'[c] = "cleanup" /\ \A d \in Clients \ {c} : clientPc'[d] = clientPc[d]
        /\ UNCHANGED <<files, trans, helper, job>>
    BY <1>15 DEF Hold, Go
  <2> QED
    BY <2>1
<1>16. ASSUME NEW c \in Clients, HoldTimeout(c) PROVE TransInv'
  BY <1>16, OneHolder DEF HoldTimeout, Go
<1>17. ASSUME NEW c \in Clients, Cleanup(c) PROVE TransInv'
  BY <1>17, OneHolder DEF Cleanup, EndsAt, Go
<1>18. ASSUME NEW c \in Clients, PrepareTransaction(c) PROVE TransInv'
  BY <1>18, OneHolder DEF PrepareTransaction, EndsAt, Go, InstallationVerified, Mixed
<1>19. ASSUME NEW c \in Clients, Stage(c) PROVE TransInv'
  BY <1>19, OneHolder DEF Stage, Go, TransStates
<1>20. ASSUME NEW c \in Clients, StageFails(c) PROVE TransInv'
  BY <1>20, OneHolder DEF StageFails, EndsAt, Fails, Go, Removed
<1>21. ASSUME NEW c \in Clients, CopyHelper(c) PROVE TransInv'
  BY <1>21, OneHolder DEF CopyHelper, Go
<1>22. ASSUME NEW c \in Clients, StopService(c) PROVE TransInv'
  BY <1>22, OneHolder DEF StopService, Stops, Go
<1>23. ASSUME NEW c \in Clients, StopMismatch(c) PROVE TransInv'
  BY <1>23, OneHolder DEF StopMismatch, EndsAt, Go, Removed, Undo
<1>24. ASSUME NEW c \in Clients, StopFails(c) PROVE TransInv'
  BY <1>24, OneHolder DEF StopFails, EndsAt, Fails, Go, Removed, Undo
<1>25. ASSUME NEW c \in Clients, Launch(c) PROVE TransInv'
  BY <1>25, OneHolder DEF Launch, Go
<1>26. ASSUME NEW c \in Clients, HandoffFails(c) PROVE TransInv'
  <2>1. /\ clientPc[c] = "launch" /\ clientPc'[c] = "failed" /\ \A d \in Clients \ {c} : clientPc'[d] = clientPc[d]
        /\ \A d \in Clients \ {c} : job'[d] = job[d]
        /\ UNCHANGED <<files, helper>>
    BY <1>26 DEF HandoffFails, EndsAt, Go, LaunchUndone, Undo
  <2>2. CASE UNCHANGED <<trans, job>>
    BY <2>1, <2>2
  <2>3. CASE trans'[c] \in {"none", trans[c]} /\ job[c] = c /\ \A t \in Clients \ {c} : trans'[t] = trans[t]
    <3>1. \A d \in Clients : ~HelperAlive(d)
      BY <2>1
    <3>2. \A t \in Clients : trans[t] = "started" => t = c
      BY <2>1, <2>3
    <3>3. \A d \in Clients : d # c => clientPc[d] \notin Holding \cup {"undo"}
      BY <2>1, OneHolder
    <3>4. \A d \in Clients : ~Working(d)' /\ ~BeforeActivation(d)'
      BY <2>1, <3>1, <3>3
    <3>5. \A t \in Clients : trans'[t] \in {"none", trans[t]}
      BY <2>3
    <3>6. \A d \in Clients : clientPc'[d] \in {clientPc[d], "failed"} /\ clientPc'[d] \notin Holding /\ helper'[d] = "none"
      BY <2>1, <3>1, <3>3
    <3> HIDE DEF Working, BeforeActivation
    <3> QED
      BY <2>1, <3>4, <3>5, <3>6
  <2> QED
    BY <1>26, <2>2, <2>3 DEF HandoffFails, LaunchUndone, Undo, Removed
<1>27. ASSUME NEW c \in Clients, Acknowledged(c) PROVE TransInv'
  BY <1>27, OneHolder DEF Acknowledged, EndsAt, Go
<1>28. ASSUME NEW c \in Clients, Terminated(c) PROVE TransInv'
  BY <1>28, OneHolder DEF Terminated, Fails, Go
<1>29. ASSUME NEW c \in Clients, HelperGone(c) PROVE TransInv'
  <2>1. /\ clientPc[c] = "ack" /\ clientPc'[c] = "undo" /\ \A d \in Clients \ {c} : clientPc'[d] = clientPc[d]
        /\ UNCHANGED <<files, trans, helper, job>>
    BY <1>29 DEF HelperGone, Go
  <2> QED
    BY <2>1
<1>30. ASSUME NEW c \in Clients, SafeCleanup(c) PROVE TransInv'
  <2>1. /\ clientPc[c] = "undo" /\ clientPc'[c] = "failed" /\ \A d \in Clients \ {c} : clientPc'[d] = clientPc[d]
        /\ \A d \in Clients \ {c} : job'[d] = job[d]
        /\ UNCHANGED <<files, helper>>
    BY <1>30 DEF SafeCleanup, EndsAt, Go, LaunchUndone, Undo
  <2>2. CASE UNCHANGED <<trans, job>>
    BY <2>1, <2>2
  <2>3. CASE trans'[c] \in {"none", trans[c]} /\ job[c] = c /\ \A t \in Clients \ {c} : trans'[t] = trans[t]
    <3>1. ~HelperAlive(c) /\ \A d \in Clients : helper[d] \in Applying \cup {"claim"} => d = c
      BY <2>1, OneHolder
    <3>2. \A d \in Clients : ~HelperAlive(d)
      BY <2>1, <3>1
    <3>3. \A t \in Clients : trans[t] = "started" => t = c
      BY <2>1, <2>3
    <3>4. \A d \in Clients : d # c => clientPc[d] \notin Holding \cup {"undo"}
      BY <2>1, OneHolder
    <3> QED
      BY <2>1, <2>3, <3>2, <3>3, <3>4
  <2> QED
    BY <1>30, <2>2, <2>3 DEF SafeCleanup, LaunchUndone, Undo, Removed
<1>31. ASSUME NEW c \in Clients, NotTerminated(c) PROVE TransInv'
  BY <1>31, OneHolder DEF NotTerminated, EndsAt, Fails, Go
<1>32. ASSUME NEW c \in Clients, ClientCrash(c) PROVE TransInv'
  BY <1>32, OneHolder DEF ClientCrash, EndsAt, Go
<1>33. ASSUME NEW c \in Clients, Claim(c) PROVE TransInv'
  BY <1>33, OneHolder DEF Claim, HelperGo
<1>34. ASSUME NEW c \in Clients, ClaimFails(c) PROVE TransInv'
  BY <1>34, OneHolder DEF ClaimFails, Fails, HelperGo, HelperLeaves
<1>35. ASSUME NEW c \in Clients, ParentGone(c) PROVE TransInv'
  BY <1>35, OneHolder DEF ParentGone, HelperGo
<1>36. ASSUME NEW c \in Clients, HelperGivesUp(c) PROVE TransInv'
  BY <1>36, OneHolder DEF HelperGivesUp, Fails, HelperGo
<1>37. ASSUME NEW c \in Clients, QuiesceBlockers(c) PROVE TransInv'
  BY <1>37, OneHolder DEF QuiesceBlockers, Stops, HelperGo
<1>38. ASSUME NEW c \in Clients, Activate(c) PROVE TransInv'
  BY <1>38, OneHolder DEF Activate, HelperGo
<1>39. ASSUME NEW c \in Clients, Decide(c) PROVE TransInv'
  BY <1>39, OneHolder DEF Decide, TargetOf, HelperGo
<1>40. ASSUME NEW c \in Clients, Recover(c) PROVE TransInv'
  BY <1>40, OneHolder DEF Recover, HelperGo
<1>41. ASSUME NEW c \in Clients, RestoreAndFinalize(c) PROVE TransInv'
  <2>1. helper[c] = "restore" /\ job[c] \in Clients
    BY <1>41, ZenonT(60) DEF RestoreAndFinalize
  <2>2. CASE HelperLeaves(c) /\ UNCHANGED trans
    BY <1>41, <2>2 DEF RestoreAndFinalize, HelperGo, HelperLeaves, Removed
  <2>3. CASE Removed(job[c]) /\ HelperGo(c, "service")
    BY <1>41, <2>1, <2>3 DEF RestoreAndFinalize, HelperGo, HelperLeaves, Removed
  <2>4. CASE HelperGo(c, "finalize") /\ trans[job[c]] = "committed" /\ UNCHANGED trans
    BY <1>41, <2>1, <2>4 DEF RestoreAndFinalize, HelperGo, HelperLeaves, Removed
  <2> QED
    BY <1>41, <2>2, <2>3, <2>4 DEF RestoreAndFinalize, FinalizeBeforeStart
<1>42. ASSUME NEW c \in Clients, RestoreService(c) PROVE TransInv'
  BY <1>42, OneHolder DEF RestoreService, HelperGo, HelperLeaves
<1>43. ASSUME NEW c \in Clients, FinalizeCommitted(c) PROVE TransInv'
  BY <1>43, OneHolder DEF FinalizeCommitted, HelperGo, HelperLeaves, Removed
<1>44. ASSUME NEW c \in Clients, HelperCrash(c) PROVE TransInv'
  BY <1>44, OneHolder DEF HelperCrash, HelperGo, HelperLeaves
<1>45. CASE ServiceDies
  BY <1>45 DEF ServiceDies, Fails
<1>46. CASE UNCHANGED clientVars
  BY <1>46 DEF clientVars
<1>47. CASE ServeManaged
  <2>1. UNCHANGED <<files, trans, clientPc, helper, job>>
    BY <1>47 DEF ServeManaged
  <2> QED
    BY <2>1
<1> QED
  BY <1>1, <1>2, <1>3, <1>4, <1>5, <1>6, <1>7, <1>8, <1>9, <1>10, <1>11, <1>12, <1>13, <1>14, <1>15, <1>16, <1>17, <1>18, <1>19, <1>20, <1>21, <1>22, <1>23, <1>24, <1>25, <1>26, <1>27, <1>28, <1>29, <1>30, <1>31, <1>32, <1>33, <1>34, <1>35, <1>36, <1>37, <1>38, <1>39, <1>40, <1>41, <1>42, <1>43, <1>44, <1>45, <1>46, <1>47 DEF ClientNext, AhStep, HelperStep

\* The failure path of a launch tries to start the service again if the plan says so.
LEMMA UndoTriesService ==
  ASSUME ClientTypes, LeaseInv, HelperInv, TransInv, ServiceInv, NEW c \in Clients, NEW up \in {mcpUp, FALSE},
         clientPc[c] \in {"stop", "launch", "undo"}, job[c] = c, Undo(c, up), UNCHANGED <<wasUp, helper>>
  PROVE  ServiceInv'
<1> USE DEF ServiceInv, Remembers, HelperAlive, Holding, Applying, Ended, ClientTypes
<1>1. ~HelperAlive(c)
  BY DEF HelperInv
<1>2. /\ \A d \in Clients : d # c => clientPc'[d] = clientPc[d] /\ job'[d] = job[d] /\ trans'[d] = trans[d]
      /\ clientPc'[c] = "failed" /\ job'[c] = 0 /\ trans'[c] \in {"none", trans[c]}
      /\ stopper' = (stopper /\ ~wasUp[c]) /\ wasUp' = wasUp /\ helper' = helper
  BY DEF Undo, EndsAt, Go, Removed
<1>3. \A d \in Clients : d # c => clientPc[d] \notin Holding /\ helper[d] \notin Applying \cup {"claim"}
  BY OneHolder
<1>4. ~(mcpUp' /\ stopper')
  <2>1. mcpUp' \in {up, up \/ wasUp[c]}
    BY DEF Undo
  <2>2. CASE wasUp[c]
    BY <1>2, <2>2
  <2>3. CASE ~wasUp[c]
    <3>1. (up \/ wasUp[c]) = up
      BY <2>3, Zenon
    <3>2. mcpUp' = up
      BY <2>1, <3>1
    <3>3. mcpUp' => mcpUp
      BY <3>2
    <3> QED
      BY <1>2, <3>3
  <2> QED
    BY <2>2, <2>3
<1>5. \A d \in Clients : helper[d] = "finalize" => ~(stopper' /\ wasUp'[job'[d]])
  BY <1>1, <1>2
<1>6. stopper' => \E t \in Clients : Remembers(t)'
  BY <1>1, <1>2
<1> QED
  BY <1>1, <1>2, <1>3, <1>4, <1>5, <1>6

\* Every step keeps the service remembered, if no helper dies between the end of
\* the transaction and the restart of the service.
LEMMA ServiceStep == ASSUME FinalizeCrash = FALSE, ClientTypes, LeaseInv, HelperInv, TransInv, ServiceInv, [ClientNext]_clientVars PROVE ServiceInv'
<1> USE DEF ServiceInv, Remembers, HelperAlive, Holding, Applying, Ended, clientDisk, service, ClientTypes, HelperInv
<1>1. ASSUME NEW c \in Clients, Start(c) PROVE ServiceInv'
  BY <1>1, OneHolder DEF Start, Go
<1>2. ASSUME NEW c \in Clients, StartTorn(c) PROVE ServiceInv'
  BY <1>2, OneHolder DEF StartTorn, Go
<1>3. ASSUME NEW c \in Clients, Discover(c) PROVE ServiceInv'
  BY <1>3, OneHolder DEF Discover, Continue, Go
<1>4. ASSUME NEW c \in Clients, HoldRecovery(c) PROVE ServiceInv'
  BY <1>4, OneHolder DEF HoldRecovery, Go
<1>5. ASSUME NEW c \in Clients, Rediscover(c) PROVE ServiceInv'
  BY <1>5, OneHolder DEF Rediscover, Stops, Continue, EndsAt, Go, Removed, TransInv, Pending
<1>6. ASSUME NEW c \in Clients, RecoveryCopy(c) PROVE ServiceInv'
  BY <1>6, OneHolder DEF RecoveryCopy, EndsAt, Go, TransInv
<1>7. ASSUME NEW c \in Clients, Resolve(c) PROVE ServiceInv'
  BY <1>7, OneHolder DEF Resolve, Go
<1>8. ASSUME NEW c \in Clients, AdoptLock(c) PROVE ServiceInv'
  BY <1>8, OneHolder DEF AdoptLock, Go
<1>9. ASSUME NEW c \in Clients, AdoptCheck(c) PROVE ServiceInv'
  BY <1>9, OneHolder DEF AdoptCheck, Go
<1>10. ASSUME NEW c \in Clients, AdoptWrite(c) PROVE ServiceInv'
  BY <1>10, OneHolder DEF AdoptWrite, Go
<1>11. ASSUME NEW c \in Clients, AdoptBind(c) PROVE ServiceInv'
  BY <1>11, OneHolder DEF AdoptBind, Go
<1>12. ASSUME NEW c \in Clients, AdoptFails(c) PROVE ServiceInv'
  BY <1>12, OneHolder DEF AdoptFails, Fails, Go
<1>13. ASSUME NEW c \in Clients, Fetch(c) PROVE ServiceInv'
  BY <1>13, OneHolder DEF Fetch, Go
<1>14. ASSUME NEW c \in Clients, FetchFails(c) PROVE ServiceInv'
  BY <1>14, OneHolder DEF FetchFails, Fails, Go
<1>15. ASSUME NEW c \in Clients, Hold(c) PROVE ServiceInv'
  BY <1>15, OneHolder DEF Hold, Go
<1>16. ASSUME NEW c \in Clients, HoldTimeout(c) PROVE ServiceInv'
  BY <1>16, OneHolder DEF HoldTimeout, Go
<1>17. ASSUME NEW c \in Clients, Cleanup(c) PROVE ServiceInv'
  <2>1. CASE CopiesRemovable
    <3>1. \A d \in Clients : ~HelperAlive(d)
      BY <2>1 DEF CopiesRemovable
    <3> QED
      BY <1>17, <2>1, <3>1, OneHolder DEF Cleanup, EndsAt, Go, TransInv
  <2>2. CASE ~CopiesRemovable
    BY <1>17, <2>2 DEF Cleanup, EndsAt, Go
  <2> QED
    BY <2>1, <2>2
<1>18. ASSUME NEW c \in Clients, PrepareTransaction(c) PROVE ServiceInv'
  BY <1>18, OneHolder DEF PrepareTransaction, EndsAt, Go
<1>19. ASSUME NEW c \in Clients, Stage(c) PROVE ServiceInv'
  BY <1>19, OneHolder DEF Stage, Go
<1>20. ASSUME NEW c \in Clients, StageFails(c) PROVE ServiceInv'
  BY <1>20, OneHolder DEF StageFails, EndsAt, Fails, Go, Removed
<1>21. ASSUME NEW c \in Clients, CopyHelper(c) PROVE ServiceInv'
  BY <1>21, OneHolder DEF CopyHelper, Go
<1>22. ASSUME NEW c \in Clients, StopService(c) PROVE ServiceInv'
  BY <1>22, OneHolder DEF StopService, Stops, Go, TransInv
<1>23. ASSUME NEW c \in Clients, StopMismatch(c) PROVE ServiceInv'
  <2>1. job[c] = c
    BY <1>23 DEF StopMismatch, TransInv
  <2> QED
    BY <1>23, <2>1, UndoTriesService DEF StopMismatch
<1>24. ASSUME NEW c \in Clients, StopFails(c) PROVE ServiceInv'
  <2>1. job[c] = c
    BY <1>24 DEF StopFails, TransInv
  <2> QED
    <3>1. Undo(c, mcpUp) \/ Undo(c, FALSE)
      BY <1>24 DEF StopFails
    <3>2. clientPc[c] = "stop" /\ UNCHANGED <<wasUp, helper>>
      BY <1>24 DEF StopFails
    <3>3. CASE Undo(c, mcpUp)
      BY <2>1, <3>2, <3>3, UndoTriesService
    <3>4. CASE Undo(c, FALSE)
      BY <2>1, <3>2, <3>4, UndoTriesService
    <3> QED
      BY <3>1, <3>3, <3>4
<1>25. ASSUME NEW c \in Clients, Launch(c) PROVE ServiceInv'
  <2>1. /\ clientPc[c] = "launch" /\ clientPc'[c] = "ack" /\ \A d \in Clients \ {c} : clientPc'[d] = clientPc[d]
        /\ helper'[c] = "claim" /\ \A d \in Clients \ {c} : helper'[d] = helper[d]
        /\ UNCHANGED <<trans, mcpUp, stopper, wasUp, job>>
    BY <1>25 DEF Launch, Go
  <2>2. \A d \in Clients : ~HelperAlive(d)
    BY <2>1
  <2> QED
    BY <2>1, <2>2
<1>26. ASSUME NEW c \in Clients, HandoffFails(c) PROVE ServiceInv'
  <2>1. CASE job[c] = c
    BY <1>26, <2>1, UndoTriesService DEF HandoffFails, LaunchUndone
  <2>2. CASE job[c] # c
    BY <1>26, <2>2, OneHolder DEF HandoffFails, EndsAt, Fails, Go, LaunchUndone, Removed, Undo
  <2> QED
    BY <2>1, <2>2
<1>27. ASSUME NEW c \in Clients, Acknowledged(c) PROVE ServiceInv'
  BY <1>27, OneHolder DEF Acknowledged, EndsAt, Go
<1>28. ASSUME NEW c \in Clients, Terminated(c) PROVE ServiceInv'
  BY <1>28, OneHolder DEF Terminated, Fails, Go
<1>29. ASSUME NEW c \in Clients, HelperGone(c) PROVE ServiceInv'
  BY <1>29, OneHolder DEF HelperGone, Go
<1>30. ASSUME NEW c \in Clients, SafeCleanup(c) PROVE ServiceInv'
  <2>1. CASE job[c] = c
    BY <1>30, <2>1, UndoTriesService DEF SafeCleanup, LaunchUndone
  <2>2. CASE job[c] # c
    BY <1>30, <2>2, OneHolder DEF SafeCleanup, EndsAt, Go, LaunchUndone, Removed, Undo
  <2> QED
    BY <2>1, <2>2
<1>31. ASSUME NEW c \in Clients, NotTerminated(c) PROVE ServiceInv'
  BY <1>31, OneHolder DEF NotTerminated, EndsAt, Fails, Go
<1>32. ASSUME NEW c \in Clients, ClientCrash(c) PROVE ServiceInv'
  BY <1>32, OneHolder DEF ClientCrash, EndsAt, Go
<1>33. ASSUME NEW c \in Clients, Claim(c) PROVE ServiceInv'
  BY <1>33, OneHolder DEF Claim, HelperGo
<1>34. ASSUME NEW c \in Clients, ClaimFails(c) PROVE ServiceInv'
  BY <1>34, OneHolder DEF ClaimFails, Fails, HelperGo, HelperLeaves
<1>35. ASSUME NEW c \in Clients, ParentGone(c) PROVE ServiceInv'
  BY <1>35, OneHolder DEF ParentGone, HelperGo
<1>36. ASSUME NEW c \in Clients, HelperGivesUp(c) PROVE ServiceInv'
  BY <1>36, OneHolder DEF HelperGivesUp, Fails, HelperGo
<1>37. ASSUME NEW c \in Clients, QuiesceBlockers(c) PROVE ServiceInv'
  <2>1. /\ helper[c] = "quiesce" /\ job[c] \in Clients /\ trans[job[c]] \notin {"none", "planned"}
        /\ \A d \in Clients : d # c => helper[d] = "none"
    BY <1>37 DEF QuiesceBlockers, TransInv
  <2>2. /\ helper'[c] \in {"activate", "recover"} /\ \A d \in Clients \ {c} : helper'[d] = helper[d]
        /\ UNCHANGED <<trans, wasUp, job>> /\ \A d \in Clients : clientPc'[d] \in Ended
    BY <1>37 DEF QuiesceBlockers, HelperGo
  <2>3. mcpUp' = FALSE /\ stopper' = (stopper \/ (mcpUp /\ wasUp[job[c]]))
    BY <1>37 DEF QuiesceBlockers, Stops
  <2>4. stopper' => \E t \in Clients : Remembers(t)'
    <3>1. CASE mcpUp /\ wasUp[job[c]]
      BY <2>1, <2>2, <3>1
    <3>2. CASE stopper
      BY <2>1, <2>2, <3>2
    <3> QED
      BY <2>3, <3>1, <3>2
  <2> QED
    BY <2>1, <2>2, <2>3, <2>4
<1>38. ASSUME NEW c \in Clients, Activate(c) PROVE ServiceInv'
  BY <1>38, OneHolder DEF Activate, HelperGo, TransInv
<1>39. ASSUME NEW c \in Clients, Decide(c) PROVE ServiceInv'
  BY <1>39, OneHolder DEF Decide, TargetOf, HelperGo
<1>40. ASSUME NEW c \in Clients, Recover(c) PROVE ServiceInv'
  BY <1>40, OneHolder DEF Recover, HelperGo
<1>41. ASSUME NEW c \in Clients, RestoreAndFinalize(c) PROVE ServiceInv'
  <2>1. helper[c] = "restore" /\ job[c] \in Clients
    <3>1. helper[c] = "restore"
      BY <1>41 DEF RestoreAndFinalize
    <3> QED
      BY <3>1
  <2>2. CASE HelperLeaves(c) /\ UNCHANGED <<trans, service>>
    <3>1. /\ helper'[c] = "none" /\ \A d \in Clients \ {c} : helper'[d] = helper[d]
          /\ UNCHANGED <<trans, mcpUp, stopper, wasUp, clientPc, job>>
      BY <1>41, <2>2 DEF RestoreAndFinalize, HelperGo, HelperLeaves, Removed
    <3> QED
      BY <2>1, <3>1
  <2>3. CASE trans[job[c]] \in SafeStates /\ Removed(job[c]) /\ HelperGo(c, "service") /\ UNCHANGED service
    <3>1. stopper' => \E t \in Clients : Remembers(t)'
      <4> SUFFICES ASSUME stopper PROVE \E t \in Clients : Remembers(t)'
        BY <2>3
      <4>1. PICK t \in Clients : Remembers(t)
        OBVIOUS
      <4> QED
        BY <1>41, <2>1, <2>3, <4>1 DEF RestoreAndFinalize, HelperGo, HelperLeaves, Removed
    <3> QED
      BY <1>41, <2>1, <2>3, <3>1 DEF RestoreAndFinalize, HelperGo, HelperLeaves, Removed
  <2>4. CASE /\ trans[job[c]] = "committed" /\ HelperGo(c, "finalize") /\ UNCHANGED trans
             /\ mcpUp' = (mcpUp \/ wasUp[job[c]]) /\ stopper' = (stopper /\ ~wasUp[job[c]])
    <3>1. /\ helper'[c] = "finalize" /\ \A d \in Clients \ {c} : helper'[d] = helper[d]
          /\ UNCHANGED <<trans, wasUp, clientPc, job>>
      BY <1>41, <2>4 DEF RestoreAndFinalize, HelperGo
    <3>2. stopper' => \E t \in Clients : Remembers(t)'
      BY <2>1, <2>4, <3>1
    <3> QED
      BY <2>1, <2>4, <3>1, <3>2
  <2> QED
    BY <1>41, <2>2, <2>3, <2>4 DEF RestoreAndFinalize, FinalizeBeforeStart, service
<1>42. ASSUME NEW c \in Clients, RestoreService(c) PROVE ServiceInv'
  BY <1>42, OneHolder DEF RestoreService, HelperGo, HelperLeaves, TransInv, Working
<1>43. ASSUME NEW c \in Clients, FinalizeCommitted(c) PROVE ServiceInv'
  BY <1>43, OneHolder DEF FinalizeCommitted, HelperGo, HelperLeaves, Removed
<1>44. ASSUME NEW c \in Clients, HelperCrash(c) PROVE ServiceInv'
  BY <1>44, OneHolder DEF HelperCrash, HelperGo, HelperLeaves
<1>45. CASE ServiceDies
  BY <1>45 DEF ServiceDies, Fails
<1>46. CASE UNCHANGED clientVars
  BY <1>46 DEF clientVars
<1>47. CASE ServeManaged
  BY <1>47 DEF ServeManaged
<1> QED
  BY <1>1, <1>2, <1>3, <1>4, <1>5, <1>6, <1>7, <1>8, <1>9, <1>10, <1>11, <1>12, <1>13, <1>14, <1>15, <1>16, <1>17, <1>18, <1>19, <1>20, <1>21, <1>22, <1>23, <1>24, <1>25, <1>26, <1>27, <1>28, <1>29, <1>30, <1>31, <1>32, <1>33, <1>34, <1>35, <1>36, <1>37, <1>38, <1>39, <1>40, <1>41, <1>42, <1>43, <1>44, <1>45, <1>46, <1>47 DEF ClientNext, AhStep, HelperStep

\* The invariants hold before the first `ah` starts.
LEMMA ClientInvInit == ASSUME ClientInit PROVE ClientInv /\ ServiceInv
<1>1. ClientTypes
  <2>1. clientPc \in [Clients -> ClientStates] /\ helper \in [Clients -> HelperStates] /\ trans \in [Clients -> TransStates]
    BY DEF ClientInit, ClientStates, HelperStates, TransStates
  <2>2. ver \in [Clients -> Nat \ {0}] /\ job \in [Clients -> Clients \cup {0}]
    BY DEF ClientInit
  <2>3. wasUp \in [Clients -> BOOLEAN] /\ idents \in [Clients -> {"none", "partial", "whole"}]
    BY DEF ClientInit
  <2> QED
    BY <2>1, <2>2, <2>3 DEF ClientInit, ClientTypes
<1>2. AdoptionInv /\ LeaseInv /\ HelperInv /\ TransInv
  BY DEF ClientInit, AdoptionInv, BindingSound, LeaseInv, HelperInv, HelperAlive, Holding, Applying, TransInv,
         Working, BeforeActivation
<1>3. ServiceInv
  BY DEF ClientInit, ServiceInv
<1> QED
  BY <1>1, <1>2, <1>3 DEF ClientInv

\* Together the invariants are inductive.
LEMMA ClientInvStep == ASSUME ClientInv, [ClientNext]_clientVars PROVE ClientInv'
BY ClientTypesStep, AdoptionStep, LeaseStep, HelperInvStep, TransStep DEF ClientInv

-----------------------------------------------------------------------------
(* The theorems.                                                           *)

\* Two updates never work at once, from the acquisition of the lease by `ah` to
\* the end of the helper's work and across every crash, and the executable is
\* bound to an identity whose directory is whole.
THEOREM HandoverExclusive == ClientSpec => [](HandedOverWithoutGap /\ BindingSound)
<1>1. ClientInit => ClientInv
  BY ClientInvInit
<1>2. ClientInv /\ [ClientNext]_clientVars => ClientInv'
  BY ClientInvStep
<1>3. ClientInv => HandedOverWithoutGap /\ BindingSound
  <2> SUFFICES ASSUME ClientInv PROVE HandedOverWithoutGap /\ BindingSound
    OBVIOUS
  <2>1. HandedOverWithoutGap
    BY OneHolder DEF ClientInv, HandedOverWithoutGap, InSection, LeaseInv
  <2> QED
    BY <2>1 DEF ClientInv, AdoptionInv
<1> QED
  BY <1>1, <1>2, <1>3, PTL DEF ClientSpec

\* A transaction never disappears under the helper that works on it.
THEOREM TransactionKept == ClientSpec => HelperKeepsTransaction
<1>1. ClientInit => ClientInv
  BY ClientInvInit
<1>2. ClientInv /\ [ClientNext]_clientVars => ClientInv'
  BY ClientInvStep
<1> DEFINE Kept == \A c \in Clients :
             LET t == job[c] IN
             (helper[c] \in Applying /\ helper'[c] # "none" /\ t # 0 /\ trans[t] # "none") => trans'[t] # "none"
<1>3. ClientInv /\ [ClientNext]_clientVars => [Kept]_clientVars
  <2> SUFFICES ASSUME ClientInv, ClientNext, NEW c \in Clients, helper[c] \in Applying, job[c] # 0,
                      trans[job[c]] # "none"
               PROVE  trans'[job[c]] # "none"
    BY DEF Kept
  <2> USE DEF ClientInv, ClientTypes, HelperInv, HelperAlive, Applying, Holding, Ended, clientDisk
  <2>1. ASSUME NEW d \in Clients, Rediscover(d) PROVE trans'[job[c]] # "none"
    BY <2>1, OneHolder DEF Rediscover, Stops, Continue, EndsAt, Go, Removed
  <2>2. ASSUME NEW d \in Clients, StageFails(d) PROVE trans'[job[c]] # "none"
    BY <2>2, OneHolder DEF StageFails, EndsAt, Fails, Go, Removed
  <2>3. ASSUME NEW d \in Clients, StopMismatch(d) PROVE trans'[job[c]] # "none"
    BY <2>3, OneHolder DEF StopMismatch, EndsAt, Go, Removed, Undo
  <2>4. ASSUME NEW d \in Clients, StopFails(d) PROVE trans'[job[c]] # "none"
    BY <2>4, OneHolder DEF StopFails, EndsAt, Fails, Go, Removed, Undo
  <2>5. ASSUME NEW d \in Clients, HandoffFails(d) PROVE trans'[job[c]] # "none"
    BY <2>5, OneHolder DEF HandoffFails, EndsAt, Fails, Go, LaunchUndone, Removed, Undo
  <2>6. ASSUME NEW d \in Clients, SafeCleanup(d) PROVE trans'[job[c]] # "none"
    BY <2>6, OneHolder DEF SafeCleanup, EndsAt, Go, LaunchUndone, Removed, Undo
  <2>7. ASSUME NEW d \in Clients, RestoreAndFinalize(d) PROVE trans'[job[c]] # "none"
    BY <2>7, OneHolder DEF RestoreAndFinalize, HelperGo, HelperLeaves, Removed
  <2>8. ASSUME NEW d \in Clients, FinalizeCommitted(d) PROVE trans'[job[c]] # "none"
    BY <2>8, OneHolder DEF FinalizeCommitted, HelperGo, HelperLeaves, Removed
  <2>9. ASSUME NEW d \in Clients, PrepareTransaction(d) PROVE trans'[job[c]] # "none"
    BY <2>9, OneHolder DEF PrepareTransaction, EndsAt, Go
  <2>10. ASSUME NEW d \in Clients, Stage(d) PROVE trans'[job[c]] # "none"
    BY <2>10, OneHolder DEF Stage, Go
  <2>11. ASSUME NEW d \in Clients, Activate(d) PROVE trans'[job[c]] # "none"
    BY <2>11, OneHolder DEF Activate, HelperGo
  <2>12. ASSUME NEW d \in Clients, Decide(d) PROVE trans'[job[c]] # "none"
    BY <2>12, OneHolder DEF Decide, TargetOf, HelperGo
  <2>13. ASSUME NEW d \in Clients, Recover(d) PROVE trans'[job[c]] # "none"
    BY <2>13, OneHolder DEF Recover, HelperGo
  <2>14. ASSUME NEW d \in Clients, AhStep(d) \/ HelperStep(d)
        PROVE  trans'[job[c]] # "none"
    BY <2>1, <2>2, <2>3, <2>4, <2>5, <2>6, <2>7, <2>8, <2>9, <2>10, <2>11, <2>12, <2>13, <2>14 DEF AhStep, HelperStep, Start, StartTorn, Discover, HoldRecovery, RecoveryCopy, Resolve, AdoptLock, AdoptCheck, AdoptWrite, AdoptBind, AdoptFails, Fetch, FetchFails, Hold, HoldTimeout, Cleanup, CopyHelper, StopService, Launch, Acknowledged, Terminated, HelperGone, NotTerminated, ClientCrash, Claim, ClaimFails, ParentGone, HelperGivesUp, QuiesceBlockers, RestoreService, HelperCrash
  <2> QED
    BY <2>14 DEF ClientNext, ServiceDies, ServeManaged
<1> QED
  BY <1>1, <1>2, <1>3, PTL DEF ClientSpec, HelperKeepsTransaction

\* If no helper dies between the end of its transaction and its attempt to restart the
\* service (restore_managed_mcp_and_finalize), a service that the update stopped, knowing that
\* it ran, is not forgotten either before somebody has tried to start it again.
THEOREM HandoverKept == ASSUME FinalizeCrash = FALSE PROVE ClientSpec => []HandoverSound
<1>1. ClientInit => ClientInv /\ ServiceInv
  BY ClientInvInit
<1>2. ClientInv /\ ServiceInv /\ [ClientNext]_clientVars => (ClientInv /\ ServiceInv)'
  BY ClientInvStep, ServiceStep DEF ClientInv
<1>3. ClientInv /\ ServiceInv => StopRemembered
  <2> SUFFICES ASSUME ClientInv, ServiceInv, stopper
               PROVE  \/ \E c \in Clients : Responsible(c)
                      \/ \E t \in Clients : trans[t] # "none" /\ wasUp[t]
    BY DEF StopRemembered
  <2>1. PICK t \in Clients : Remembers(t)
    BY DEF ServiceInv
  <2> QED
    BY <2>1 DEF Remembers, Responsible, HelperAlive
<1>4. ClientSpec => []StopRemembered
  BY <1>1, <1>2, <1>3, PTL DEF ClientSpec
<1> QED
  BY <1>4, HandoverExclusive, PTL DEF HandoverSound
=============================================================================
