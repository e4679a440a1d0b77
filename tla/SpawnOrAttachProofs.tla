------------------------ MODULE SpawnOrAttachProofs ------------------------
(***************************************************************************)
(* No shell that is gone leaves its server running, for any number of      *)
(* shells.  NothingLeftBehind is not inductive: a window may close on a    *)
(* shell that attached, and a last probe may find nothing, and neither     *)
(* kills anything, so that what such a shell forked must be dead already;  *)
(* and a child may only look while its shell is there.                     *)
(***************************************************************************)
EXTENDS SpawnOrAttach, TLAPS

(* How far a child can be, by where its shell is. *)
Fits(h) ==
  /\ shell[h] = "probing" => child[h] = "none"
  /\ shell[h] \in {"attached", "lastProbe"} => child[h] \in {"none", "dead"}
  /\ shell[h] = "gone" => child[h] \in {"none", "forked", "armed", "dead"}

(* A child serves when it holds the port, and then only. *)
ServesIffListens == \A h \in Shell : child[h] = "serving" <=> listener = h

Guarded == \A h \in Shell : Fits(h)

IndInv == TypeOK /\ Guarded /\ ServesIffListens

(* The port of the machine is never held for a shell that is gone. *)
PortComesBack == \A h \in Shell : shell[h] = "gone" => listener # h

-----------------------------------------------------------------------------
(* No shell has forked anything at first. *)
LEMMA InitHolds == Distinct /\ Init => IndInv
<1> SUFFICES ASSUME Distinct, Init PROVE IndInv
  OBVIOUS
<1>1. TypeOK
  BY DEF Init, TypeOK, Stage, Process
<1>2. Guarded
  BY DEF Init, Guarded, Fits
<1>3. ServesIffListens
  BY DEF Init, ServesIffListens, Distinct
<1> QED
  BY <1>1, <1>2, <1>3 DEF IndInv

(* A step of one shell and its child, to a stage and a state that fit. *)
LEMMA StepOfOne ==
  ASSUME IndInv, NEW h \in Shell, NEW stage \in Stage, NEW process \in Process,
         shell' = [shell EXCEPT ![h] = stage],
         child' = [child EXCEPT ![h] = process],
         Fits(h)',
         \/ UNCHANGED listener /\ (process = "serving" <=> child[h] = "serving")
         \/ listener' = PortWithout(h) /\ process # "serving"
         \/ listener = Nobody /\ listener' = h /\ process = "serving",
         Distinct
  PROVE  IndInv'
<1> USE DEF IndInv
<1>1. /\ shell \in [Shell -> Stage] /\ child \in [Shell -> Process]
      /\ listener \in Shell \cup {Hand, Nobody}
  BY DEF TypeOK
<1>2. ASSUME NEW k \in Shell, k # h
      PROVE  shell'[k] = shell[k] /\ child'[k] = child[k]
  BY <1>1, <1>2
<1>3. shell'[h] = stage /\ child'[h] = process
  BY <1>1
<1>4. TypeOK'
  BY <1>1 DEF TypeOK, PortWithout
<1>5. Guarded'
  BY <1>2 DEF Guarded, Fits
<1>6. ServesIffListens'
  BY <1>1, <1>2, <1>3 DEF ServesIffListens, PortWithout, Distinct
<1> QED
  BY <1>4, <1>5, <1>6

(* A kill leaves no child that was forked, and its port is free. *)
LEMMA KillsIt ==
  ASSUME IndInv, Distinct, NEW h \in Shell, NEW stage \in Stage \ {"probing"},
         shell' = [shell EXCEPT ![h] = stage], Killed(h)
  PROVE  IndInv'
<1> DEFINE process == IF child[h] = "none" THEN "none" ELSE "dead"
<1>1. /\ shell \in [Shell -> Stage] /\ child \in [Shell -> Process]
  BY DEF IndInv, TypeOK
<1>2. process \in Process /\ process # "serving"
  BY DEF Process
<1>3. child' = [child EXCEPT ![h] = process] /\ listener' = PortWithout(h)
  BY DEF Killed
<1>4. shell'[h] = stage /\ child'[h] = process
  BY <1>1, <1>3
<1>5. Fits(h)'
  BY <1>4 DEF Fits
<1>6. stage \in Stage
  OBVIOUS
<1> HIDE DEF process
<1> QED
  BY <1>2, <1>3, <1>5, <1>6, StepOfOne

(* Every step of a shell, of its child and of the server started by hand. *)
LEMMA NextKeeps ==
  ASSUME Distinct, IndInv, [Next]_vars
  PROVE  IndInv'
<1>0. /\ shell \in [Shell -> Stage] /\ child \in [Shell -> Process]
      /\ listener \in Shell \cup {Hand, Nobody}
      /\ \A h \in Shell : Fits(h)
      /\ \A h \in Shell : child[h] = "serving" <=> listener = h
  BY DEF IndInv, TypeOK, Guarded, ServesIffListens
<1>p. ASSUME NEW h \in Shell, NEW to \in Stage, shell' = [shell EXCEPT ![h] = to],
             to = "probing" => child[h] = "none",
             to \in {"attached", "lastProbe"} => child[h] \in {"none", "dead"},
             to = "gone" => child[h] \in {"none", "forked", "armed", "dead"},
             UNCHANGED <<child, listener>>
      PROVE  IndInv'
  <2>1. child[h] \in Process /\ child' = [child EXCEPT ![h] = child[h]]
    BY <1>0, <1>p
  <2>2. Fits(h)'
    BY <1>0, <1>p DEF Fits
  <2> QED
    BY <1>p, <2>1, <2>2, StepOfOne
<1>c. ASSUME NEW h \in Shell, NEW to \in Process, child' = [child EXCEPT ![h] = to],
             child[h] # "serving", to # "serving",
             shell[h] = "probing" => to = "none",
             shell[h] \in {"attached", "lastProbe"} => to \in {"none", "dead"},
             shell[h] = "gone" => to \in {"none", "forked", "armed", "dead"},
             UNCHANGED <<shell, listener>>
      PROVE  IndInv'
  <2>1. shell[h] \in Stage /\ shell' = [shell EXCEPT ![h] = shell[h]]
    BY <1>0, <1>c
  <2>2. Fits(h)'
    BY <1>0, <1>c DEF Fits
  <2> QED
    BY <1>c, <2>1, <2>2, StepOfOne
<1>1. ASSUME NEW h \in Shell, Attaches(h) PROVE IndInv'
  BY <1>0, <1>1, <1>p DEF Attaches, Moves, Fits, Stage
<1>2. ASSUME NEW h \in Shell, Forks(h) PROVE IndInv'
  <2>1. /\ shell' = [shell EXCEPT ![h] = "spawning"] /\ "spawning" \in Stage
        /\ child' = [child EXCEPT ![h] = "forked"] /\ "forked" \in Process
        /\ child[h] = "none" /\ UNCHANGED listener
    BY <1>2 DEF Forks, Moves, Becomes, Stage, Process
  <2>2. Fits(h)'
    BY <1>0, <2>1 DEF Fits
  <2> QED
    BY <2>1, <2>2, StepOfOne
<1>3. ASSUME NEW h \in Shell, SpawnFails(h) PROVE IndInv'
  BY <1>3, KillsIt DEF SpawnFails, Moves, Stage
<1>4. ASSUME NEW h \in Shell, FoundHealthy(h) PROVE IndInv'
  BY <1>0, <1>4, <1>p DEF FoundHealthy, Moves, Fits, Stage
<1>5. ASSUME NEW h \in Shell, NeverBecameHealthy(h) PROVE IndInv'
  BY <1>5, KillsIt DEF NeverBecameHealthy, Moves, Stage
<1>6. ASSUME NEW h \in Shell, LastProbe(h) PROVE IndInv'
  <2>1. PICK to \in {"attached", "gone"} : Moves(h, "lastProbe", to)
    BY <1>6 DEF LastProbe
  <2>2. child[h] \in {"none", "dead"} /\ UNCHANGED <<child, listener>>
    BY <1>0, <1>6, <2>1 DEF LastProbe, Moves, Fits
  <2> QED
    BY <1>0, <2>1, <2>2, <1>p DEF Moves, Stage
<1>7. ASSUME NEW h \in Shell, WindowCloses(h) PROVE IndInv'
  <2>1. CASE Moves(h, "owns", "gone") /\ Killed(h)
    BY <2>1, KillsIt DEF Moves, Stage
  <2>2. CASE Moves(h, "attached", "gone") /\ UNCHANGED <<child, listener>>
    BY <1>0, <2>2, <1>p DEF Moves, Stage, Fits
  <2> QED
    BY <1>7, <2>1, <2>2 DEF WindowCloses
<1>8. ASSUME NEW h \in Shell, Dies(h) PROVE IndInv'
  <2>1. CASE child[h] = "forked"
    BY <1>0, <1>8, <2>1, <1>p DEF Dies, Stage
  <2>2. CASE child[h] # "forked"
    BY <1>8, <2>2, KillsIt DEF Dies, Stage
  <2> QED
    BY <2>1, <2>2
<1>9. ASSUME NEW h \in Shell, Arms(h) PROVE IndInv'
  <2>1. /\ child[h] = "forked" /\ child' = [child EXCEPT ![h] = "armed"]
        /\ "armed" \in Process /\ UNCHANGED <<shell, listener>>
    BY <1>9 DEF Arms, Becomes, Process
  <2>2. Fits(h)
    BY <1>0
  <2> QED
    BY <2>1, <2>2, <1>c DEF Fits
<1>10. ASSUME NEW h \in Shell, Looks(h) PROVE IndInv'
  <2>1. CASE shell[h] = "gone"
    <3>1. /\ child[h] = "armed" /\ child' = [child EXCEPT ![h] = "dead"]
          /\ "dead" \in Process /\ UNCHANGED <<shell, listener>>
      BY <1>10, <2>1 DEF Looks, Becomes, Process
    <3> QED
      BY <2>1, <3>1, <1>c
  <2>2. CASE shell[h] # "gone"
    <3>1. /\ child[h] = "armed" /\ child' = [child EXCEPT ![h] = "looked"]
          /\ "looked" \in Process /\ UNCHANGED <<shell, listener>>
      BY <1>10, <2>2 DEF Looks, Becomes, Process
    <3>2. Fits(h)
      BY <1>0
    <3> QED
      BY <2>2, <3>1, <3>2, <1>c DEF Fits
  <2> QED
    BY <2>1, <2>2
<1>11. ASSUME NEW h \in Shell, Execs(h) PROVE IndInv'
  <2> DEFINE to == IF shell[h] = "spawning" THEN "polling" ELSE shell[h]
  <2>1. /\ child[h] = "looked" /\ child' = [child EXCEPT ![h] = "booting"]
        /\ "booting" \in Process /\ UNCHANGED listener
        /\ shell' = [shell EXCEPT ![h] = to]
    BY <1>11 DEF Execs, Becomes, Process
  <2>2. shell[h] \in Stage /\ Fits(h)
    BY <1>0
  <2>3. to \in Stage /\ to \notin {"probing", "attached", "lastProbe", "gone"}
    BY <2>1, <2>2 DEF Fits, Stage
  <2>4. shell'[h] = to
    BY <1>0, <2>1
  <2>5. Fits(h)'
    BY <2>3, <2>4 DEF Fits
  <2> HIDE DEF to
  <2> QED
    BY <2>1, <2>3, <2>5, StepOfOne
<1>12. ASSUME NEW h \in Shell, Listens(h) PROVE IndInv'
  <2>1. /\ child[h] = "booting" /\ child' = [child EXCEPT ![h] = "serving"]
        /\ "serving" \in Process /\ listener = Nobody /\ listener' = h
    BY <1>12 DEF Listens, Becomes, Process
  <2>2. shell[h] \in Stage /\ shell' = [shell EXCEPT ![h] = shell[h]]
    BY <1>0, <1>12 DEF Listens
  <2>3. Fits(h)'
    BY <1>0, <1>12, <2>1 DEF Fits, Listens
  <2> QED
    BY <2>1, <2>2, <2>3, StepOfOne
<1>13. ASSUME NEW h \in Shell, Exits(h) PROVE IndInv'
  <2>1. /\ child[h] \in {"booting", "serving"} /\ Killed(h) /\ UNCHANGED shell
    BY <1>13 DEF Exits
  <2>2. shell[h] \in Stage \ {"probing"} /\ shell' = [shell EXCEPT ![h] = shell[h]]
    BY <1>0, <2>1 DEF Fits
  <2> QED
    BY <2>1, <2>2, KillsIt
<1>14. CASE HandStarts \/ HandStops
  <2>1. UNCHANGED <<shell, child>> /\ listener \notin Shell /\ listener' \in {Hand, Nobody}
    BY <1>14 DEF HandStarts, HandStops, Distinct
  <2>2. TypeOK'
    BY <1>0, <2>1 DEF TypeOK
  <2>3. Guarded'
    BY <1>0, <2>1 DEF Guarded, Fits
  <2>4. ServesIffListens'
    BY <1>0, <2>1 DEF ServesIffListens, Distinct
  <2> QED
    BY <2>2, <2>3, <2>4 DEF IndInv
<1>15. CASE UNCHANGED vars
  BY <1>15 DEF vars, IndInv, TypeOK, Guarded, Fits, ServesIffListens
<1> QED
  BY <1>1, <1>2, <1>3, <1>4, <1>5, <1>6, <1>7, <1>8, <1>9, <1>10, <1>11, <1>12,
     <1>13, <1>14, <1>15 DEF Next

(* Shells, their children and the port are typed in every reachable state. *)
THEOREM ShellsAreTyped == Distinct => (Spec => []TypeOK)
<1> SUFFICES ASSUME Distinct PROVE Spec => []TypeOK
  OBVIOUS
<1>1. Init => IndInv
  BY InitHolds
<1>2. IndInv /\ [Next]_vars => IndInv'
  BY NextKeeps
<1>3. IndInv => TypeOK
  BY DEF IndInv
<1> QED
  BY <1>1, <1>2, <1>3, PTL DEF Spec

(* However a shell goes, no server it forked is left behind. *)
THEOREM ShellsLeaveNothing == Distinct => (Spec => []NothingLeftBehind)
<1> SUFFICES ASSUME Distinct PROVE Spec => []NothingLeftBehind
  OBVIOUS
<1>1. Init => IndInv
  BY InitHolds
<1>2. IndInv /\ [Next]_vars => IndInv'
  BY NextKeeps
<1>3. IndInv => NothingLeftBehind
  BY DEF IndInv, Guarded, Fits, NothingLeftBehind
<1> QED
  BY <1>1, <1>2, <1>3, PTL DEF Spec

(* And the next shell finds the port free of it. *)
THEOREM ShellsGiveThePortBack == Distinct => (Spec => []PortComesBack)
<1> SUFFICES ASSUME Distinct PROVE Spec => []PortComesBack
  OBVIOUS
<1>1. Init => IndInv
  BY InitHolds
<1>2. IndInv /\ [Next]_vars => IndInv'
  BY NextKeeps
<1>3. IndInv => PortComesBack
  BY DEF IndInv, Guarded, Fits, ServesIffListens, PortComesBack
<1> QED
  BY <1>1, <1>2, <1>3, PTL DEF Spec
=============================================================================
