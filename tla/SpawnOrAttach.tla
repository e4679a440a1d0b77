--------------------------- MODULE SpawnOrAttach ---------------------------
(***************************************************************************)
(* The desktop shells of one host and port, and the servers they start:    *)
(* apps/desktop/src-tauri/src (spawn_or_attach.rs, sidecar.rs, lib.rs), on *)
(* Linux.                                                                  *)
(*                                                                         *)
(* A shell attaches to a server that answers, and otherwise forks one and  *)
(* polls until something answers; it kills its server when that took too   *)
(* long and when its window closes.  A child asks the kernel to die with   *)
(* its parent, then looks whether it missed that, then becomes the server. *)
(* An orphan's parent is process 1: under a subreaper the look would see   *)
(* another parent, which is not modelled.                                  *)
(***************************************************************************)
CONSTANTS
  Shell,
  Hand,      \* a server somebody started by hand
  Nobody

Distinct == Hand \notin Shell /\ Nobody \notin Shell \cup {Hand}

VARIABLES
  shell,     \* where each shell is
  child,     \* what became of the process it forked
  listener   \* whose server holds the port

vars == <<shell, child, listener>>

Stage == {"probing", "spawning", "polling", "lastProbe", "attached", "owns", "gone"}
Process == {"none", "forked", "armed", "looked", "booting", "serving", "dead"}

TypeOK ==
  /\ shell \in [Shell -> Stage]
  /\ child \in [Shell -> Process]
  /\ listener \in Shell \cup {Hand, Nobody}

Init ==
  /\ shell = [h \in Shell |-> "probing"]
  /\ child = [h \in Shell |-> "none"]
  /\ listener \in {Hand, Nobody}

Moves(h, from, to) == shell[h] = from /\ shell' = [shell EXCEPT ![h] = to]
Becomes(h, from, to) == child[h] = from /\ child' = [child EXCEPT ![h] = to]

PortWithout(h) == IF listener = h THEN Nobody ELSE listener

Killed(h) ==
  /\ child' = [child EXCEPT ![h] = IF @ = "none" THEN @ ELSE "dead"]
  /\ listener' = PortWithout(h)

-----------------------------------------------------------------------------
(* The shell.  A probe that is answered too late counts as no answer. *)

Attaches(h) ==
  /\ listener # Nobody
  /\ Moves(h, "probing", "attached")
  /\ UNCHANGED <<child, listener>>

Forks(h) ==
  /\ Moves(h, "probing", "spawning")
  /\ Becomes(h, "none", "forked")
  /\ UNCHANGED listener

(* A fork or a step of the child that fails is reported, and setup fails. *)
SpawnFails(h) ==
  /\ child[h] \in {"forked", "armed", "looked"}
  /\ Moves(h, "spawning", "gone")
  /\ Killed(h)

(* The poll takes whatever answers for the server it started. *)
FoundHealthy(h) ==
  /\ listener # Nobody
  /\ Moves(h, "polling", "owns")
  /\ UNCHANGED <<child, listener>>

NeverBecameHealthy(h) ==
  /\ Moves(h, "polling", "lastProbe")
  /\ Killed(h)

LastProbe(h) ==
  /\ \/ listener # Nobody /\ Moves(h, "lastProbe", "attached")
     \/ Moves(h, "lastProbe", "gone")
  /\ UNCHANGED <<child, listener>>

WindowCloses(h) ==
  \/ Moves(h, "owns", "gone") /\ Killed(h)
  \/ Moves(h, "attached", "gone") /\ UNCHANGED <<child, listener>>

(* A crash, or an exit that closes no window: the kernel kills an armed child. *)
Dies(h) ==
  /\ shell[h] # "gone"
  /\ shell' = [shell EXCEPT ![h] = "gone"]
  /\ IF child[h] = "forked" THEN UNCHANGED <<child, listener>> ELSE Killed(h)

-----------------------------------------------------------------------------
(* The child, between its fork and the server it becomes. *)

Arms(h) == Becomes(h, "forked", "armed") /\ UNCHANGED <<shell, listener>>

(* Mutant: a child that looks before it arms misses a parent that dies in between. *)
LooksWhileForked(h) ==
  /\ Becomes(h, "armed", "looked")
  /\ UNCHANGED <<shell, listener>>

Looks(h) ==
  /\ Becomes(h, "armed", IF shell[h] = "gone" THEN "dead" ELSE "looked")
  /\ UNCHANGED <<shell, listener>>

(* Spawn returns when the child became the server. *)
Execs(h) ==
  /\ Becomes(h, "looked", "booting")
  /\ shell' = [shell EXCEPT ![h] = IF @ = "spawning" THEN "polling" ELSE @]
  /\ UNCHANGED listener

Listens(h) ==
  /\ listener = Nobody
  /\ Becomes(h, "booting", "serving")
  /\ listener' = h
  /\ UNCHANGED shell

(* The port is taken, or the server fails. *)
Exits(h) ==
  /\ child[h] \in {"booting", "serving"}
  /\ Killed(h)
  /\ UNCHANGED shell

HandStarts == listener = Nobody /\ listener' = Hand /\ UNCHANGED <<shell, child>>
HandStops == listener = Hand /\ listener' = Nobody /\ UNCHANGED <<shell, child>>

Next ==
  \/ \E h \in Shell :
       \/ Attaches(h) \/ Forks(h) \/ SpawnFails(h) \/ FoundHealthy(h)
       \/ NeverBecameHealthy(h) \/ LastProbe(h) \/ WindowCloses(h) \/ Dies(h)
       \/ Arms(h) \/ Looks(h) \/ Execs(h) \/ Listens(h) \/ Exits(h)
  \/ HandStarts \/ HandStops

Spec == Init /\ [][Next]_vars

-----------------------------------------------------------------------------
(* However a shell goes - closed, failed, crashed between any two steps -  *)
(* no server it forked is left behind: the child is dead, or has yet to    *)
(* look for its parent.                                                    *)
NothingLeftBehind ==
  \A h \in Shell : shell[h] = "gone" => child[h] \in {"none", "forked", "armed", "dead"}
=============================================================================
