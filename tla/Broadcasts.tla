----------------------------- MODULE Broadcasts -----------------------------
(***************************************************************************)
(* Content sent to running sessions, one of them or many:                  *)
(* apps/server/src/sessions/steering.ts (inject, broadcast, deliver,       *)
(* replayBroadcast), packages/db/src (graph-store.ts, broadcast-store.ts,  *)
(* session-store.ts), the omp adapter's inject and the session host's.     *)
(*                                                                         *)
(* What is sent is a gesture with an id of the caller's: it may be made    *)
(* again.  A broadcast is planned and recorded at once, then delivered to  *)
(* one recipient after the other; an injection is a broadcast to one, of   *)
(* which the ledger is the record.  Who may send what to whom, how often,  *)
(* and whom the turns it induces are charged to are left out.              *)
(***************************************************************************)
EXTENDS Naturals, FiniteSets

CONSTANTS
  Session,
  Gesture,
  To,         \* per gesture: whom it names
  Nobody,
  MayCrash    \* whether the server may

Named == /\ IsFiniteSet(Gesture)
         /\ \A g \in Gesture : To[g] \in (SUBSET Session) \ {{}}
NobodyIs == Nobody \notin Session /\ MayCrash \in BOOLEAN

VARIABLES
  life,       \* of a session: recorded as running, attached, or ended
  recipients, \* whom a gesture was recorded as sent to
  place,      \* the place of its content among a recipient's inputs
  left,       \* the recipients it has yet to be delivered to
  sending,    \* what the gesture is doing
  awaited,    \* the recipient whose acknowledgement it waits for
  edges,      \* per session: the places that are taken
  ledger,     \* what became of each injection
  wire,       \* injections the session's process has not read
  held,       \* those it took and has not consumed
  acked,      \* those it acknowledged
  turns       \* how often one was consumed as a turn

gesture == <<left, sending, awaited>>
process == <<wire, held, acked, turns>>
record  == <<recipients, place, edges>>
vars    == <<life, gesture, ledger, process, record>>

Injection == Gesture \X Session

Init ==
  /\ life \in [Session -> {"starting", "live"}]
  /\ recipients = [g \in Gesture |-> {}] /\ left = [g \in Gesture |-> {}]
  /\ place = [i \in Injection |-> 0]
  /\ sending = [g \in Gesture |-> "unsent"]
  /\ awaited = [g \in Gesture |-> Nobody]
  /\ edges = [s \in Session |-> {}]
  /\ ledger = [i \in Injection |-> "none"]
  /\ wire = {} /\ held = {} /\ acked = {}
  /\ turns = [i \in Injection |-> 0]

-----------------------------------------------------------------------------
(* Sessions and their processes. *)

Attach(s) ==
  /\ life[s] = "starting"
  /\ life' = [life EXCEPT ![s] = "live"]
  /\ UNCHANGED <<gesture, ledger, process, record>>

(* However it ends, its process is gone with what it held. *)
Ends(s) ==
  /\ life[s] # "ended"
  /\ life' = [life EXCEPT ![s] = "ended"]
  /\ wire' = {i \in wire : i[2] # s}
  /\ held' = {i \in held : i[2] # s}
  /\ UNCHANGED <<gesture, ledger, acked, turns, record>>

(* The process acknowledges what it read, and hands it to the agent. *)
HostTakes(i) ==
  /\ i \in wire
  /\ wire' = wire \ {i}
  /\ held' = held \union {i}
  /\ acked' = acked \union {i}
  /\ UNCHANGED <<life, gesture, ledger, turns, record>>

(* An entry that was delivered or refused stays so. *)
Mark(i, status) == ledger' = [ledger EXCEPT ![i] = IF @ = "queued" THEN status ELSE @]

(* The agent consumes it as a turn, or will not have it: the pump hears so. *)
HostTurns(i) ==
  /\ i \in held
  /\ held' = held \ {i}
  /\ \/ turns' = [turns EXCEPT ![i] = @ + 1] /\ Mark(i, "delivered")
     \/ UNCHANGED turns /\ Mark(i, "refused")
  /\ UNCHANGED <<life, gesture, wire, acked, record>>

-----------------------------------------------------------------------------
(* The gesture. *)

Running == {s \in Session : life[s] # "ended"}

NextPlace(s) == Cardinality(edges[s]) + 1

(* To one recipient: the edge, the ledger, the runtime.  An edge into a session *)
(* that ended, or to a place that is taken, throws, which ends the gesture.     *)
Deliver(g, s, at) ==
  LET i == <<g, s>> IN
  \/ /\ s \notin Running \/ at \in edges[s]
     /\ sending' = [sending EXCEPT ![g] = "failed"]
     /\ UNCHANGED <<awaited, edges, ledger, wire>>
  \/ /\ s \in Running /\ at \notin edges[s]
     /\ edges' = [edges EXCEPT ![s] = @ \union {at}]
     /\ \/ /\ life[s] = "live"
           /\ ledger' = [ledger EXCEPT ![i] = "queued"]
           /\ wire' = wire \union {i}
           /\ sending' = [sending EXCEPT ![g] = "waiting"]
           /\ awaited' = [awaited EXCEPT ![g] = s]
        \/ /\ life[s] # "live"
           /\ ledger' = [ledger EXCEPT ![i] = "refused"]
           /\ sending' = [sending EXCEPT ![g] = "sending"]
           /\ UNCHANGED <<awaited, wire>>

(* Planned for whom it reaches now, recorded, and delivered to the first. *)
Send(g) ==
  LET reached == To[g] \intersect Running IN
  /\ sending[g] = "unsent" /\ reached # {}
  /\ recipients' = [recipients EXCEPT ![g] = reached]
  /\ place' = [i \in Injection |->
                IF i[1] = g /\ i[2] \in reached THEN NextPlace(i[2]) ELSE place[i]]
  /\ \E s \in reached :
       /\ left' = [left EXCEPT ![g] = reached \ {s}]
       /\ Deliver(g, s, NextPlace(s))
  /\ UNCHANGED <<life, held, acked, turns>>

(* The next one, at the place that it had when the broadcast was planned. *)
SendsOn(g) ==
  /\ sending[g] = "sending"
  /\ \/ /\ left[g] = {}
        /\ sending' = [sending EXCEPT ![g] = "done"]
        /\ UNCHANGED <<left, awaited, edges, ledger, wire>>
     \/ \E s \in left[g] :
          /\ left' = [left EXCEPT ![g] = @ \ {s}]
          /\ Deliver(g, s, place[<<g, s>>])
  /\ UNCHANGED <<life, held, acked, turns, recipients, place>>

(* The acknowledgement; or none in 30 seconds, or the end of the stream, which *)
(* is a refusal, although the process may have it.                             *)
StopsWaiting(g) ==
  LET i == <<g, awaited[g]>> IN
  /\ sending[g] = "waiting"
  /\ \/ i \in acked /\ UNCHANGED ledger
     \/ Mark(i, "refused")
  /\ sending' = [sending EXCEPT ![g] = "sending"]
  /\ awaited' = [awaited EXCEPT ![g] = Nobody]
  /\ UNCHANGED <<life, left, process, record>>

(* Mutant: what was refused is sent again. *)
ReplayRedelivers(g) ==
  /\ recipients[g] # {}
  /\ wire' = wire \union {i \in Injection :
                i[1] = g /\ ledger[i] = "refused" /\ life[i[2]] = "live" /\ turns[i] < 2}
  /\ UNCHANGED <<life, gesture, ledger, held, acked, turns, record>>

(* The same gesture again is answered from the rows, and sends nothing. *)
Replay(g) == recipients[g] # {} /\ UNCHANGED vars

(* What it is answered: a refusal that the ledger has, and else "queued". *)
ReplayedAs(i) == IF ledger[i] = "refused" THEN "refused" ELSE "queued"

(* The server goes, and every session and gesture with it; the rows stay. *)
Crash ==
  /\ MayCrash /\ Running # {}
  /\ life' = [s \in Session |-> "ended"]
  /\ sending' = [g \in Gesture |-> IF sending[g] \in {"sending", "waiting"} THEN "lost" ELSE sending[g]]
  /\ wire' = {} /\ held' = {}
  /\ UNCHANGED <<left, awaited, ledger, acked, turns, record>>

-----------------------------------------------------------------------------
Next ==
  \/ \E s \in Session : Attach(s) \/ Ends(s)
  \/ \E i \in Injection : HostTakes(i) \/ HostTurns(i)
  \/ \E g \in Gesture : Send(g) \/ SendsOn(g) \/ StopsWaiting(g) \/ Replay(g)
  \/ Crash

Spec == Init /\ [][Next]_vars

-----------------------------------------------------------------------------
TypeOK ==
  /\ life \in [Session -> {"starting", "live", "ended"}]
  /\ {recipients, left} \subseteq [Gesture -> SUBSET Session]
  /\ place \in [Injection -> 0..Cardinality(Gesture)]
  /\ sending \in [Gesture -> {"unsent", "sending", "waiting", "done", "failed", "lost"}]
  /\ awaited \in [Gesture -> Session \union {Nobody}]
  /\ edges \in [Session -> SUBSET (1..Cardinality(Gesture))]
  /\ ledger \in [Injection -> {"none", "queued", "delivered", "refused"}]
  /\ wire \union held \union acked \subseteq Injection
  /\ turns \in [Injection -> 0..2]

(* What is sent costs a recipient one turn at most, however often the gesture *)
(* is made and whatever it was told of a process that was slow to answer; and *)
(* what the ledger has as delivered cost it one.                              *)
OneTurnEach == \A i \in Injection :
  /\ turns[i] <= 1
  /\ ledger[i] = "delivered" => turns[i] = 1

(* What steering.ts says of a replay: it tells what was sent.  What it would *)
(* call queued now is in the ledger, or is on its way there.                 *)
ReplaysAreTrue == \A g \in Gesture : \A s \in recipients[g] :
  ReplayedAs(<<g, s>>) = "queued" =>
    ledger[<<g, s>>] # "none" \/ sending[g] \in {"sending", "waiting"}
=============================================================================
