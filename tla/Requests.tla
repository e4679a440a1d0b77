------------------------------ MODULE Requests ------------------------------
(***************************************************************************)
(* A blocked call of a runtime, from the tool call inside the session host *)
(* to the operator's answer and back: apps/session-host/src (host.ts,      *)
(* request-bridge.ts, permission-gate.ts, ask-tool.ts), the omp adapter's  *)
(* respond, apps/server/src/sessions (driver.ts, gate.ts, steering.ts) and *)
(* apps/server/src/approvals/service.ts, over packages/db/src              *)
(* (approval-store.ts, question-store.ts).                                 *)
(*                                                                         *)
(* A session is driven by one session-host process at a time.  A call is   *)
(* the n-th request of a process of a session.  The process names it n,    *)
(* and PlotRoom knows it by that name and the session, or the name alone.  *)
(* Frames and commands are two pipes; an answer is written, acted on, then *)
(* carried to the process, and awaited or given up after 30 seconds.  No   *)
(* standing decision (pre-grant) covers a call here.                       *)
(***************************************************************************)
EXTENDS Naturals, Sequences, FiniteSets

CONSTANTS
  Session,
  Nobody,
  Kind,       \* what a call wants: a subset of AllKinds
  MaxProc,    \* bound: session hosts started for one session
  MaxCall,    \* bound: requests raised by one session host
  MaxRaised   \* bound: requests raised by all of them

AllKinds == {"shell", "publish", "edit", "question"}

Bounds     == {MaxProc, MaxCall, MaxRaised} \subseteq Nat \ {0}
KnownKinds == Kind \subseteq AllKinds
NobodyIs   == Nobody \notin Session

Call  == [session : Session, proc : 1..MaxProc, seq : 1..MaxCall]
Name  == 1..MaxCall

VARIABLES
  proc,       \* per session: its last session host, 0 before the first
  alive,      \* sessions whose session host runs
  call,       \* what became of a call
  kind,       \* what it wants, once it is raised
  pending,    \* the bridge: calls whose promise is not resolved
  frames,     \* per session: names of the requests raised and not yet read
  commands,   \* per session: the answers written and not yet read
  attached,   \* sessions whose handle the hub holds
  awaiting,   \* sessions whose observation pump awaits the answer it wrote
  approvals,  \* per session and name: what was asked and what was answered
  questions,  \* per name: whose question it is, and whether it is answered
  carrying,   \* answers written down and not yet carried to the runtime
  writer,     \* who holds the claim on the path that calls write
  permitted   \* calls whose process was sent an allow under their name

host   == <<proc, alive, call, kind, pending>>
pipes  == <<frames, commands>>
server == <<attached, awaiting, carrying>>
rows   == <<approvals, questions>>
vars   == <<host, pipes, server, rows, writer, permitted>>

-----------------------------------------------------------------------------
Asks(k)   == k \in {"shell", "publish"}     \* an approval is needed
Writes(k) == k \in {"publish", "edit"}      \* a claimed path is written
IsTool(k) == k # "question"

NoRow == [ask |-> "none", answer |-> "none"]
NoQuestion == [session |-> Nobody, answered |-> FALSE]

Approval == [ask : {k \in Kind : IsTool(k)} \union {"none"},
             answer : {"none", "open", "approve", "failed", "deny"}]
Question == [session : Session \union {Nobody}, answered : BOOLEAN]
Command  == [seq : Name, outcome : {"allow", "deny", "answer"}]
Carried  == [what : {"approval", "question"}, session : Session, seq : Name]

(* The call that the process of s knows by this name now. *)
Current(s, n) == [session |-> s, proc |-> proc[s], seq |-> n]

MayRaise == Cardinality({c \in Call : call[c] # "unborn"}) < MaxRaised

Raised(s) == {n \in Name : proc[s] # 0 /\ call[Current(s, n)] # "unborn"}

Init ==
  /\ proc = [s \in Session |-> 0]
  /\ alive = {}
  /\ call = [c \in Call |-> "unborn"]
  /\ kind = [c \in Call |-> "none"]
  /\ pending = {}
  /\ frames = [s \in Session |-> <<>>]
  /\ commands = [s \in Session |-> <<>>]
  /\ attached = {} /\ awaiting = {} /\ carrying = {}
  /\ approvals = [s \in Session |-> [n \in Name |-> NoRow]]
  /\ questions = [n \in Name |-> NoQuestion]
  /\ writer = Nobody
  /\ permitted = {}

-----------------------------------------------------------------------------
(* The session host. *)

(* A session is started, or resumed once its stream has ended: a new process, *)
(* whose bridge counts from one.                                              *)
Open(s) ==
  /\ s \notin alive \union attached
  /\ proc[s] < MaxProc
  /\ proc' = [proc EXCEPT ![s] = @ + 1]
  /\ alive' = alive \union {s}
  /\ attached' = attached \union {s}
  /\ UNCHANGED <<call, kind, pending, pipes, awaiting, carrying, rows, writer, permitted>>

(* A tool call, or a question, blocks on the bridge. *)
Raise(s, k) ==
  /\ s \in alive /\ MayRaise
  /\ \E n \in Name \ Raised(s) :
       /\ \A earlier \in 1..(n - 1) : earlier \in Raised(s)
       /\ call' = [call EXCEPT ![Current(s, n)] = "waiting"]
       /\ kind' = [kind EXCEPT ![Current(s, n)] = k]
       /\ pending' = pending \union {Current(s, n)}
       /\ frames' = [frames EXCEPT ![s] = Append(@, n)]
  /\ UNCHANGED <<proc, alive, commands, server, rows, writer, permitted>>

(* The SDK gives a tool_call handler 30 seconds and then refuses the call *)
(* itself; the bridge is not told.  A question has no such ceiling.       *)
SdkTimesOut(c) ==
  /\ call[c] = "waiting" /\ IsTool(kind[c])
  /\ call' = [call EXCEPT ![c] = "refused"]
  /\ UNCHANGED <<proc, alive, kind, pending, pipes, server, rows, writer, permitted>>

(* Mutant: the gate lets a call through on whatever is not a denial. *)
OutcomeUnlessDenied(k, outcome) ==
  IF IsTool(k) THEN IF outcome = "deny" THEN "refused" ELSE "ran"
               ELSE IF outcome = "answer" THEN "answered" ELSE "refused"

(* What the tool makes of an outcome: one of the wrong shape is a refusal. *)
OutcomeOf(k, outcome) ==
  CASE IsTool(k) /\ outcome = "allow"   -> "ran"
    [] ~IsTool(k) /\ outcome = "answer" -> "answered"
    [] OTHER                            -> "refused"

(* The host reads a respond command.  A name nothing waits on is a nack. *)
HostResponds(s) ==
  /\ s \in alive /\ commands[s] # <<>>
  /\ LET c == Current(s, Head(commands[s]).seq)
         outcome == Head(commands[s]).outcome IN
     /\ pending' = pending \ {c}
     /\ call' = IF c \in pending /\ call[c] = "waiting"
                THEN [call EXCEPT ![c] = OutcomeOf(kind[c], outcome)]
                ELSE call
  /\ commands' = [commands EXCEPT ![s] = Tail(@)]
  /\ UNCHANGED <<proc, alive, kind, frames, server, rows, writer, permitted>>

Of(s) == {c \in Call : c.session = s}

(* It is stopped, or dies.  What it wrote is still read, by a server that is up. *)
HostGoes(s) ==
  /\ s \in alive
  /\ alive' = alive \ {s}
  /\ call' = [c \in Call |-> IF c \in Of(s) /\ call[c] = "waiting" THEN "gone" ELSE call[c]]
  /\ pending' = pending \ Of(s)
  /\ commands' = [commands EXCEPT ![s] = <<>>]
  /\ UNCHANGED <<proc, kind, frames, server, rows, writer, permitted>>

-----------------------------------------------------------------------------
(* Carrying an outcome to the runtime. *)

(* A handle whose stream is over rejects what it is asked to write. *)
Respond(s, n, outcome) ==
  IF s \in alive
  THEN /\ commands' = [commands EXCEPT ![s] = Append(@, [seq |-> n, outcome |-> outcome])]
       /\ permitted' = IF outcome = "allow" THEN permitted \union {Current(s, n)} ELSE permitted
  ELSE UNCHANGED <<commands, permitted>>

-----------------------------------------------------------------------------
(* The observation pump. *)

MayWrite(s) == writer = s

Answered(row) == row.answer \in {"approve", "failed", "deny"}
Approved(row) == row.answer = "approve"

(* Mutant: a denial that was given is asked again. *)
GateForgetsDenials(row, k, s) ==
  IF Asks(k) /\ ~Approved(row) THEN "ask"
  ELSE IF Writes(k) /\ ~MayWrite(s) THEN "deny" ELSE "allow"

(* decide: an answered denial settles the call; what needs an approval asks; *)
(* a claimed path is checked; and a call whose row is open waits for it.     *)
Gate(row, k, s) ==
  CASE Answered(row) /\ ~Approved(row)                       -> "deny"
    [] ~Answered(row) /\ (Asks(k) \/ row.answer = "open")    -> "ask"
    [] OTHER -> IF Writes(k) /\ ~MayWrite(s) THEN "deny" ELSE "allow"

(* raise finds the row of the name in the session, or writes one. *)
RaiseApproval(s, n, k) ==
  approvals' = [approvals EXCEPT ![s][n] =
                  IF @ = NoRow THEN [ask |-> k, answer |-> "open"] ELSE @]

(* One question per name, whichever session asked it. *)
RaiseQuestion(s, n) ==
  questions' = [questions EXCEPT ![n] =
                  IF @ = NoQuestion THEN [session |-> s, answered |-> FALSE] ELSE @]

(* The frame may be of a process that is gone: it is answered to nobody. *)
PumpReadsRequest(s) ==
  /\ s \in attached \ awaiting /\ frames[s] # <<>>
  /\ frames' = [frames EXCEPT ![s] = Tail(@)]
  /\ LET n == Head(frames[s])
         k == kind[Current(s, n)]
         verdict == Gate(approvals[s][n], k, s) IN
     \/ /\ ~IsTool(k)
        /\ RaiseQuestion(s, n)
        /\ UNCHANGED <<approvals, commands, awaiting, permitted>>
     \/ /\ IsTool(k) /\ verdict = "ask"
        /\ RaiseApproval(s, n, k)
        /\ UNCHANGED <<questions, commands, awaiting, permitted>>
     \/ /\ IsTool(k) /\ verdict # "ask"
        /\ Respond(s, n, verdict)
        /\ awaiting' = awaiting \union {s}
        /\ UNCHANGED rows
  /\ UNCHANGED <<host, attached, carrying, writer>>

(* Acknowledged, refused, rejected by the end of the stream, or given up on. *)
PumpContinues(s) ==
  /\ s \in awaiting
  /\ awaiting' = awaiting \ {s}
  /\ UNCHANGED <<host, pipes, attached, carrying, rows, writer, permitted>>

(* Mutant: the end of the stream is not read behind an unanswered call. *)
StreamEndsAhead(s) ==
  /\ s \in attached \ alive
  /\ attached' = attached \ {s}
  /\ UNCHANGED <<host, pipes, awaiting, carrying, rows, writer, permitted>>

(* The stream ends behind the last frame, and the session with it. *)
StreamEnds(s) ==
  /\ s \in attached \ (alive \union awaiting) /\ frames[s] = <<>>
  /\ attached' = attached \ {s}
  /\ UNCHANGED <<host, pipes, awaiting, carrying, rows, writer, permitted>>

-----------------------------------------------------------------------------
(* The operator. *)

(* Approve once, or deny: written first.  A second answer is refused. *)
AnswerApproval(s, n, decision) ==
  /\ approvals[s][n].answer = "open"
  /\ approvals' = [approvals EXCEPT ![s][n].answer = decision]
  /\ carrying' = carrying \union {[what |-> "approval", session |-> s, seq |-> n]}
  /\ UNCHANGED <<host, pipes, attached, awaiting, questions, writer, permitted>>

(* Telling the other surfaces throws, which is recorded on the row. *)
EffectFails(a) ==
  /\ a \in carrying /\ a.what = "approval"
  /\ approvals[a.session][a.seq].answer = "approve"
  /\ approvals' = [approvals EXCEPT ![a.session][a.seq].answer = "failed"]
  /\ UNCHANGED <<host, pipes, server, questions, writer, permitted>>

AnswerQuestion(n) ==
  /\ questions[n] # NoQuestion /\ ~questions[n].answered
  /\ questions' = [questions EXCEPT ![n].answered = TRUE]
  /\ carrying' = carrying \union {[what |-> "question", session |-> questions[n].session, seq |-> n]}
  /\ UNCHANGED <<host, pipes, attached, awaiting, approvals, writer, permitted>>

(* settlingOutcome: an approval says nothing of who may write the path it named. *)
OutcomeFor(a) ==
  LET row == approvals[a.session][a.seq] IN
  CASE a.what = "question" -> "answer"
    [] a.what = "approval" /\ Approved(row) /\ (Writes(row.ask) => MayWrite(a.session)) -> "allow"
    [] OTHER -> "deny"

(* Mutant: an answer is thrown away when the pump has written one as well. *)
SettleBehindThePump(a) ==
  /\ a \in carrying
  /\ carrying' = carrying \ {a}
  /\ IF a.session \in attached \ awaiting
     THEN Respond(a.session, a.seq, OutcomeFor(a))
     ELSE UNCHANGED <<commands, permitted>>
  /\ UNCHANGED <<host, frames, attached, awaiting, rows, writer>>

(* The answer goes to the handle the hub holds now, if it holds one. *)
Settle(a) ==
  /\ a \in carrying
  /\ carrying' = carrying \ {a}
  /\ IF a.session \in attached
     THEN Respond(a.session, a.seq, OutcomeFor(a))
     ELSE UNCHANGED <<commands, permitted>>
  /\ UNCHANGED <<host, frames, attached, awaiting, rows, writer>>

(* The claim on the path changes hands (see Claims). *)
ClaimMoves ==
  /\ \E other \in (Session \union {Nobody}) \ {writer} : writer' = other
  /\ UNCHANGED <<host, pipes, server, rows, permitted>>

(* The server goes, and with its pipes the session hosts.  The rows stay. *)
Crash ==
  /\ attached # {} \/ carrying # {}
  /\ alive' = {} /\ attached' = {} /\ awaiting' = {} /\ carrying' = {}
  /\ call' = [c \in Call |-> IF call[c] = "waiting" THEN "gone" ELSE call[c]]
  /\ pending' = {}
  /\ frames' = [s \in Session |-> <<>>]
  /\ commands' = [s \in Session |-> <<>>]
  /\ UNCHANGED <<proc, kind, rows, writer, permitted>>

-----------------------------------------------------------------------------
Host(s)     == Open(s) \/ (\E k \in Kind : Raise(s, k)) \/ HostResponds(s) \/ HostGoes(s)
Pump(s)     == PumpReadsRequest(s) \/ PumpContinues(s) \/ StreamEnds(s)
Answers     == \/ \E s \in Session, n \in Name, decision \in {"approve", "deny"} :
                    AnswerApproval(s, n, decision)
               \/ \E n \in Name : AnswerQuestion(n)
Carrier     == \E a \in Carried : Settle(a) \/ EffectFails(a)

Next == \/ \E s \in Session : Host(s) \/ Pump(s)
        \/ \E c \in Call : SdkTimesOut(c)
        \/ Answers
        \/ Carrier
        \/ ClaimMoves
        \/ Crash

Spec == Init /\ [][Next]_vars

-----------------------------------------------------------------------------
(* Every variable stays in its type. *)
TypeOK ==
  /\ proc \in [Session -> 0..MaxProc]
  /\ alive \subseteq Session /\ attached \subseteq Session /\ awaiting \subseteq attached
  /\ call \in [Call -> {"unborn", "waiting", "ran", "refused", "answered", "gone"}]
  /\ kind \in [Call -> Kind \union {"none"}]
  /\ pending \subseteq Call
  /\ frames \in [Session -> Seq(Name)] /\ commands \in [Session -> Seq(Command)]
  /\ approvals \in [Session -> [Name -> Approval]]
  /\ questions \in [Name -> Question]
  /\ carrying \subseteq Carried
  /\ writer \in Session \union {Nobody}
  /\ permitted \subseteq Call

Holds(s, n) == \E i \in DOMAIN frames[s] : frames[s][i] = n
OnItsWay(s, n) == \E i \in DOMAIN commands[s] : commands[s][i].seq = n

(* The tool calls that the server has read and whose answer nobody is writing. *)
LeftWaiting == {c \in Call :
  /\ call[c] = "waiting" /\ IsTool(kind[c])
  /\ c.session \in (alive \intersect attached) \ awaiting
  /\ ~Holds(c.session, c.seq) /\ ~OnItsWay(c.session, c.seq)}

(* A tool call is left waiting only for a decision somebody can still make, *)
(* or one that is being carried to it: never on a denial already given,     *)
(* which nobody can give a second time (sessions/gate.ts).                  *)
EveryGatedCallIsAsked ==
  \A c \in LeftWaiting :
    \/ approvals[c.session][c.seq].answer = "open"
    \/ [what |-> "approval", session |-> c.session, seq |-> c.seq] \in carrying

Floor == INSTANCE GatedCalls WITH call <- call, permitted <- permitted

(* The gate, its pipes, its retries and its crashes keep what it promises: a *)
(* call is let go once, and a tool runs only on an allow sent to the process *)
(* that waits (permission-gate.ts, request-bridge.ts).                       *)
KeepsTheFloor == Floor!Spec

(* A tool call whose approval is answered does not wait for ever, however  *)
(* the answer and the pump cross (approvals/service.ts, driver.ts): sooner *)
(* or later none of them waits.                                            *)
AnsweredCallWaits ==
  \E c \in Call : call[c] = "waiting" /\ IsTool(kind[c]) /\ Answered(approvals[c.session][c.seq])

AnAnswerIsDelivered == AnsweredCallWaits ~> ~AnsweredCallWaits

(* What sessions/gate.ts says of an approval: it lets the call run that the *)
(* operator saw, and no other one.  Another kind of call is another one.    *)
ApprovedForThisCall ==
  \A c \in Call : (call[c] = "ran" /\ Asks(kind[c])) =>
    approvals[c.session][c.seq].ask = kind[c]
=============================================================================
