--------------------------- MODULE ServicesProofs ---------------------------
(***************************************************************************)
(* What is proved of a service by itself holds of the services together:   *)
(* a step of Services is a step of the service in focus and changes no     *)
(* variable of another one.  The theorems about a service are those of its *)
(* own proofs, of which this module takes an instance; Same lemmas say     *)
(* that an instance of the proofs and the instance that is checked speak   *)
(* of the same actions.  The threads and calls of PluginHost, and the      *)
(* accounts and caps of Budgets, are proved here, and what a sum over a    *)
(* finite set is.                                                          *)
(***************************************************************************)
EXTENDS Services, FiniteSetTheorems, WellFoundedInduction, TLAPS

CallsP == INSTANCE RequestsProofs WITH MaxRaised <- MaxCalls
SentP == INSTANCE BroadcastsProofs WITH Session <- Recipient
GesturesP == INSTANCE DestructionProofs WITH approvals <- askedFor
ShellsP == INSTANCE SpawnOrAttachProofs WITH child <- forked

-----------------------------------------------------------------------------
(* A step of Services, seen from one service. *)

(* The requests of a runtime step, or none of theirs changes. *)
LEMMA CallsTheirStep == [Next]_vars => Calls!Next \/ UNCHANGED callVars
BY DEF Next, CallsStep, PluginsStep, BudgetsStep, BroadcastsStep, GesturesStep, ShellsStep, vars

(* The plugin host steps, or none of its variables changes. *)
LEMMA PluginsTheirStep == [Next]_vars => Plugins!Next \/ UNCHANGED pluginVars
BY DEF Next, CallsStep, PluginsStep, BudgetsStep, BroadcastsStep, GesturesStep, ShellsStep, vars

(* The budgets step, or none of theirs changes. *)
LEMMA BudgetsTheirStep == [Next]_vars => Spending!Next \/ UNCHANGED budgetVars
BY DEF Next, CallsStep, PluginsStep, BudgetsStep, BroadcastsStep, GesturesStep, ShellsStep, vars

(* The broadcasts step, or none of theirs changes. *)
LEMMA SentTheirStep == [Next]_vars => Sent!Next \/ UNCHANGED sentVars
BY DEF Next, CallsStep, PluginsStep, BudgetsStep, BroadcastsStep, GesturesStep, ShellsStep, vars

(* The destructive gestures step, or none of theirs changes. *)
LEMMA GesturesTheirStep == [Next]_vars => Gestures!Next \/ UNCHANGED gestureVars
BY DEF Next, CallsStep, PluginsStep, BudgetsStep, BroadcastsStep, GesturesStep, ShellsStep, vars

(* The shells step, or none of theirs changes. *)
LEMMA ShellsTheirStep == [Next]_vars => Shells!Next \/ UNCHANGED shellVars
BY DEF Next, CallsStep, PluginsStep, BudgetsStep, BroadcastsStep, GesturesStep, ShellsStep, vars

-----------------------------------------------------------------------------
(* The instances that are checked, and those that are proved. *)

(* The verdict on a gesture and its effect are the same in both. *)
LEMMA GesturesSame ==
  /\ Gestures!Init <=> GesturesP!Init
  /\ Gestures!Next <=> GesturesP!Next
  /\ Gestures!NothingDestroyedUnasked <=> GesturesP!NothingDestroyedUnasked
  /\ Gestures!TypeOK <=> GesturesP!TypeOK
<1>1. Gestures!Init <=> GesturesP!Init
  BY DEF Gestures!Init, GesturesP!Init
<1>2. Gestures!Next <=> GesturesP!Next
  BY DEF Gestures!Next, GesturesP!Next, Gestures!Asks, GesturesP!Asks,
    Gestures!Destroys, GesturesP!Destroys, Gestures!OperatorDestroys, GesturesP!OperatorDestroys,
    Gestures!Restore, GesturesP!Restore, Gestures!Resume, GesturesP!Resume,
    Gestures!Approve, GesturesP!Approve, Gestures!Deny, GesturesP!Deny,
    Gestures!StopEnds, GesturesP!StopEnds, Gestures!StopFails, GesturesP!StopFails,
    Gestures!Declare, GesturesP!Declare, Gestures!Withdraw, GesturesP!Withdraw,
    Gestures!Restart, GesturesP!Restart, Gestures!MustAsk, GesturesP!MustAsk,
    Gestures!MayDestroy, GesturesP!MayDestroy, Gestures!Granted, GesturesP!Granted,
    Gestures!Answered, GesturesP!Answered, Gestures!Approved, GesturesP!Approved,
    Gestures!LatestFor, GesturesP!LatestFor, Gestures!Settles, GesturesP!Settles,
    Gestures!Stops, GesturesP!Stops, Gestures!DeletesAtOnce, GesturesP!DeletesAtOnce,
    Gestures!Deleted, GesturesP!Deleted, Gestures!FailedEffect, GesturesP!FailedEffect
<1>3. Gestures!NothingDestroyedUnasked <=> GesturesP!NothingDestroyedUnasked
  BY DEF Gestures!NothingDestroyedUnasked, GesturesP!NothingDestroyedUnasked,
    Gestures!Settles, GesturesP!Settles
<1>4. Gestures!TypeOK <=> GesturesP!TypeOK
  BY DEF Gestures!TypeOK, GesturesP!TypeOK, Gestures!Approval, GesturesP!Approval,
    Gestures!Deletion, GesturesP!Deletion
<1> QED
  BY <1>1, <1>2, <1>3, <1>4

(* A shell, its child and the port are the same in both. *)
LEMMA ShellsSame ==
  /\ Shells!Init <=> ShellsP!Init
  /\ Shells!Next <=> ShellsP!Next
  /\ Shells!NothingLeftBehind <=> ShellsP!NothingLeftBehind
  /\ Shells!TypeOK <=> ShellsP!TypeOK
<1>1. Shells!Init <=> ShellsP!Init
  BY DEF Shells!Init, ShellsP!Init
<1>2. Shells!Next <=> ShellsP!Next
  BY DEF Shells!Next, ShellsP!Next, Shells!Attaches, ShellsP!Attaches,
    Shells!Forks, ShellsP!Forks, Shells!SpawnFails, ShellsP!SpawnFails,
    Shells!FoundHealthy, ShellsP!FoundHealthy,
    Shells!NeverBecameHealthy, ShellsP!NeverBecameHealthy,
    Shells!LastProbe, ShellsP!LastProbe, Shells!WindowCloses, ShellsP!WindowCloses,
    Shells!Dies, ShellsP!Dies, Shells!Arms, ShellsP!Arms, Shells!Looks, ShellsP!Looks,
    Shells!Execs, ShellsP!Execs, Shells!Listens, ShellsP!Listens, Shells!Exits, ShellsP!Exits,
    Shells!HandStarts, ShellsP!HandStarts, Shells!HandStops, ShellsP!HandStops,
    Shells!Moves, ShellsP!Moves, Shells!Becomes, ShellsP!Becomes,
    Shells!Killed, ShellsP!Killed, Shells!PortWithout, ShellsP!PortWithout
<1>3. Shells!NothingLeftBehind <=> ShellsP!NothingLeftBehind
  BY DEF Shells!NothingLeftBehind, ShellsP!NothingLeftBehind
<1>4. Shells!TypeOK <=> ShellsP!TypeOK
  BY DEF Shells!TypeOK, ShellsP!TypeOK, Shells!Stage, ShellsP!Stage,
    Shells!Process, ShellsP!Process
<1> QED
  BY <1>1, <1>2, <1>3, <1>4

(* What is sent and what becomes of it are the same in both. *)
LEMMA SentSame ==
  /\ Sent!Init <=> SentP!Init
  /\ Sent!Next <=> SentP!Next
  /\ Sent!OneTurnEach <=> SentP!OneTurnEach
  /\ Sent!TypeOK <=> SentP!TypeOK
<1>1. Sent!Init <=> SentP!Init
  BY DEF Sent!Init, SentP!Init, Sent!Injection, SentP!Injection
<1>2. Sent!Next <=> SentP!Next
  BY DEF Sent!Next, SentP!Next, Sent!Attach, SentP!Attach, Sent!Ends, SentP!Ends,
    Sent!HostTakes, SentP!HostTakes, Sent!HostTurns, SentP!HostTurns, Sent!Send, SentP!Send,
    Sent!SendsOn, SentP!SendsOn, Sent!StopsWaiting, SentP!StopsWaiting,
    Sent!Replay, SentP!Replay, Sent!Crash, SentP!Crash, Sent!Mark, SentP!Mark,
    Sent!Deliver, SentP!Deliver, Sent!Running, SentP!Running, Sent!NextPlace, SentP!NextPlace,
    Sent!Injection, SentP!Injection, Sent!gesture, SentP!gesture,
    Sent!process, SentP!process, Sent!record, SentP!record, Sent!vars, SentP!vars,
    Sent!Cardinality, SentP!Cardinality
<1>3. Sent!OneTurnEach <=> SentP!OneTurnEach
  BY DEF Sent!OneTurnEach, SentP!OneTurnEach, Sent!Injection, SentP!Injection
<1>4. Sent!TypeOK <=> SentP!TypeOK
  BY DEF Sent!TypeOK, SentP!TypeOK, Sent!Injection, SentP!Injection,
    Sent!Cardinality, SentP!Cardinality
<1> QED
  BY <1>1, <1>2, <1>3, <1>4

(* The gate, its pipes and its rows are the same in both. *)
LEMMA CallsSame ==
  /\ Calls!Init <=> CallsP!Init
  /\ Calls!Next <=> CallsP!Next
  /\ Calls!EveryGatedCallIsAsked <=> CallsP!EveryGatedCallIsAsked
  /\ Calls!Floor!Init <=> CallsP!Floor!Init
  /\ Calls!Floor!Next <=> CallsP!Floor!Next
  /\ Calls!TypeOK <=> CallsP!TypeOK
<1> USE DEF Calls!Call, CallsP!Call, Calls!Name, CallsP!Name
<1>1. Calls!Init <=> CallsP!Init
  BY DEF Calls!Init, CallsP!Init, Calls!NoRow, CallsP!NoRow, Calls!NoQuestion, CallsP!NoQuestion
<1>2. Calls!Next <=> CallsP!Next
  BY DEF Calls!Next, CallsP!Next, Calls!Host, CallsP!Host, Calls!Pump, CallsP!Pump,
    Calls!Answers, CallsP!Answers, Calls!Carrier, CallsP!Carrier,
    Calls!Carried, CallsP!Carried, Calls!Open, CallsP!Open, Calls!Raise, CallsP!Raise,
    Calls!HostResponds, CallsP!HostResponds, Calls!HostGoes, CallsP!HostGoes,
    Calls!PumpReadsRequest, CallsP!PumpReadsRequest, Calls!PumpContinues, CallsP!PumpContinues,
    Calls!StreamEnds, CallsP!StreamEnds, Calls!SdkTimesOut, CallsP!SdkTimesOut,
    Calls!AnswerApproval, CallsP!AnswerApproval, Calls!AnswerQuestion, CallsP!AnswerQuestion,
    Calls!Settle, CallsP!Settle, Calls!EffectFails, CallsP!EffectFails,
    Calls!ClaimMoves, CallsP!ClaimMoves, Calls!Crash, CallsP!Crash,
    Calls!Asks, CallsP!Asks, Calls!Writes, CallsP!Writes, Calls!IsTool, CallsP!IsTool,
    Calls!NoRow, CallsP!NoRow, Calls!NoQuestion, CallsP!NoQuestion,
    Calls!Current, CallsP!Current, Calls!MayRaise, CallsP!MayRaise, Calls!Raised, CallsP!Raised,
    Calls!OutcomeOf, CallsP!OutcomeOf, Calls!Of, CallsP!Of, Calls!Respond, CallsP!Respond,
    Calls!MayWrite, CallsP!MayWrite, Calls!Answered, CallsP!Answered,
    Calls!Approved, CallsP!Approved, Calls!Gate, CallsP!Gate,
    Calls!RaiseApproval, CallsP!RaiseApproval, Calls!RaiseQuestion, CallsP!RaiseQuestion,
    Calls!OutcomeFor, CallsP!OutcomeFor,
    Calls!host, CallsP!host, Calls!pipes, CallsP!pipes,
    Calls!server, CallsP!server, Calls!rows, CallsP!rows,
    Calls!Cardinality, CallsP!Cardinality
<1>3. Calls!EveryGatedCallIsAsked <=> CallsP!EveryGatedCallIsAsked
  BY DEF Calls!EveryGatedCallIsAsked, CallsP!EveryGatedCallIsAsked,
    Calls!LeftWaiting, CallsP!LeftWaiting, Calls!IsTool, CallsP!IsTool,
    Calls!Holds, CallsP!Holds, Calls!OnItsWay, CallsP!OnItsWay
<1>4. /\ Calls!Floor!Init <=> CallsP!Floor!Init
      /\ Calls!Floor!Next <=> CallsP!Floor!Next
  BY DEF Calls!Floor!Init, CallsP!Floor!Init, Calls!Floor!Next, CallsP!Floor!Next,
    Calls!Floor!Raise, CallsP!Floor!Raise, Calls!Floor!Permit, CallsP!Floor!Permit,
    Calls!Floor!Release, CallsP!Floor!Release, Calls!Floor!Abandon, CallsP!Floor!Abandon,
    Calls!Floor!Outcomes, CallsP!Floor!Outcomes
<1>5. Calls!TypeOK <=> CallsP!TypeOK
  BY DEF Calls!TypeOK, CallsP!TypeOK, Calls!Command, CallsP!Command,
    Calls!Approval, CallsP!Approval, Calls!Question, CallsP!Question,
    Calls!Carried, CallsP!Carried, Calls!IsTool, CallsP!IsTool
<1> QED
  BY <1>1, <1>2, <1>3, <1>4, <1>5

-----------------------------------------------------------------------------
(* The accounts. *)

AccountTypes ==
  /\ runtimeLife \in [Spender -> {"unborn", "starting", "running", "gone"}]
  /\ pump \in [Spender -> {"none", "reading", "stopping", "telling", "over", "broken", "lost"}]
  /\ end \in [Spender -> {"none", "out-of-budget", "by-itself", "stopped", "interrupted"}]
  /\ read \in [Spender -> Nat]
  /\ tripped \in [Spender -> SUBSET Spender]

(* Its books are in order: it is charged for what was read when its stream is *)
(* at its end, and a stop for want of money was told before it read on.       *)
InOrder(s) ==
  /\ runtimeLife[s] \in {"unborn", "starting"} => pump[s] = "none"
  /\ pump[s] = "none" => end[s] = "none"
  /\ pump[s] \in {"over", "broken"} => \A a \in Chain[s] : row[<<a, s>>] = read[s]
  /\ pump[s] \in {"reading", "over"} /\ end[s] = "out-of-budget" =>
       \A a \in Chain[s] \ {s} : <<a, tripped[s], "stopped">> \in told

Accounts == AccountTypes /\ \A s \in Spender : InOrder(s)

(* No session has books at first. *)
LEMMA AccountsAtFirst == Spending!Init => Accounts
BY DEF Spending!Init, Accounts, AccountTypes, InOrder

(* Charging one session changes nothing of another one's row. *)
LEMMA Charges ==
  ASSUME NEW s \in Spender, NEW total, row' = Spending!Attribute(s, total)
  PROVE  /\ \A a \in Spender : a \in Chain[s] => row'[<<a, s>>] = total
         /\ \A a \in Spender : a \notin Chain[s] => row'[<<a, s>>] = row[<<a, s>>]
         /\ \A a \in Spender, t \in Spender \ {s} : row'[<<a, t>>] = row[<<a, t>>]
<1>1. row' = [e \in Spender \X Spender |->
                IF e[2] = s /\ e[1] \in Chain[s] THEN total ELSE row[e]]
  BY DEF Spending!Attribute
<1> QED
  BY <1>1

(* What one session does leaves the books of the others as they are. *)
LEMMA OneAccount ==
  ASSUME Accounts, AccountTypes', NEW s \in Spender, InOrder(s)',
         \A t \in Spender \ {s} :
           /\ runtimeLife'[t] = runtimeLife[t] /\ pump'[t] = pump[t] /\ end'[t] = end[t]
           /\ read'[t] = read[t] /\ tripped'[t] = tripped[t]
           /\ \A a \in Chain[t] : row'[<<a, t>>] = row[<<a, t>>],
         told \subseteq told'
  PROVE  Accounts'
<1>1. ASSUME NEW t \in Spender \ {s} PROVE InOrder(t)'
  <2>1. InOrder(t)
    BY DEF Accounts
  <2> QED
    BY <2>1 DEF InOrder
<1> QED
  BY <1>1 DEF Accounts

(* Every step of a session, of the operator and of a crash keeps them in order. *)
LEMMA AccountsKeep ==
  ASSUME Spending!Lineage, Spending!Scopes, Accounts, Spending!Next \/ UNCHANGED budgetVars
  PROVE  Accounts'
<1>0. /\ runtimeLife \in [Spender -> {"unborn", "starting", "running", "gone"}]
      /\ pump \in [Spender -> {"none", "reading", "stopping", "telling", "over", "broken", "lost"}]
      /\ end \in [Spender -> {"none", "out-of-budget", "by-itself", "stopped", "interrupted"}]
      /\ read \in [Spender -> Nat]
      /\ tripped \in [Spender -> SUBSET Spender]
      /\ \A s \in Spender : InOrder(s)
      /\ \A s \in Spender : Chain[s] \subseteq Spender
  BY DEF Accounts, AccountTypes, Spending!Lineage
<1> USE DEF Spending!runtime, Spending!ends
<1>u. ASSUME UNCHANGED <<runtimeLife, pump, end, read, tripped, row, told>> PROVE Accounts'
  BY <1>0, <1>u DEF Accounts, AccountTypes, InOrder
<1>1. ASSUME NEW s \in Spender, Spending!Start(s) PROVE Accounts'
  <2>1. /\ runtimeLife[s] = "unborn" /\ runtimeLife' = [runtimeLife EXCEPT ![s] = "starting"]
        /\ UNCHANGED <<pump, end, read, tripped, row, told>>
    BY <1>1 DEF Spending!Start
  <2>2. InOrder(s)'
    BY <1>0, <2>1 DEF InOrder
  <2>3. AccountTypes'
    BY <1>0, <2>1 DEF AccountTypes
  <2> QED
    BY <1>0, <2>1, <2>2, <2>3, OneAccount
<1>2. ASSUME NEW s \in Spender, Spending!Attach(s) PROVE Accounts'
  <2>1. /\ runtimeLife[s] = "starting" /\ runtimeLife' = [runtimeLife EXCEPT ![s] = "running"]
        /\ pump' = [pump EXCEPT ![s] = "reading"]
        /\ UNCHANGED <<end, read, tripped, row, told>>
    BY <1>2 DEF Spending!Attach
  <2>2. InOrder(s)'
    <3>1. end[s] = "none"
      BY <1>0, <2>1 DEF InOrder
    <3> QED
      BY <1>0, <2>1, <3>1 DEF InOrder
  <2>3. AccountTypes'
    BY <1>0, <2>1 DEF AccountTypes
  <2> QED
    BY <1>0, <2>1, <2>2, <2>3, OneAccount
<1>3. ASSUME NEW s \in Spender, Spending!TakeTurn(s) PROVE Accounts'
  BY <1>3, <1>u DEF Spending!TakeTurn
<1>4. ASSUME NEW s \in Spender, Spending!RuntimeEnds(s) PROVE Accounts'
  <2>1. /\ runtimeLife[s] = "running" /\ runtimeLife' = [runtimeLife EXCEPT ![s] = "gone"]
        /\ UNCHANGED <<pump, end, read, tripped, row, told>>
    BY <1>4 DEF Spending!RuntimeEnds
  <2>2. InOrder(s)'
    BY <1>0, <2>1 DEF InOrder
  <2>3. AccountTypes'
    BY <1>0, <2>1 DEF AccountTypes
  <2> QED
    BY <1>0, <2>1, <2>2, <2>3, OneAccount
<1>5. ASSUME NEW s \in Spender, Spending!EnforceBudget(s) PROVE Accounts'
  <2>1. /\ pump[s] = "reading" /\ read' = [read EXCEPT ![s] = @ + 1] /\ UNCHANGED runtimeLife
    BY <1>5 DEF Spending!EnforceBudget, Spending!ReadTurn
  <2>2. read[s] + 1 \in Nat /\ read' \in [Spender -> Nat]
    BY <1>0, <2>1
  <2>3. \A t \in Spender \ {s} : read'[t] = read[t]
    BY <1>0, <2>1
  <2>4. runtimeLife[s] \notin {"unborn", "starting"}
    BY <1>0, <2>1 DEF InOrder
  <2>5. CASE UNCHANGED <<pump, end, tripped, told, row>>
    <3>1. InOrder(s)'
      BY <1>0, <2>1, <2>4, <2>5 DEF InOrder
    <3>2. AccountTypes'
      BY <1>0, <2>1, <2>2, <2>5 DEF AccountTypes
    <3> QED
      BY <1>0, <2>1, <2>3, <2>5, <3>1, <3>2, OneAccount
  <2>6. CASE end[s] = "none" /\ row' = Spending!Attribute(s, read'[s])
    <3>1. \A a \in Spender, t \in Spender \ {s} : row'[<<a, t>>] = row[<<a, t>>]
      BY <2>6, Charges
    <3>2. \A t \in Spender \ {s} : \A a \in Chain[t] : row'[<<a, t>>] = row[<<a, t>>]
      BY <1>0, <3>1
    <3>3. CASE UNCHANGED <<end, pump, tripped>> /\ told \subseteq told'
      <4>1. InOrder(s)'
        BY <1>0, <2>1, <2>4, <2>6, <3>3 DEF InOrder
      <4>2. AccountTypes'
        BY <1>0, <2>1, <2>2, <3>3 DEF AccountTypes
      <4> QED
        BY <1>0, <2>1, <2>3, <3>2, <3>3, <4>1, <4>2, OneAccount
    <3>4. ASSUME NEW b \in SUBSET Spender,
                 end' = [end EXCEPT ![s] = "out-of-budget"],
                 pump' = [pump EXCEPT ![s] = "stopping"],
                 tripped' = [tripped EXCEPT ![s] = b], UNCHANGED told
          PROVE  Accounts'
      <4>1. InOrder(s)'
        BY <1>0, <2>1, <2>4, <3>4 DEF InOrder
      <4>2. AccountTypes'
        BY <1>0, <2>1, <2>2, <3>4 DEF AccountTypes
      <4>3. \A t \in Spender \ {s} :
              pump'[t] = pump[t] /\ end'[t] = end[t] /\ tripped'[t] = tripped[t]
        BY <1>0, <3>4
      <4> QED
        BY <1>0, <2>1, <2>3, <3>2, <3>4, <4>1, <4>2, <4>3, OneAccount
    <3>5. \/ UNCHANGED <<end, pump, tripped, told>>
          \/ \E b \in Spending!Tightest(row', s) :
               /\ told' = told \union {<<s, b, "near-cap">>} /\ UNCHANGED <<end, pump, tripped>>
          \/ \E b \in Spending!Tightest(row', s) :
               /\ end' = [end EXCEPT ![s] = "out-of-budget"]
               /\ pump' = [pump EXCEPT ![s] = "stopping"]
               /\ tripped' = [tripped EXCEPT ![s] = b] /\ UNCHANGED told
      BY <1>5, <2>6 DEF Spending!EnforceBudget
    <3>6. Spending!Tightest(row', s) \subseteq SUBSET Spender
      BY DEF Spending!Tightest, Spending!Bindings, Spending!Binding, Spending!Budget,
             Spending!Scopes
    <3> QED
      BY <3>3, <3>4, <3>5, <3>6
  <2> QED
    BY <1>5, <2>5, <2>6 DEF Spending!EnforceBudget
<1>6. ASSUME NEW s \in Spender, Spending!StopAnswered(s) \/ Spending!StopFails(s) PROVE Accounts'
  <2>1. /\ pump[s] = "stopping" /\ row' = Spending!Attribute(s, read[s])
        /\ UNCHANGED <<runtimeLife, end, read, tripped, told>>
    BY <1>6 DEF Spending!StopAnswered, Spending!StopFails
  <2>2. PICK to \in {"telling", "broken"} : pump' = [pump EXCEPT ![s] = to]
    BY <1>6 DEF Spending!StopAnswered, Spending!StopFails
  <2>3. /\ \A a \in Spender : a \in Chain[s] => row'[<<a, s>>] = read[s]
        /\ \A a \in Spender, t \in Spender \ {s} : row'[<<a, t>>] = row[<<a, t>>]
    BY <2>1, Charges
  <2>4. pump'[s] = to /\ \A t \in Spender \ {s} : pump'[t] = pump[t]
    BY <1>0, <2>2
  <2>5. InOrder(s)'
    BY <1>0, <2>1, <2>3, <2>4 DEF InOrder
  <2>6. AccountTypes'
    BY <1>0, <2>1, <2>2 DEF AccountTypes
  <2>7. \A t \in Spender \ {s} : \A a \in Chain[t] : row'[<<a, t>>] = row[<<a, t>>]
    BY <1>0, <2>3
  <2> QED
    BY <1>0, <2>1, <2>4, <2>5, <2>6, <2>7, OneAccount
<1>7. ASSUME NEW s \in Spender, Spending!TellChain(s) PROVE Accounts'
  <2> DEFINE untold == {a \in Chain[s] \ {s} : <<a, tripped[s], "stopped">> \notin told}
  <2>1. pump[s] = "telling" /\ UNCHANGED <<runtimeLife, end, read, tripped, row>>
    BY <1>7 DEF Spending!TellChain
  <2>2. CASE untold = {} /\ pump' = [pump EXCEPT ![s] = "reading"] /\ UNCHANGED told
    <3>1. \A a \in Chain[s] \ {s} : <<a, tripped[s], "stopped">> \in told
      BY <2>2
    <3>2. InOrder(s)'
      BY <1>0, <2>1, <2>2, <3>1 DEF InOrder
    <3>3. AccountTypes'
      BY <1>0, <2>1, <2>2 DEF AccountTypes
    <3>4. \A t \in Spender \ {s} : pump'[t] = pump[t]
      BY <1>0, <2>2
    <3> QED
      BY <1>0, <2>1, <2>2, <3>2, <3>3, <3>4, OneAccount
  <2>3. CASE told \subseteq told' /\ UNCHANGED pump
    <3>2. InOrder(s)'
      BY <1>0, <2>1, <2>3 DEF InOrder
    <3>3. AccountTypes'
      BY <1>0, <2>1, <2>3 DEF AccountTypes
    <3> QED
      BY <1>0, <2>1, <2>3, <3>2, <3>3, OneAccount
  <2> QED
    BY <1>7, <2>2, <2>3 DEF Spending!TellChain
<1>8. ASSUME NEW s \in Spender, Spending!StreamEnds(s) PROVE Accounts'
  <2>1. /\ pump[s] = "reading" /\ row' = Spending!Attribute(s, read[s])
        /\ pump' = [pump EXCEPT ![s] = "over"] /\ runtimeLife[s] = "gone"
        /\ end' = [end EXCEPT ![s] = IF end[s] = "none" THEN "by-itself" ELSE end[s]]
        /\ UNCHANGED <<runtimeLife, read, tripped, told>>
    BY <1>8 DEF Spending!StreamEnds, Spending!EndAs
  <2>2. /\ \A a \in Spender : a \in Chain[s] => row'[<<a, s>>] = read[s]
        /\ \A a \in Spender, t \in Spender \ {s} : row'[<<a, t>>] = row[<<a, t>>]
    BY <2>1, Charges
  <2>3. /\ pump'[s] = "over" /\ end'[s] \in {end[s], "by-itself"}
        /\ \A t \in Spender \ {s} : pump'[t] = pump[t] /\ end'[t] = end[t]
    BY <1>0, <2>1
  <2>4. InOrder(s)'
    BY <1>0, <2>1, <2>2, <2>3 DEF InOrder
  <2>5. AccountTypes'
    BY <1>0, <2>1 DEF AccountTypes
  <2>6. \A t \in Spender \ {s} : \A a \in Chain[t] : row'[<<a, t>>] = row[<<a, t>>]
    BY <1>0, <2>2
  <2> QED
    BY <1>0, <2>1, <2>3, <2>4, <2>5, <2>6, OneAccount
<1>9. ASSUME NEW s \in Spender, Spending!Stop(s) PROVE Accounts'
  <2>1. /\ pump[s] \in {"reading", "stopping", "telling"}
        /\ end' = [end EXCEPT ![s] = IF end[s] = "none" THEN "stopped" ELSE end[s]]
        /\ UNCHANGED <<runtimeLife, read, tripped, pump, told, row>>
    BY <1>9 DEF Spending!Stop, Spending!EndAs
  <2>2. /\ end'[s] \in {end[s], "stopped"}
        /\ \A t \in Spender \ {s} : end'[t] = end[t]
    BY <1>0, <2>1
  <2>3. InOrder(s)'
    BY <1>0, <2>1, <2>2 DEF InOrder
  <2>4. AccountTypes'
    BY <1>0, <2>1 DEF AccountTypes
  <2> QED
    BY <1>0, <2>1, <2>2, <2>3, <2>4, OneAccount
<1>10. ASSUME NEW s \in Spender, Spending!StopReturns(s) PROVE Accounts'
  <2>1. /\ row' = Spending!Attribute(s, read[s])
        /\ UNCHANGED <<runtimeLife, end, read, tripped, pump, told>>
    BY <1>10 DEF Spending!StopReturns
  <2>2. /\ \A a \in Spender : a \in Chain[s] => row'[<<a, s>>] = read[s]
        /\ \A a \in Spender, t \in Spender \ {s} : row'[<<a, t>>] = row[<<a, t>>]
    BY <2>1, Charges
  <2>3. InOrder(s)'
    BY <1>0, <2>1, <2>2 DEF InOrder
  <2>4. AccountTypes'
    BY <1>0, <2>1 DEF AccountTypes
  <2>5. \A t \in Spender \ {s} : \A a \in Chain[t] : row'[<<a, t>>] = row[<<a, t>>]
    BY <1>0, <2>2
  <2> QED
    BY <1>0, <2>1, <2>3, <2>4, <2>5, OneAccount
<1>11. ASSUME NEW b \in Ceiling, Spending!SetBudget(b) PROVE Accounts'
  BY <1>11, <1>u DEF Spending!SetBudget
<1>12. CASE Spending!Crash
  <2> DEFINE inFlight == {s \in Spender : pump[s] = "reading" /\ end[s] = "none"}
  <2>1. PICK torn \in SUBSET Spender :
          /\ \A s \in torn : pump[s] = "reading"
          /\ read' = [s \in Spender |-> IF s \in torn THEN read[s] + 1 ELSE read[s]]
    BY <1>12 DEF Spending!Crash
  <2>2. /\ runtimeLife' = [s \in Spender |-> IF runtimeLife[s] = "unborn" THEN "unborn" ELSE "gone"]
        /\ UNCHANGED <<tripped, told>>
    BY <1>12 DEF Spending!Crash
  <2>3. /\ end' = [s \in Spender |-> IF s \in inFlight THEN "interrupted" ELSE end[s]]
        /\ row' = [e \in Spender \X Spender |->
                     IF e[2] \in inFlight /\ e[1] \in Chain[e[2]] THEN read'[e[2]] ELSE row[e]]
        /\ pump' = [s \in Spender |->
                      IF s \in inFlight THEN "over"
                      ELSE IF pump[s] \in {"reading", "stopping", "telling"} THEN "lost"
                           ELSE pump[s]]
    BY <1>12 DEF Spending!Crash
  <2> HIDE DEF inFlight
  <2>4. AccountTypes'
    <3>1. \A s \in Spender : read[s] \in Nat /\ read[s] + 1 \in Nat
      BY <1>0
    <3>2. read' \in [Spender -> Nat]
      BY <2>1, <3>1
    <3>3. pump' \in [Spender -> {"none", "reading", "stopping", "telling", "over", "broken", "lost"}]
      BY <1>0, <2>3
    <3>4. end' \in [Spender -> {"none", "out-of-budget", "by-itself", "stopped", "interrupted"}]
      BY <1>0, <2>3
    <3>5. runtimeLife' \in [Spender -> {"unborn", "starting", "running", "gone"}]
      BY <1>0, <2>2
    <3> QED
      BY <1>0, <2>2, <3>2, <3>3, <3>4, <3>5 DEF AccountTypes
  <2>5. ASSUME NEW s \in Spender PROVE InOrder(s)'
    <3>0. \A a \in Chain[s] : <<a, s>> \in Spender \X Spender
      BY <1>0
    <3>1. CASE s \in inFlight
      <4>1. /\ pump'[s] = "over" /\ end'[s] = "interrupted" /\ pump[s] = "reading"
        BY <2>3, <3>1 DEF inFlight
      <4>2. \A a \in Chain[s] : row'[<<a, s>>] = read'[s]
        BY <2>3, <3>0, <3>1
      <4>3. runtimeLife[s] \notin {"unborn", "starting"}
        BY <1>0, <4>1 DEF InOrder
      <4>4. runtimeLife'[s] = "gone"
        BY <2>2, <4>3
      <4> QED
        BY <4>1, <4>2, <4>4 DEF InOrder
    <3>2. CASE s \notin inFlight
      <4>1. /\ end'[s] = end[s]
            /\ pump'[s] = IF pump[s] \in {"reading", "stopping", "telling"} THEN "lost" ELSE pump[s]
        BY <2>3, <3>2
      <4>2. \A a \in Chain[s] : row'[<<a, s>>] = row[<<a, s>>]
        BY <2>3, <3>0, <3>2
      <4>3. pump[s] \in {"over", "broken"} => read'[s] = read[s]
        BY <2>1
      <4>4. runtimeLife'[s] \in {"unborn", "starting"} => runtimeLife[s] = "unborn"
        BY <2>2
      <4>5. InOrder(s)
        BY <1>0
      <4> QED
        BY <2>2, <4>1, <4>2, <4>3, <4>4, <4>5 DEF InOrder
    <3> QED
      BY <3>1, <3>2
  <2> QED
    BY <2>4, <2>5 DEF Accounts
<1>13. CASE UNCHANGED budgetVars
  BY <1>13, <1>u DEF budgetVars
<1> QED
  BY <1>1, <1>2, <1>3, <1>4, <1>5, <1>6, <1>7, <1>8, <1>9, <1>10, <1>11, <1>12, <1>13
     DEF Spending!Next, Spending!Pump

-----------------------------------------------------------------------------
(* The threads of a plugin. *)

Word == [what : {"loaded", "load-failed", "error", "exit"}]
        \union [what : {"result", "call-failed"}, call : PluginCall]

ThreadTypes ==
  /\ health \in {"loading", "ready", "restarting", "unavailable", "disposed"}
  /\ descriptor \in BOOLEAN /\ restarts \in 0..MaxRestarts
  /\ started \in Plugins!Worker /\ asked \subseteq running \X PluginCall
  /\ said \in [Plugins!Worker -> Seq(Word)]

CallTypes ==
  /\ invoked \in [PluginCall -> {"none", "authorizing", "pending", "resolved", "rejected", "refused"}]
  /\ through \in [PluginCall -> 0..started]
  /\ timers \subseteq Plugins!Pending

(* Only the thread that was started last runs or has anything to say, and it *)
(* is the one the host speaks to; a host that waits to restart has none.     *)
OneThread ==
  /\ running \subseteq {started}
  /\ worker = IF health \in {"loading", "ready"} THEN started ELSE 0
  /\ \A w \in Plugins!Worker \ {started} : said[w] = <<>>
  /\ health \in {"restarting", "unavailable"} => running = {} /\ said[started] = <<>>

(* A thread that died says nothing more. *)
DeathIsLast ==
  \A i \in 1..Len(said[started]) :
    said[started][i].what \in {"error", "exit"} => running = {} /\ i = Len(said[started])

(* A thread that is missed died by itself, and the bound leaves room for another. *)
MayStart ==
  health \in {"loading", "ready", "restarting"} /\ running = {} => started <= MaxDeaths

Threads == ThreadTypes /\ OneThread /\ DeathIsLast /\ MayStart

(* What is heard is of the last thread, and leaves what it said after it. *)
LEMMA HeardOfTheLast ==
  ASSUME Plugins!PluginBounds, Threads, NEW w \in Plugins!Worker, said[w] # <<>>,
         said' = [said EXCEPT ![w] = Tail(@)]
  PROVE  /\ w = started /\ said' \in [Plugins!Worker -> Seq(Word)]
         /\ \A v \in Plugins!Worker \ {started} : said'[v] = <<>>
         /\ Len(said'[started]) = Len(said[started]) - 1
         /\ \A i \in 1..Len(said'[started]) :
              said'[started][i] = said[started][i + 1] /\ i + 1 \in 1..Len(said[started])
<1>1. /\ said \in [Plugins!Worker -> Seq(Word)] /\ started \in Plugins!Worker
      /\ \A v \in Plugins!Worker \ {started} : said[v] = <<>>
  BY DEF Threads, ThreadTypes, OneThread
<1>2. w = started
  BY <1>1
<1>3. said[started] \in Seq(Word) /\ said[started] # <<>>
  BY <1>1, <1>2
<1>4. /\ Tail(said[started]) \in Seq(Word)
      /\ Len(Tail(said[started])) = Len(said[started]) - 1
      /\ \A i \in 1..Len(Tail(said[started])) :
           Tail(said[started])[i] = said[started][i + 1] /\ i + 1 \in 1..Len(said[started])
  BY <1>3
<1>5. said' = [said EXCEPT ![started] = Tail(said[started])]
  BY <1>2
<1>6. said'[started] = Tail(said[started]) /\ said' \in [Plugins!Worker -> Seq(Word)]
  BY <1>1, <1>4, <1>5
<1>7. \A v \in Plugins!Worker \ {started} : said'[v] = <<>>
  BY <1>1, <1>5
<1> QED
  BY <1>2, <1>4, <1>6, <1>7

(* Hearing it with no change of the host but of its word for its health. *)
LEMMA HeardKeeps ==
  ASSUME Plugins!PluginBounds, Threads, NEW w \in Plugins!Worker, said[w] # <<>>,
         Plugins!Heard(w), UNCHANGED started,
         descriptor' \in BOOLEAN, restarts' \in 0..MaxRestarts,
         \/ UNCHANGED <<health, worker>>
         \/ health = "loading" /\ health' = "ready" /\ UNCHANGED worker
         \/ /\ health \in {"loading", "ready"} /\ health' = "restarting" /\ worker' = 0
            /\ Head(said[w]).what \in {"error", "exit"}
  PROVE  Threads'
<1>0. said' = [said EXCEPT ![w] = Tail(@)] /\ UNCHANGED <<running, asked>>
  BY DEF Plugins!Heard
<1>1. /\ w = started /\ said' \in [Plugins!Worker -> Seq(Word)]
      /\ \A v \in Plugins!Worker \ {started} : said'[v] = <<>>
      /\ Len(said'[started]) = Len(said[started]) - 1
      /\ \A i \in 1..Len(said'[started]) :
           said'[started][i] = said[started][i + 1] /\ i + 1 \in 1..Len(said[started])
  BY <1>0, HeardOfTheLast
<1>2. ThreadTypes /\ OneThread /\ DeathIsLast /\ MayStart
  BY DEF Threads
<1>3. started \in Plugins!Worker /\ said[started] \in Seq(Word) /\ said'[started] \in Seq(Word)
  BY <1>1, <1>2 DEF ThreadTypes
<1>4. Len(said[started]) \in Nat /\ Len(said[started]) >= 1 /\ Head(said[w]) = said[started][1]
  BY <1>1, <1>3
<1>5. health' \in {"loading", "ready", "restarting", "unavailable", "disposed"}
  BY <1>2 DEF ThreadTypes
<1>6. ThreadTypes'
  BY <1>0, <1>1, <1>2, <1>5 DEF ThreadTypes
<1>7. DeathIsLast'
  <2>1. ASSUME NEW i \in 1..Len(said'[started]),
               said'[started][i].what \in {"error", "exit"}
        PROVE  running' = {} /\ i = Len(said'[started])
    <3>1. i + 1 \in 1..Len(said[started]) /\ said[started][i + 1].what \in {"error", "exit"}
      BY <1>1, <2>1
    <3>2. running = {} /\ i + 1 = Len(said[started])
      BY <1>2, <3>1 DEF DeathIsLast
    <3>3. i \in Int /\ Len(said'[started]) = Len(said[started]) - 1
      BY <1>1, <1>4
    <3> QED
      BY <1>0, <1>4, <3>2, <3>3
  <2> QED
    BY <2>1 DEF DeathIsLast
<1>8. CASE UNCHANGED <<health, worker>>
  <2>1. health \notin {"restarting", "unavailable"}
    BY <1>1, <1>2 DEF OneThread
  <2>2. OneThread'
    BY <1>0, <1>1, <1>2, <1>8, <2>1 DEF OneThread
  <2>3. MayStart'
    BY <1>0, <1>2, <1>8 DEF MayStart
  <2> QED
    BY <1>6, <1>7, <2>2, <2>3 DEF Threads
<1>9. CASE health = "loading" /\ health' = "ready" /\ UNCHANGED worker
  <2>2. OneThread'
    BY <1>0, <1>1, <1>2, <1>9 DEF OneThread
  <2>3. MayStart'
    BY <1>0, <1>2, <1>9 DEF MayStart
  <2> QED
    BY <1>6, <1>7, <2>2, <2>3 DEF Threads
<1>10. CASE /\ health \in {"loading", "ready"} /\ health' = "restarting" /\ worker' = 0
            /\ Head(said[w]).what \in {"error", "exit"}
  <2>0. 1 \in 1..Len(said[started]) /\ said[started][1].what \in {"error", "exit"}
    BY <1>4, <1>10
  <2>1. running = {} /\ Len(said[started]) = 1
    BY <1>2, <2>0 DEF DeathIsLast
  <2>2. said'[started] = <<>>
    BY <1>1, <1>3, <2>1
  <2>3. OneThread'
    BY <1>0, <1>1, <1>2, <1>10, <2>1, <2>2 DEF OneThread
  <2>4. MayStart'
    BY <1>0, <1>2, <1>10, <2>1 DEF MayStart
  <2> QED
    BY <1>6, <1>7, <2>3, <2>4 DEF Threads
<1> QED
  BY <1>8, <1>9, <1>10

(* A failure, and a dispose of what was not ready, leave no thread. *)
LEMMA TerminatesTheLast ==
  ASSUME Plugins!PluginBounds, Threads, Plugins!Terminate(worker),
         health \in {"loading", "ready", "restarting", "unavailable"},
         health' \in {"unavailable", "disposed"}, worker' = 0,
         UNCHANGED <<descriptor, restarts, started>>
  PROVE  Threads'
<1>0. /\ running' = running \ {worker}
      /\ said' = [v \in Plugins!Worker |-> IF v = worker THEN <<>> ELSE said[v]]
      /\ asked' = {a \in asked : a[1] # worker}
  BY DEF Plugins!Terminate
<1>1. ThreadTypes /\ OneThread
  BY DEF Threads
<1>2. /\ started \in Plugins!Worker /\ said \in [Plugins!Worker -> Seq(Word)]
      /\ asked \subseteq running \X PluginCall /\ running \subseteq {started}
      /\ worker \in {0, started}
      /\ worker = 0 => running = {} /\ said[started] = <<>>
      /\ \A v \in Plugins!Worker \ {started} : said[v] = <<>>
  <2>1. started # 0
    BY <1>1 DEF ThreadTypes, Plugins!Worker
  <2> QED
    BY <1>1, <2>1 DEF ThreadTypes, OneThread
<1>3. running' = {} /\ said' = [v \in Plugins!Worker |-> <<>>]
  BY <1>0, <1>2
<1>4. asked' \subseteq running' \X PluginCall
  BY <1>0, <1>2
<1>5. said' \in [Plugins!Worker -> Seq(Word)]
  BY <1>3
<1>6. ThreadTypes'
  BY <1>1, <1>4, <1>5 DEF ThreadTypes
<1>7. OneThread'
  BY <1>2, <1>3 DEF OneThread
<1>8. DeathIsLast'
  BY <1>2, <1>3 DEF DeathIsLast
<1>9. MayStart'
  BY DEF MayStart
<1> QED
  BY <1>6, <1>7, <1>8, <1>9 DEF Threads

(* Giving a plugin up leaves no thread of it. *)
LEMMA FailsKeeps ==
  ASSUME Plugins!PluginBounds, Threads, Plugins!Fail
  PROVE  Threads'
<1>1. /\ health \notin {"unavailable", "disposed"} /\ health' = "unavailable" /\ worker' = 0
      /\ Plugins!Terminate(worker) /\ UNCHANGED <<descriptor, restarts, started>>
  BY DEF Plugins!Fail, Plugins!Gone
<1>2. health \in {"loading", "ready", "restarting", "unavailable"}
  BY <1>1 DEF Threads, ThreadTypes
<1> QED
  BY <1>1, <1>2, TerminatesTheLast

(* A thread that runs, and that the host may know, says something. *)
LEMMA SaysKeeps ==
  ASSUME Plugins!PluginBounds, Threads, NEW w \in running, NEW what \in Word,
         Plugins!Says(w, what), UNCHANGED <<health, descriptor, restarts, worker, started>>,
         \/ what.what \notin {"error", "exit"} /\ UNCHANGED running
         \/ running' = {} /\ started <= MaxDeaths,
         asked' \subseteq running' \X PluginCall
  PROVE  Threads'
<1>1. ThreadTypes /\ OneThread /\ DeathIsLast /\ MayStart
  BY DEF Threads
<1>2. /\ started \in Plugins!Worker /\ said \in [Plugins!Worker -> Seq(Word)]
      /\ running = {started} /\ w = started
      /\ \A v \in Plugins!Worker \ {started} : said[v] = <<>>
  BY <1>1 DEF ThreadTypes, OneThread
<1>3. said[started] \in Seq(Word) /\ Len(said[started]) \in Nat
  BY <1>2
<1>4. said' = [said EXCEPT ![started] = Append(said[started], what)]
  BY <1>2 DEF Plugins!Says
<1>5. Append(said[started], what) \in Seq(Word)
  BY <1>3
<1>6. said' \in [Plugins!Worker -> Seq(Word)] /\ said'[started] = Append(said[started], what)
  BY <1>2, <1>4, <1>5
<1>7. /\ Len(said'[started]) = Len(said[started]) + 1
      /\ said'[started][Len(said[started]) + 1] = what
      /\ \A i \in 1..Len(said[started]) : said'[started][i] = said[started][i]
  BY <1>3, <1>6
<1>8. ThreadTypes'
  BY <1>1, <1>6 DEF ThreadTypes
<1>9. OneThread'
  <2>1. \A v \in Plugins!Worker \ {started} : said'[v] = <<>>
    BY <1>2, <1>4
  <2> QED
    BY <1>1, <1>2, <2>1 DEF OneThread
<1>10. DeathIsLast'
  <2>1. \A i \in 1..Len(said[started]) : said[started][i].what \notin {"error", "exit"}
    BY <1>1, <1>2 DEF DeathIsLast
  <2>2. ASSUME NEW i \in 1..(Len(said[started]) + 1),
               said'[started][i].what \in {"error", "exit"}
        PROVE  running' = {} /\ i = Len(said[started]) + 1
    <3>1. i = Len(said[started]) + 1
      BY <1>3, <1>7, <2>1, <2>2
    <3> QED
      BY <1>7, <2>2, <3>1
  <2> QED
    BY <1>7, <2>2 DEF DeathIsLast
<1>11. MayStart'
  BY <1>1 DEF MayStart
<1> QED
  BY <1>8, <1>9, <1>10, <1>11 DEF Threads

(* Every step of the host, of its threads and of its calls. *)
LEMMA ThreadsKeep ==
  ASSUME Plugins!PluginBounds, Threads, Plugins!Next \/ UNCHANGED pluginVars
  PROVE  Threads'
<1>0. /\ ThreadTypes /\ OneThread /\ DeathIsLast /\ MayStart
      /\ descriptor \in BOOLEAN /\ restarts \in 0..MaxRestarts /\ 0 \in 0..MaxRestarts
      /\ MaxRestarts \in Nat /\ MaxDeaths \in Nat
  BY DEF Threads, ThreadTypes, Plugins!PluginBounds
<1> USE DEF Plugins!host, Plugins!calls
<1>u. ASSUME UNCHANGED <<health, descriptor, restarts, worker, started, running, said>>,
             asked' \subseteq running \X PluginCall
      PROVE  Threads'
  BY <1>0, <1>u DEF Threads, ThreadTypes, OneThread, DeathIsLast, MayStart
<1>1. ASSUME NEW w \in Plugins!Worker, Plugins!HearsLoaded(w) PROVE Threads'
  <2>1. CASE Plugins!Fail
    BY <2>1, FailsKeeps
  <2>2. CASE ~Plugins!Fail
    <3>1. /\ said[w] # <<>> /\ Plugins!Heard(w) /\ UNCHANGED <<worker, started>>
          /\ \/ health = "loading" /\ health' = "ready" /\ descriptor' = TRUE /\ restarts' = 0
             \/ UNCHANGED <<health, descriptor, restarts>>
      BY <1>1, <2>2 DEF Plugins!HearsLoaded
    <3>2. descriptor' \in BOOLEAN /\ restarts' \in 0..MaxRestarts
      BY <1>0, <3>1
    <3> QED
      BY <3>1, <3>2, HeardKeeps
  <2> QED
    BY <2>1, <2>2
<1>2. ASSUME NEW w \in Plugins!Worker, Plugins!HearsLoadFailed(w) PROVE Threads'
  BY <1>2, FailsKeeps DEF Plugins!HearsLoadFailed
<1>3. ASSUME NEW w \in Plugins!Worker, Plugins!HearsResult(w) PROVE Threads'
  <2>1. /\ said[w] # <<>> /\ Plugins!Heard(w)
        /\ UNCHANGED <<health, descriptor, restarts, worker, started>>
    BY <1>3 DEF Plugins!HearsResult
  <2> QED
    BY <1>0, <2>1, HeardKeeps
<1>4. ASSUME NEW w \in Plugins!Worker, Plugins!HearsCallFailed(w) PROVE Threads'
  <2>1. CASE Plugins!Fail
    BY <2>1, FailsKeeps
  <2>2. CASE ~Plugins!Fail
    <3>1. /\ said[w] # <<>> /\ Plugins!Heard(w)
          /\ UNCHANGED <<health, descriptor, restarts, worker, started>>
      BY <1>4, <2>2 DEF Plugins!HearsCallFailed, Plugins!FailedBefore
    <3> QED
      BY <1>0, <3>1, HeardKeeps
  <2> QED
    BY <2>1, <2>2
<1>5. ASSUME NEW w \in Plugins!Worker, Plugins!HearsDeath(w) PROVE Threads'
  <2>1. CASE Plugins!Fail
    BY <2>1, FailsKeeps
  <2>2. CASE ~Plugins!Fail
    <3>1. said[w] # <<>> /\ Plugins!Heard(w) /\ UNCHANGED <<descriptor, started>>
      BY <1>5, <2>2 DEF Plugins!HearsDeath
    <3>2. \/ UNCHANGED <<health, worker, restarts>>
          \/ /\ health \in {"loading", "ready"} /\ health' = "restarting" /\ worker' = 0
             /\ Head(said[w]).what \in {"error", "exit"}
             /\ restarts < MaxRestarts /\ restarts' = restarts + 1
      BY <1>5, <2>2 DEF Plugins!HearsDeath, Plugins!MayRestart
    <3>3. descriptor' \in BOOLEAN /\ restarts' \in 0..MaxRestarts
      BY <1>0, <3>1, <3>2
    <3> QED
      BY <3>1, <3>2, <3>3, HeardKeeps
  <2> QED
    BY <2>1, <2>2
<1>6. CASE Plugins!BackoffEnds
  <2>1. /\ health = "restarting" /\ health' = "loading"
        /\ worker' = started + 1 /\ started' = started + 1
        /\ running' = running \union {started + 1}
        /\ UNCHANGED <<descriptor, restarts, said, asked>>
    BY <1>6 DEF Plugins!BackoffEnds
  <2>2. /\ running = {} /\ said[started] = <<>> /\ started <= MaxDeaths
        /\ \A v \in Plugins!Worker \ {started} : said[v] = <<>>
    BY <1>0, <2>1 DEF OneThread, MayStart
  <2>3. started \in 1..(MaxDeaths + 1) /\ started + 1 \in 1..(MaxDeaths + 1)
    BY <1>0, <2>2 DEF ThreadTypes, Plugins!Worker
  <2>4. \A v \in Plugins!Worker : said[v] = <<>>
    BY <2>2
  <2>5. ThreadTypes'
    BY <1>0, <2>1, <2>2, <2>3 DEF ThreadTypes, Plugins!Worker
  <2>6. OneThread'
    BY <2>1, <2>2, <2>4 DEF OneThread
  <2>7. DeathIsLast'
    BY <2>1, <2>3, <2>4 DEF DeathIsLast, Plugins!Worker
  <2>8. MayStart'
    BY <2>1 DEF MayStart
  <2> QED
    BY <2>5, <2>6, <2>7, <2>8 DEF Threads
<1>7. CASE Plugins!LoadTimesOut
  BY <1>7, FailsKeeps DEF Plugins!LoadTimesOut
<1>8. ASSUME NEW c \in PluginCall, Plugins!CallTimesOut(c) PROVE Threads'
  BY <1>0, <1>8, <1>u, FailsKeeps DEF Plugins!CallTimesOut, ThreadTypes
<1>9. ASSUME NEW c \in PluginCall, Plugins!Invoke(c) PROVE Threads'
  BY <1>0, <1>9, <1>u DEF Plugins!Invoke, ThreadTypes
<1>10. ASSUME NEW c \in PluginCall, Plugins!Authorized(c) PROVE Threads'
  <2>1. /\ UNCHANGED <<health, descriptor, restarts, worker, started, running, said>>
        /\ \/ UNCHANGED asked
           \/ through[c] \in running /\ asked' = asked \union {<<through[c], c>>}
    BY <1>10 DEF Plugins!Authorized
  <2>2. asked' \subseteq running \X PluginCall
    BY <1>0, <2>1 DEF ThreadTypes
  <2> QED
    BY <2>1, <2>2, <1>u
<1>11. ASSUME NEW w \in Plugins!Worker, Plugins!WorkerLoads(w) PROVE Threads'
  <2>1. PICK what \in {"loaded", "load-failed"} : Plugins!Says(w, [what |-> what])
    BY <1>11 DEF Plugins!WorkerLoads
  <2>2. w \in running /\ UNCHANGED <<health, descriptor, restarts, worker, started, running, asked>>
    BY <1>11 DEF Plugins!WorkerLoads
  <2>3. [what |-> what] \in Word /\ [what |-> what].what \notin {"error", "exit"}
    BY DEF Word
  <2>4. asked' \subseteq running' \X PluginCall
    BY <1>0, <2>2 DEF ThreadTypes
  <2> QED
    BY <2>1, <2>2, <2>3, <2>4, SaysKeeps
<1>12. ASSUME NEW w \in Plugins!Worker, Plugins!WorkerAnswers(w) PROVE Threads'
  <2>1. PICK a \in asked, what \in {"result", "call-failed"} :
          Plugins!Says(w, [what |-> what, call |-> a[2]]) /\ asked' = asked \ {a}
    BY <1>12 DEF Plugins!WorkerAnswers
  <2>2. w \in running /\ UNCHANGED <<health, descriptor, restarts, worker, started, running>>
    BY <1>12 DEF Plugins!WorkerAnswers
  <2>3. a[2] \in PluginCall
    BY <1>0 DEF ThreadTypes
  <2>4. /\ [what |-> what, call |-> a[2]] \in Word
        /\ [what |-> what, call |-> a[2]].what \notin {"error", "exit"}
    BY <2>3 DEF Word
  <2>5. asked' \subseteq running' \X PluginCall
    BY <1>0, <2>1, <2>2 DEF ThreadTypes
  <2> QED
    BY <2>1, <2>2, <2>4, <2>5, SaysKeeps
<1>13. ASSUME NEW w \in Plugins!Worker, Plugins!WorkerDies(w) PROVE Threads'
  <2>1. PICK what \in {"error", "exit"} : Plugins!Says(w, [what |-> what])
    BY <1>13 DEF Plugins!WorkerDies
  <2>2. /\ w \in running /\ running' = running \ {w} /\ Plugins!Died < MaxDeaths
        /\ asked' = {a \in asked : a[1] # w}
        /\ UNCHANGED <<health, descriptor, restarts, worker, started>>
    BY <1>13 DEF Plugins!WorkerDies
  <2>a. started \in 1..(MaxDeaths + 1) /\ running \subseteq {started}
    BY <1>0 DEF ThreadTypes, OneThread, Plugins!Worker
  <2>b. running = {started}
    BY <2>2, <2>a
  <2>3. running = {started} /\ started \in Nat
    BY <1>0, <2>a, <2>b
  <2>4. Cardinality(running) = 1
    BY <2>3, FS_Singleton
  <2>5. running' = {} /\ started <= MaxDeaths
    BY <1>0, <2>2, <2>3, <2>4 DEF Plugins!Died, Plugins!Cardinality, Cardinality
  <2>6. asked' \subseteq running' \X PluginCall
    BY <1>0, <2>2 DEF ThreadTypes
  <2>7. [what |-> what] \in Word
    BY DEF Word
  <2> QED
    BY <2>1, <2>2, <2>5, <2>6, <2>7, SaysKeeps
<1>14. CASE Plugins!Dispose
  <2>1. /\ health # "disposed" /\ health' = "disposed" /\ worker' = 0
        /\ IF health = "ready" THEN UNCHANGED <<running, said, asked>> ELSE Plugins!Terminate(worker)
        /\ UNCHANGED <<descriptor, restarts, started>>
    BY <1>14 DEF Plugins!Dispose
  <2>2. CASE health = "ready"
    BY <1>0, <2>1, <2>2 DEF Threads, ThreadTypes, OneThread, DeathIsLast, MayStart
  <2>3. CASE health # "ready"
    <3>1. health \in {"loading", "ready", "restarting", "unavailable"}
      BY <1>0, <2>1 DEF ThreadTypes
    <3> QED
      BY <2>1, <2>3, <3>1, TerminatesTheLast
  <2> QED
    BY <2>2, <2>3
<1>15. CASE Plugins!DisposeEnds
  <2>1. PICK w \in running : Plugins!Terminate(w)
    BY <1>15 DEF Plugins!DisposeEnds
  <2>2. health = "disposed" /\ UNCHANGED <<health, descriptor, restarts, worker, started>>
    BY <1>15 DEF Plugins!DisposeEnds
  <2>3. /\ w = started /\ running = {started} /\ started \in Plugins!Worker
        /\ said \in [Plugins!Worker -> Seq(Word)]
        /\ asked \subseteq running \X PluginCall
        /\ \A v \in Plugins!Worker \ {started} : said[v] = <<>>
    BY <1>0 DEF OneThread, ThreadTypes
  <2>4. /\ running' = {} /\ said' = [v \in Plugins!Worker |-> <<>>]
        /\ asked' = {a \in asked : a[1] # w}
    BY <2>1, <2>3 DEF Plugins!Terminate
  <2>5. asked' \subseteq running' \X PluginCall
    BY <2>3, <2>4
  <2>6. ThreadTypes'
    BY <1>0, <2>2, <2>4, <2>5 DEF ThreadTypes
  <2>7. OneThread' /\ MayStart'
    BY <1>0, <2>2, <2>4 DEF OneThread, MayStart
  <2>8. DeathIsLast'
    BY <2>2, <2>3, <2>4 DEF DeathIsLast
  <2> QED
    BY <2>6, <2>7, <2>8 DEF Threads
<1>16. CASE UNCHANGED pluginVars
  BY <1>0, <1>16, <1>u DEF pluginVars, ThreadTypes
<1> QED
  BY <1>1, <1>2, <1>3, <1>4, <1>5, <1>6, <1>7, <1>8, <1>9, <1>10, <1>11, <1>12, <1>13, <1>14,
     <1>15, <1>16 DEF Plugins!Next, Plugins!Hears, Plugins!Timers, Plugins!Calls, Plugins!Workers

(* The host is unavailable or disposed of for good, and starts no thread more. *)
LEMMA GoneStays ==
  ASSUME Plugins!Next \/ UNCHANGED pluginVars, health \in Plugins!Gone
  PROVE  health' \in Plugins!Gone /\ running' \subseteq running
<1> USE DEF Plugins!host, Plugins!calls, Plugins!Gone
<1>1. CASE Plugins!Fail
  BY <1>1 DEF Plugins!Fail
<1>2. CASE Plugins!Next /\ ~Plugins!Fail
  <2>1. CASE Plugins!BackoffEnds
    BY <2>1 DEF Plugins!BackoffEnds
  <2>2. CASE Plugins!Dispose \/ Plugins!DisposeEnds
    BY <2>2 DEF Plugins!Dispose, Plugins!DisposeEnds, Plugins!Terminate
  <2>3. ASSUME NEW w \in Plugins!Worker, Plugins!Hears(w)
        PROVE  health' \in Plugins!Gone /\ running' \subseteq running
    BY <2>3, <1>2 DEF Plugins!Hears, Plugins!HearsLoaded, Plugins!HearsLoadFailed,
       Plugins!HearsResult, Plugins!HearsCallFailed, Plugins!HearsDeath,
       Plugins!FailedBefore, Plugins!Heard
  <2>4. CASE Plugins!Timers
    BY <1>2, <2>1, <2>4 DEF Plugins!Timers, Plugins!LoadTimesOut, Plugins!CallTimesOut
  <2>5. CASE Plugins!Calls
    BY <2>5 DEF Plugins!Calls, Plugins!Invoke, Plugins!Authorized
  <2>6. CASE Plugins!Workers
    BY <2>6 DEF Plugins!Workers, Plugins!WorkerLoads, Plugins!WorkerAnswers, Plugins!WorkerDies
  <2> QED
    BY <1>2, <2>1, <2>2, <2>3, <2>4, <2>5, <2>6 DEF Plugins!Next
<1>3. CASE UNCHANGED pluginVars
  BY <1>3 DEF pluginVars
<1> QED
  BY <1>1, <1>2, <1>3

(* What a call may come to, and the worker it set out for; its timer runs only *)
(* while it is pending.                                                        *)
LEMMA PluginCallsKeep ==
  ASSUME Plugins!PluginBounds, Threads, CallTypes, Plugins!Next \/ UNCHANGED pluginVars
  PROVE  CallTypes'
<1> USE DEF Plugins!host, Plugins!calls, Plugins!Pending
<1>0. /\ invoked \in [PluginCall -> {"none", "authorizing", "pending", "resolved", "rejected", "refused"}]
      /\ through \in [PluginCall -> 0..started]
      /\ timers \subseteq {c \in PluginCall : invoked[c] = "pending"}
      /\ started \in Nat /\ MaxDeaths \in Nat
  <2>1. started \in 1..(MaxDeaths + 1) /\ MaxDeaths \in Nat
    BY DEF Threads, ThreadTypes, Plugins!Worker, Plugins!PluginBounds
  <2> QED
    BY <2>1 DEF CallTypes
<1>u. ASSUME UNCHANGED <<invoked, through, started>>, timers' \subseteq timers PROVE CallTypes'
  BY <1>0, <1>u DEF CallTypes
<1>r. ASSUME Plugins!RejectPending, UNCHANGED <<through, started>> PROVE CallTypes'
  <2>1. invoked' \in [PluginCall -> {"none", "authorizing", "pending", "resolved", "rejected", "refused"}]
    BY <1>0, <1>r DEF Plugins!RejectPending
  <2> QED
    BY <1>0, <1>r, <2>1 DEF CallTypes, Plugins!RejectPending
<1>f. ASSUME Plugins!Fail PROVE CallTypes'
  BY <1>f, <1>r DEF Plugins!Fail
<1>1. ASSUME NEW w \in Plugins!Worker, Plugins!Hears(w) PROVE CallTypes'
  <2>1. CASE Plugins!HearsResult(w) /\ ~UNCHANGED <<invoked, through, timers>>
    <3>1. PICK c \in PluginCall : /\ invoked' = [invoked EXCEPT ![c] = "resolved"]
                                  /\ timers' = timers \ {c} /\ UNCHANGED <<through, started>>
      BY <2>1 DEF Plugins!HearsResult
    <3>2. \A d \in PluginCall \ {c} : invoked'[d] = invoked[d]
      BY <1>0, <3>1
    <3>3. invoked' \in [PluginCall -> {"none", "authorizing", "pending", "resolved", "rejected", "refused"}]
      BY <1>0, <3>1
    <3> QED
      BY <1>0, <3>1, <3>2, <3>3 DEF CallTypes
  <2>2. CASE UNCHANGED <<invoked, through, timers, started>>
    BY <2>2, <1>u
  <2>3. CASE Plugins!RejectPending /\ UNCHANGED <<through, started>>
    BY <2>3, <1>r
  <2> QED
    BY <1>1, <1>f, <2>1, <2>2, <2>3 DEF Plugins!Hears, Plugins!HearsLoaded,
       Plugins!HearsLoadFailed, Plugins!HearsResult, Plugins!HearsCallFailed,
       Plugins!HearsDeath, Plugins!FailedBefore
<1>2. CASE Plugins!BackoffEnds
  <2>1. started' = started + 1 /\ UNCHANGED <<invoked, through, timers>>
    BY <1>2 DEF Plugins!BackoffEnds
  <2>2. 0..started \subseteq 0..started'
    BY <1>0, <2>1
  <2>3. through' \in [PluginCall -> 0..started']
    BY <1>0, <2>1, <2>2
  <2> QED
    BY <1>0, <2>1, <2>3 DEF CallTypes
<1>3. CASE Plugins!LoadTimesOut \/ \E c \in PluginCall : Plugins!CallTimesOut(c)
  BY <1>3, <1>f, <1>u DEF Plugins!LoadTimesOut, Plugins!CallTimesOut
<1>4. ASSUME NEW c \in PluginCall, Plugins!Invoke(c) PROVE CallTypes'
  <2>1. /\ invoked[c] = "none" /\ UNCHANGED <<timers, started>>
        /\ \/ health = "ready" /\ through' = [through EXCEPT ![c] = worker]
           \/ UNCHANGED through
    BY <1>4 DEF Plugins!Invoke
  <2>2. PICK to \in {"authorizing", "refused"} : invoked' = [invoked EXCEPT ![c] = to]
    BY <1>4 DEF Plugins!Invoke
  <2>3. health = "ready" => worker = started
    BY DEF Threads, OneThread
  <2>4. through' \in [PluginCall -> 0..started']
    BY <1>0, <2>1, <2>3
  <2>5. invoked' \in [PluginCall -> {"none", "authorizing", "pending", "resolved", "rejected", "refused"}]
    BY <1>0, <2>2
  <2>6. \A d \in PluginCall \ {c} : invoked'[d] = invoked[d]
    BY <1>0, <2>2
  <2> QED
    BY <1>0, <2>1, <2>4, <2>5, <2>6 DEF CallTypes
<1>5. ASSUME NEW c \in PluginCall, Plugins!Authorized(c) PROVE CallTypes'
  <2>1. /\ invoked[c] = "authorizing" /\ UNCHANGED <<through, started>>
        /\ \/ invoked' = [invoked EXCEPT ![c] = "pending"] /\ timers' = timers \union {c}
           \/ invoked' = [invoked EXCEPT ![c] = "refused"] /\ UNCHANGED timers
    BY <1>5 DEF Plugins!Authorized
  <2>2. invoked' \in [PluginCall -> {"none", "authorizing", "pending", "resolved", "rejected", "refused"}]
    BY <1>0, <2>1
  <2>3. /\ \A d \in PluginCall \ {c} : invoked'[d] = invoked[d]
        /\ c \in timers' => invoked'[c] = "pending"
    BY <1>0, <2>1
  <2> QED
    BY <1>0, <2>1, <2>2, <2>3 DEF CallTypes
<1>6. CASE Plugins!Workers \/ Plugins!DisposeEnds \/ UNCHANGED pluginVars
  BY <1>6, <1>u DEF Plugins!Workers, Plugins!WorkerLoads, Plugins!WorkerAnswers,
     Plugins!WorkerDies, Plugins!DisposeEnds, pluginVars
<1>7. CASE Plugins!Dispose
  BY <1>7, <1>r DEF Plugins!Dispose
<1> QED
  BY <1>1, <1>2, <1>3, <1>4, <1>5, <1>6, <1>7 DEF Plugins!Next, Plugins!Timers, Plugins!Calls

(* One thread at first, that is yet to load. *)
LEMMA PluginsAtFirst ==
  ASSUME Plugins!PluginBounds, Plugins!Init
  PROVE  Threads /\ CallTypes
<1>0. /\ health = "loading" /\ descriptor = FALSE /\ restarts = 0
      /\ worker = 1 /\ started = 1 /\ running = {1} /\ timers = {} /\ asked = {}
      /\ said = [w \in Plugins!Worker |-> <<>>]
      /\ invoked = [c \in PluginCall |-> "none"] /\ through = [c \in PluginCall |-> 0]
  BY DEF Plugins!Init
<1>1. 1 \in Plugins!Worker /\ 0 \in 0..MaxRestarts
  BY DEF Plugins!Worker, Plugins!PluginBounds
<1>2. said[1] = <<>>
  BY <1>0, <1>1
<1>3. ThreadTypes
  <2>1. said \in [Plugins!Worker -> Seq(Word)]
    BY <1>0
  <2> QED
    BY <1>0, <1>1, <2>1 DEF ThreadTypes
<1>4. OneThread /\ MayStart
  BY <1>0 DEF OneThread, MayStart
<1>5. DeathIsLast
  BY <1>0, <1>2 DEF DeathIsLast
<1>6. CallTypes
  BY <1>0 DEF CallTypes
<1> QED
  BY <1>3, <1>4, <1>5, <1>6 DEF Threads

(* Typed threads and calls are a typed host. *)
LEMMA PluginsTyped == Threads /\ CallTypes => Plugins!TypeOK
<1> SUFFICES ASSUME Threads, CallTypes PROVE Plugins!TypeOK
  OBVIOUS
<1>1. started \in Plugins!Worker /\ started \in Nat \ {0} /\ running \subseteq {started}
  BY DEF Threads, ThreadTypes, OneThread, Plugins!Worker
<1>2. worker \in 0..started /\ running \subseteq 1..started
  BY <1>1 DEF Threads, OneThread
<1> QED
  BY <1>1, <1>2 DEF Threads, ThreadTypes, CallTypes, Plugins!TypeOK

-----------------------------------------------------------------------------
(* What budgets count. *)

(* A pump that stops a session does so for a budget. *)
StopsForABudget ==
  \A s \in Spender : pump[s] \in {"stopping", "telling"} => tripped[s] \in Spending!Budget

BudgetTypes == Spending!TypeOK /\ StopsForABudget

(* A charge keeps the rows typed. *)
LEMMA ChargesTyped ==
  ASSUME NEW s \in Spender, NEW total \in 0..MaxTurns, row' = Spending!Attribute(s, total),
         row \in [Spender \X Spender -> 0..MaxTurns]
  PROVE  row' \in [Spender \X Spender -> 0..MaxTurns]
BY DEF Spending!Attribute

(* No session has spent anything at first. *)
LEMMA BudgetTypesAtFirst ==
  ASSUME Spending!BudgetBounds, Spending!Init
  PROVE  BudgetTypes
<1>1. MaxTurns \in Nat /\ MaxCrash \in Nat
  BY DEF Spending!BudgetBounds
<1>2. /\ runtimeLife = [s \in Spender |-> "unborn"] /\ taken = [s \in Spender |-> 0]
      /\ read = [s \in Spender |-> 0] /\ late = [s \in Spender |-> 0]
      /\ end = [s \in Spender |-> "none"] /\ pump = [s \in Spender |-> "none"]
      /\ tripped = [s \in Spender |-> {}] /\ row = [e \in Spender \X Spender |-> 0]
      /\ limit \in [Ceiling -> Limits \union {NoLimit}]
      /\ stops = {} /\ told = {} /\ crashes = 0
  BY DEF Spending!Init
<1>3. 0 \in 0..MaxTurns /\ 0 \in 0..MaxCrash
  BY <1>1
<1>4. /\ taken \in [Spender -> 0..MaxTurns] /\ read \in [Spender -> 0..MaxTurns]
      /\ late \in [Spender -> 0..MaxTurns]
      /\ \A s \in Spender : late[s] <= read[s] /\ read[s] <= taken[s]
  BY <1>2, <1>3
<1>5. row \in [Spender \X Spender -> 0..MaxTurns]
  BY <1>2, <1>3
<1>6. tripped \in [Spender -> Spending!Budget \union {{}}]
  BY <1>2
<1>7. StopsForABudget
  BY <1>2 DEF StopsForABudget
<1>8. Spending!TypeOK
  BY <1>2, <1>3, <1>4, <1>5, <1>6 DEF Spending!TypeOK
<1> QED
  BY <1>7, <1>8 DEF BudgetTypes

(* Every step keeps the turns in their order, and the rest typed. *)
LEMMA BudgetTypesKeep ==
  ASSUME Spending!Lineage, Spending!BudgetBounds, BudgetTypes,
         Spending!Next \/ UNCHANGED budgetVars
  PROVE  BudgetTypes'
<1> DEFINE Life == {"unborn", "starting", "running", "gone"}
           End == {"none", "out-of-budget", "by-itself", "stopped", "interrupted"}
           Pump == {"none", "reading", "stopping", "telling", "over", "broken", "lost"}
           Told == Spender \X Spending!Budget \X {"near-cap", "stopped"}
<1>0. /\ runtimeLife \in [Spender -> Life]
      /\ taken \in [Spender -> 0..MaxTurns] /\ read \in [Spender -> 0..MaxTurns]
      /\ late \in [Spender -> 0..MaxTurns]
      /\ \A s \in Spender : late[s] <= read[s] /\ read[s] <= taken[s]
      /\ end \in [Spender -> End] /\ pump \in [Spender -> Pump]
      /\ tripped \in [Spender -> Spending!Budget \union {{}}]
      /\ stops \subseteq Spender
      /\ row \in [Spender \X Spender -> 0..MaxTurns]
      /\ limit \in [Ceiling -> Limits \union {NoLimit}]
      /\ told \subseteq Told /\ crashes \in 0..MaxCrash
      /\ StopsForABudget /\ Spending!TypeOK
      /\ MaxTurns \in Nat /\ MaxCrash \in Nat
      /\ \A s \in Spender : Chain[s] \subseteq Spender
  BY DEF BudgetTypes, Spending!TypeOK, Spending!BudgetBounds, Spending!Lineage
<1> USE DEF Spending!runtime, Spending!ends
<1>t. ASSUME NEW s \in Spender, read' = [read EXCEPT ![s] = @ + 1], read[s] < taken[s]
      PROVE  /\ read' \in [Spender -> 0..MaxTurns] /\ read'[s] \in 0..MaxTurns
             /\ read'[s] = read[s] + 1
             /\ \A t \in Spender \ {s} : read'[t] = read[t]
  <2>1. read[s] \in 0..MaxTurns /\ taken[s] \in 0..MaxTurns
    BY <1>0
  <2>2. read[s] + 1 \in 0..MaxTurns
    BY <1>0, <1>t, <2>1
  <2> QED
    BY <1>0, <1>t, <2>2
<1>1. ASSUME NEW s \in Spender, Spending!Start(s) PROVE BudgetTypes'
  <2>1. /\ runtimeLife' = [runtimeLife EXCEPT ![s] = "starting"]
        /\ UNCHANGED <<taken, read, late, end, pump, tripped, stops, told, row, limit, crashes>>
    BY <1>1 DEF Spending!Start
  <2>2. runtimeLife' \in [Spender -> Life]
    BY <1>0, <2>1
  <2> QED
    BY <1>0, <2>1, <2>2 DEF BudgetTypes, Spending!TypeOK, StopsForABudget
<1>2. ASSUME NEW s \in Spender, Spending!Attach(s) PROVE BudgetTypes'
  <2>1. /\ runtimeLife' = [runtimeLife EXCEPT ![s] = "running"]
        /\ pump' = [pump EXCEPT ![s] = "reading"]
        /\ UNCHANGED <<taken, read, late, end, tripped, stops, told, row, limit, crashes>>
    BY <1>2 DEF Spending!Attach
  <2>2. runtimeLife' \in [Spender -> Life] /\ pump' \in [Spender -> Pump]
    BY <1>0, <2>1
  <2>3. StopsForABudget'
    BY <1>0, <2>1 DEF StopsForABudget
  <2> QED
    BY <1>0, <2>1, <2>2, <2>3 DEF BudgetTypes, Spending!TypeOK
<1>3. ASSUME NEW s \in Spender, Spending!TakeTurn(s) PROVE BudgetTypes'
  <2>1. /\ taken[s] < MaxTurns /\ taken' = [taken EXCEPT ![s] = @ + 1]
        /\ UNCHANGED <<runtimeLife, read, late, end, pump, tripped, stops, told, row, limit, crashes>>
    BY <1>3 DEF Spending!TakeTurn
  <2>2. taken[s] \in 0..MaxTurns /\ read[s] \in 0..MaxTurns /\ late[s] \in 0..MaxTurns
    BY <1>0
  <2>3. taken[s] + 1 \in 0..MaxTurns /\ read[s] <= taken[s] + 1
    BY <1>0, <2>1, <2>2
  <2>4. /\ taken' \in [Spender -> 0..MaxTurns]
        /\ \A t \in Spender : late[t] <= read[t] /\ read[t] <= taken'[t]
    BY <1>0, <2>1, <2>3
  <2> QED
    BY <1>0, <2>1, <2>4 DEF BudgetTypes, Spending!TypeOK, StopsForABudget
<1>4. ASSUME NEW s \in Spender, Spending!RuntimeEnds(s) PROVE BudgetTypes'
  <2>1. /\ runtimeLife' = [runtimeLife EXCEPT ![s] = "gone"]
        /\ UNCHANGED <<taken, read, late, end, pump, tripped, stops, told, row, limit, crashes>>
    BY <1>4 DEF Spending!RuntimeEnds
  <2>2. runtimeLife' \in [Spender -> Life]
    BY <1>0, <2>1
  <2> QED
    BY <1>0, <2>1, <2>2 DEF BudgetTypes, Spending!TypeOK, StopsForABudget
<1>5. ASSUME NEW s \in Spender, Spending!EnforceBudget(s) PROVE BudgetTypes'
  <2>1. /\ read[s] < taken[s] /\ read' = [read EXCEPT ![s] = @ + 1]
        /\ UNCHANGED <<runtimeLife, taken, limit, crashes, stops>>
    BY <1>5 DEF Spending!EnforceBudget, Spending!ReadTurn
  <2>2. /\ read' \in [Spender -> 0..MaxTurns] /\ read'[s] \in 0..MaxTurns
        /\ read'[s] = read[s] + 1 /\ \A t \in Spender \ {s} : read'[t] = read[t]
    BY <1>t, <2>1
  <2>3. read[s] \in 0..MaxTurns /\ late[s] \in 0..MaxTurns /\ taken[s] \in 0..MaxTurns
    BY <1>0
  <2>4. late' \in [Spender -> 0..MaxTurns] /\ \A t \in Spender : late'[t] <= read'[t]
    <3>1. CASE late' = [late EXCEPT ![s] = @ + 1]
      <4>1. late[s] + 1 \in 0..MaxTurns /\ late[s] + 1 <= read'[s]
        BY <1>0, <2>1, <2>2, <2>3
      <4> QED
        BY <1>0, <2>2, <3>1, <4>1
    <3>2. CASE UNCHANGED late
      <4>1. late[s] <= read'[s]
        BY <1>0, <2>2, <2>3
      <4> QED
        BY <1>0, <2>2, <3>2, <4>1
    <3> QED
      BY <1>5, <3>1, <3>2 DEF Spending!EnforceBudget
  <2>5. \A t \in Spender : read'[t] <= taken'[t]
    <3>1. read'[s] <= taken[s]
      BY <2>1, <2>2, <2>3
    <3> QED
      BY <1>0, <2>1, <2>2, <3>1
  <2>6. row' \in [Spender \X Spender -> 0..MaxTurns]
    BY <1>0, <1>5, <2>2, ChargesTyped DEF Spending!EnforceBudget
  <2>7. \/ UNCHANGED <<end, pump, tripped, told>>
        \/ \E b \in Spending!Budget :
             /\ told' = told \union {<<s, b, "near-cap">>} /\ UNCHANGED <<end, pump, tripped>>
        \/ \E b \in Spending!Budget :
             /\ end' = [end EXCEPT ![s] = "out-of-budget"]
             /\ pump' = [pump EXCEPT ![s] = "stopping"]
             /\ tripped' = [tripped EXCEPT ![s] = b] /\ UNCHANGED told
    <3>1. Spending!Tightest(row', s) \subseteq Spending!Budget
      BY DEF Spending!Tightest, Spending!Bindings, Spending!Binding
    <3> QED
      BY <1>5, <3>1 DEF Spending!EnforceBudget
  <2>8. CASE UNCHANGED <<end, pump, tripped>> /\ told' \subseteq Told
    BY <1>0, <2>1, <2>2, <2>4, <2>5, <2>6, <2>8 DEF BudgetTypes, Spending!TypeOK, StopsForABudget
  <2>9. ASSUME NEW b \in Spending!Budget, end' = [end EXCEPT ![s] = "out-of-budget"],
               pump' = [pump EXCEPT ![s] = "stopping"],
               tripped' = [tripped EXCEPT ![s] = b], UNCHANGED told
        PROVE  BudgetTypes'
    <3>1. /\ end' \in [Spender -> End] /\ pump' \in [Spender -> Pump]
          /\ tripped' \in [Spender -> Spending!Budget \union {{}}]
      BY <1>0, <2>9
    <3>2. StopsForABudget'
      BY <1>0, <2>9 DEF StopsForABudget
    <3> QED
      BY <1>0, <2>1, <2>2, <2>4, <2>5, <2>6, <2>9, <3>1, <3>2 DEF BudgetTypes, Spending!TypeOK
  <2>10. \A b \in Spending!Budget : told \union {<<s, b, "near-cap">>} \subseteq Told
    BY <1>0
  <2> QED
    BY <1>0, <2>7, <2>8, <2>9, <2>10
<1>6. ASSUME NEW s \in Spender, NEW to \in {"telling", "broken", "over"},
             pump[s] = "stopping" \/ to = "over",
             row' = Spending!Attribute(s, read[s]), pump' = [pump EXCEPT ![s] = to],
             end' \in [Spender -> End],
             UNCHANGED <<runtimeLife, taken, read, late, tripped, stops, told, limit, crashes>>
      PROVE  BudgetTypes'
  <2>1. read[s] \in 0..MaxTurns
    BY <1>0
  <2>2. row' \in [Spender \X Spender -> 0..MaxTurns]
    BY <1>0, <1>6, <2>1, ChargesTyped
  <2>3. pump' \in [Spender -> Pump]
    BY <1>0, <1>6
  <2>4. StopsForABudget'
    BY <1>0, <1>6 DEF StopsForABudget
  <2> QED
    BY <1>0, <1>6, <2>2, <2>3, <2>4 DEF BudgetTypes, Spending!TypeOK
<1>7. ASSUME NEW s \in Spender, Spending!StopAnswered(s) \/ Spending!StopFails(s)
      PROVE  BudgetTypes'
  BY <1>0, <1>6, <1>7 DEF Spending!StopAnswered, Spending!StopFails
<1>8. ASSUME NEW s \in Spender, Spending!StreamEnds(s) PROVE BudgetTypes'
  <2>1. end' \in [Spender -> End]
    BY <1>0, <1>8 DEF Spending!StreamEnds, Spending!EndAs
  <2> QED
    BY <1>0, <1>6, <1>8, <2>1 DEF Spending!StreamEnds
<1>9. ASSUME NEW s \in Spender, Spending!TellChain(s) PROVE BudgetTypes'
  <2>1. /\ pump[s] = "telling"
        /\ UNCHANGED <<runtimeLife, taken, read, late, end, tripped, stops, row, limit, crashes>>
        /\ \/ pump' = [pump EXCEPT ![s] = "reading"] /\ UNCHANGED told
           \/ /\ \E a \in Chain[s] : told' = told \union {<<a, tripped[s], "stopped">>}
              /\ UNCHANGED pump
    BY <1>9 DEF Spending!TellChain
  <2>2. tripped[s] \in Spending!Budget
    BY <1>0, <2>1 DEF StopsForABudget
  <2>3. told' \subseteq Told
    BY <1>0, <2>1, <2>2
  <2>4. pump' \in [Spender -> Pump]
    BY <1>0, <2>1
  <2>5. StopsForABudget'
    BY <1>0, <2>1 DEF StopsForABudget
  <2> QED
    BY <1>0, <2>1, <2>3, <2>4, <2>5 DEF BudgetTypes, Spending!TypeOK
<1>10. ASSUME NEW s \in Spender, Spending!Stop(s) PROVE BudgetTypes'
  <2>1. /\ end' = [end EXCEPT ![s] = IF @ = "none" THEN "stopped" ELSE @]
        /\ stops' = stops \union {s}
        /\ UNCHANGED <<runtimeLife, taken, read, late, pump, tripped, told, row, limit, crashes>>
    BY <1>10 DEF Spending!Stop, Spending!EndAs
  <2>2. end' \in [Spender -> End] /\ stops' \subseteq Spender
    BY <1>0, <2>1
  <2> QED
    BY <1>0, <2>1, <2>2 DEF BudgetTypes, Spending!TypeOK, StopsForABudget
<1>11. ASSUME NEW s \in Spender, Spending!StopReturns(s) PROVE BudgetTypes'
  <2>1. /\ stops' = stops \ {s} /\ row' = Spending!Attribute(s, read[s])
        /\ UNCHANGED <<runtimeLife, taken, read, late, end, pump, tripped, told, limit, crashes>>
    BY <1>11 DEF Spending!StopReturns
  <2>2. read[s] \in 0..MaxTurns /\ stops' \subseteq Spender
    BY <1>0, <2>1
  <2>3. row' \in [Spender \X Spender -> 0..MaxTurns]
    BY <1>0, <2>1, <2>2, ChargesTyped
  <2> QED
    BY <1>0, <2>1, <2>2, <2>3 DEF BudgetTypes, Spending!TypeOK, StopsForABudget
<1>12. ASSUME NEW b \in Ceiling, Spending!SetBudget(b) PROVE BudgetTypes'
  <2>1. /\ UNCHANGED <<runtimeLife, taken, read, late, end, pump, tripped, stops, told, row, crashes>>
        /\ \E amount \in Limits \union {NoLimit} : limit' = [limit EXCEPT ![b] = amount]
    BY <1>12 DEF Spending!SetBudget
  <2>2. limit' \in [Ceiling -> Limits \union {NoLimit}]
    BY <1>0, <2>1
  <2> QED
    BY <1>0, <2>1, <2>2 DEF BudgetTypes, Spending!TypeOK, StopsForABudget
<1>13. CASE Spending!Crash
  <2> DEFINE inFlight == {s \in Spender : pump[s] = "reading" /\ end[s] = "none"}
  <2>1. PICK torn \in SUBSET Spender :
          /\ \A s \in torn : pump[s] = "reading" /\ read[s] < taken[s]
          /\ read' = [s \in Spender |-> IF s \in torn THEN read[s] + 1 ELSE read[s]]
          /\ late' = [s \in Spender |->
                        IF s \in torn /\ end[s] # "none" THEN late[s] + 1 ELSE late[s]]
    BY <1>13 DEF Spending!Crash
  <2>2. /\ crashes < MaxCrash /\ crashes' = crashes + 1 /\ taken' = read' /\ stops' = {}
        /\ runtimeLife' = [s \in Spender |-> IF runtimeLife[s] = "unborn" THEN "unborn" ELSE "gone"]
        /\ UNCHANGED <<tripped, told, limit>>
    BY <1>13 DEF Spending!Crash
  <2>3. /\ end' = [s \in Spender |-> IF s \in inFlight THEN "interrupted" ELSE end[s]]
        /\ row' = [e \in Spender \X Spender |->
                     IF e[2] \in inFlight /\ e[1] \in Chain[e[2]] THEN read'[e[2]] ELSE row[e]]
        /\ pump' = [s \in Spender |->
                      IF s \in inFlight THEN "over"
                      ELSE IF pump[s] \in {"reading", "stopping", "telling"} THEN "lost"
                           ELSE pump[s]]
    BY <1>13 DEF Spending!Crash
  <2> HIDE DEF inFlight
  <2>4. ASSUME NEW s \in Spender
        PROVE  /\ read'[s] \in 0..MaxTurns /\ late'[s] \in 0..MaxTurns /\ late'[s] <= read'[s]
    <3>1. /\ read[s] \in 0..MaxTurns /\ late[s] \in 0..MaxTurns /\ taken[s] \in 0..MaxTurns
          /\ late[s] <= read[s] /\ read[s] <= taken[s] /\ MaxTurns \in Nat
      BY <1>0
    <3>2. CASE s \in torn
      <4>1. read[s] < taken[s] /\ read'[s] = read[s] + 1 /\ late'[s] \in {late[s], late[s] + 1}
        BY <2>1, <3>2
      <4> QED
        BY <3>1, <4>1
    <3>3. CASE s \notin torn
      BY <2>1, <3>1, <3>3
    <3> QED
      BY <3>2, <3>3
  <2>5. read' \in [Spender -> 0..MaxTurns] /\ late' \in [Spender -> 0..MaxTurns]
    BY <2>1, <2>4
  <2>6. /\ taken' \in [Spender -> 0..MaxTurns]
        /\ \A s \in Spender : late'[s] <= read'[s] /\ read'[s] <= taken'[s]
    <3>1. \A s \in Spender : read'[s] \in Int
      BY <2>4
    <3> QED
      BY <2>2, <2>4, <2>5, <3>1
  <2>7. /\ runtimeLife' \in [Spender -> Life] /\ end' \in [Spender -> End]
        /\ pump' \in [Spender -> Pump]
    BY <1>0, <2>2, <2>3
  <2>8. row' \in [Spender \X Spender -> 0..MaxTurns]
    <3>1. \A e \in Spender \X Spender : e[2] \in Spender /\ row[e] \in 0..MaxTurns
      BY <1>0
    <3> QED
      BY <2>3, <2>4, <3>1
  <2>9. StopsForABudget'
    BY <2>2, <2>3 DEF StopsForABudget
  <2>10. crashes' \in 0..MaxCrash /\ stops' \subseteq Spender
    BY <1>0, <2>2
  <2> QED
    BY <1>0, <2>2, <2>5, <2>6, <2>7, <2>8, <2>9, <2>10 DEF BudgetTypes, Spending!TypeOK
<1>14. CASE UNCHANGED budgetVars
  BY <1>0, <1>14 DEF budgetVars, BudgetTypes, Spending!TypeOK, StopsForABudget
<1> QED
  BY <1>1, <1>2, <1>3, <1>4, <1>5, <1>7, <1>8, <1>9, <1>10, <1>11, <1>12, <1>13, <1>14
     DEF Spending!Next, Spending!Pump

-----------------------------------------------------------------------------
(* Every session's spending is charged up its chain at its end, and whoever *)
(* is above one that ran out of money was told.                             *)
THEOREM TheAccountsSettle == Spec => []AccountsSettle
<1>1. Init => Accounts
  BY AccountsAtFirst DEF Init
<1>2. Accounts /\ [Next]_vars => Accounts'
  BY ServiceConstants, BudgetsTheirStep, AccountsKeep DEF ServiceConstants
<1>3. Accounts => AccountsSettle
  BY DEF Accounts, InOrder, AccountsSettle, Spending!AccountsSettle
<1> QED
  BY <1>1, <1>2, <1>3, PTL DEF Spec

-----------------------------------------------------------------------------
(* Each service, as its own module specifies it, and what is proved of it. *)

(* What the constants of destruction are assumed to be. *)
LEMMA GesturesGiven == GesturesP!Given
BY ServiceConstants DEF ServiceConstants, GesturesP!Given,
   Gestures!HostedAreRecords, GesturesP!HostedAreRecords, Gestures!NotAskers,
   GesturesP!NotAskers, Gestures!Grants, GesturesP!Grants, Gestures!Raisable, GesturesP!Raisable

(* The destructive gestures, as their own module specifies them. *)
LEMMA GesturesRun == Spec => GesturesP!Spec
<1>1. Init => GesturesP!Init
  BY GesturesSame DEF Init
<1>2. [Next]_vars => [GesturesP!Next]_(GesturesP!vars)
  BY GesturesTheirStep, GesturesSame DEF gestureVars, GesturesP!vars
<1> QED
  BY <1>1, <1>2, PTL DEF Spec, GesturesP!Spec

(* Nothing is deleted in a session's name that nobody agreed to. *)
THEOREM NobodyDestroysUnasked == Spec => []NothingDestroyedUnasked
<1>1. GesturesP!Spec => []GesturesP!NothingDestroyedUnasked
  BY GesturesGiven, GesturesP!NobodyDestroysUnasked
<1>2. GesturesP!NothingDestroyedUnasked => NothingDestroyedUnasked
  BY GesturesSame DEF NothingDestroyedUnasked
<1> QED
  BY GesturesRun, <1>1, <1>2, PTL

(* A server started by hand is no shell's. *)
LEMMA ShellsGiven == ShellsP!Distinct
BY ServiceConstants DEF ServiceConstants, Shells!Distinct, ShellsP!Distinct

(* The shells, as their own module specifies them. *)
LEMMA ShellsRun == Spec => ShellsP!Spec
<1>1. Init => ShellsP!Init
  BY ShellsSame DEF Init
<1>2. [Next]_vars => [ShellsP!Next]_(ShellsP!vars)
  BY ShellsTheirStep, ShellsSame DEF shellVars, ShellsP!vars
<1> QED
  BY <1>1, <1>2, PTL DEF Spec, ShellsP!Spec

(* No shell that is gone leaves its server running. *)
THEOREM ShellsLeaveNothing == Spec => []NothingLeftBehind
<1>1. ShellsP!Spec => []ShellsP!NothingLeftBehind
  BY ShellsGiven, ShellsP!ShellsLeaveNothing
<1>2. ShellsP!NothingLeftBehind => NothingLeftBehind
  BY ShellsSame DEF NothingLeftBehind
<1> QED
  BY ShellsRun, <1>1, <1>2, PTL

(* The broadcasts, as their own module specifies them. *)
LEMMA SentRun == Spec => SentP!Spec
<1>1. Init => SentP!Init
  BY SentSame DEF Init
<1>2. [Next]_vars => [SentP!Next]_(SentP!vars)
  BY SentTheirStep, SentSame
     DEF sentVars, SentP!vars, SentP!gesture, SentP!process, SentP!record
<1> QED
  BY <1>1, <1>2, PTL DEF Spec, SentP!Spec

(* What is sent costs a recipient one turn at most. *)
THEOREM SentIsOneTurn == Spec => []OneTurnEach
<1>1. SentP!Spec => []SentP!OneTurnEach
  BY SentP!SentIsOneTurn
<1>2. SentP!OneTurnEach => OneTurnEach
  BY SentSame DEF OneTurnEach
<1> QED
  BY SentRun, <1>1, <1>2, PTL

(* What the constants of the requests are assumed to be. *)
LEMMA CallsGiven == CallsP!Given
BY ServiceConstants DEF ServiceConstants, CallsP!Given, Calls!Bounds, CallsP!Bounds,
   Calls!KnownKinds, CallsP!KnownKinds, Calls!AllKinds, CallsP!AllKinds,
   Calls!NobodyIs, CallsP!NobodyIs

(* The requests, as their own module specifies them. *)
LEMMA CallsRun == Spec => CallsP!Spec
<1>1. Init => CallsP!Init
  BY CallsSame DEF Init
<1>2. [Next]_vars => [CallsP!Next]_(CallsP!vars)
  BY CallsTheirStep, CallsSame DEF callVars, CallsP!vars,
     CallsP!host, CallsP!pipes, CallsP!server, CallsP!rows
<1> QED
  BY <1>1, <1>2, PTL DEF Spec, CallsP!Spec

(* No tool call is left waiting for a decision that nobody can make any more. *)
THEOREM GatedCallsAreAsked == Spec => []EveryGatedCallIsAsked
<1>1. CallsP!Spec => []CallsP!EveryGatedCallIsAsked
  BY CallsGiven, CallsP!GatedCallsAreAsked
<1>2. CallsP!EveryGatedCallIsAsked => EveryGatedCallIsAsked
  BY CallsSame DEF EveryGatedCallIsAsked
<1> QED
  BY CallsRun, <1>1, <1>2, PTL

(* The requests implement GatedCalls: a call is let go once, and a tool runs *)
(* only on an allow that was sent to the process that waits.                 *)
THEOREM TheFloorIsKept == Spec => KeepsTheFloor
<1>1. CallsP!Spec => CallsP!KeepsTheFloor
  BY CallsGiven, CallsP!TheFloorIsKept
<1>2. CallsP!Floor!Init => Calls!Floor!Init
  BY CallsSame
<1>3. [CallsP!Floor!Next]_<<call, permitted>> => [Calls!Floor!Next]_<<call, permitted>>
  BY CallsSame
<1> QED
  BY CallsRun, <1>1, <1>2, <1>3, PTL
     DEF KeepsTheFloor, CallsP!KeepsTheFloor, Calls!KeepsTheFloor, CallsP!Floor!Spec, Calls!Floor!Spec

(* The safety in DownForGood. *)
GoneIsGone ==
  (health \in Plugins!Gone) => (health' \in Plugins!Gone /\ running' \subseteq running)

(* A plugin that failed or was disposed of stays so, and no backoff, late  *)
(* message or late call starts a thread of it again.                       *)
THEOREM GoneStaysGone == Spec => [][GoneIsGone]_vars
<1>1. [Next]_vars => GoneIsGone
  BY PluginsTheirStep, GoneStays DEF GoneIsGone
<1> QED
  BY <1>1, PTL DEF Spec

(* The thread that runs is the one that was started last. *)
OneThreadRuns ==
  /\ running \subseteq {started}
  /\ health \in {"restarting", "unavailable"} => running = {}

(* A plugin has one thread at most, and a host that waits to restart it, or *)
(* has given it up, has none.                                               *)
THEOREM OneThreadAtMost == Spec => []OneThreadRuns
<1>1. Init => Threads
  BY ServiceConstants, PluginsAtFirst DEF Init, ServiceConstants
<1>2. Threads /\ [Next]_vars => Threads'
  BY ServiceConstants, PluginsTheirStep, ThreadsKeep DEF ServiceConstants
<1>3. Threads => OneThreadRuns
  BY DEF Threads, OneThread, OneThreadRuns
<1> QED
  BY <1>1, <1>2, <1>3, PTL DEF Spec

(* Every variable of every service keeps to its type. *)
THEOREM TypesHold == Spec => []TypeOK
<1>1. Spec => []Calls!TypeOK
  <2>1. CallsP!Spec => []CallsP!TypeOK
    BY CallsGiven, CallsP!TypesHold
  <2>2. CallsP!TypeOK => Calls!TypeOK
    BY CallsSame
  <2> QED
    BY CallsRun, <2>1, <2>2, PTL
<1>2. Spec => []Plugins!TypeOK
  <2>1. Init => Threads /\ CallTypes
    BY ServiceConstants, PluginsAtFirst DEF Init, ServiceConstants
  <2>2. Threads /\ CallTypes /\ [Next]_vars => Threads' /\ CallTypes'
    BY ServiceConstants, PluginsTheirStep, ThreadsKeep, PluginCallsKeep DEF ServiceConstants
  <2>3. Threads /\ CallTypes => Plugins!TypeOK
    BY PluginsTyped
  <2> QED
    BY <2>1, <2>2, <2>3, PTL DEF Spec
<1>3. Spec => []Spending!TypeOK
  <2>1. Init => BudgetTypes
    BY ServiceConstants, BudgetTypesAtFirst DEF Init, ServiceConstants
  <2>2. BudgetTypes /\ [Next]_vars => BudgetTypes'
    BY ServiceConstants, BudgetsTheirStep, BudgetTypesKeep DEF ServiceConstants
  <2>3. BudgetTypes => Spending!TypeOK
    BY DEF BudgetTypes
  <2> QED
    BY <2>1, <2>2, <2>3, PTL DEF Spec
<1>4. Spec => []Sent!TypeOK
  <2>1. SentP!Named
    BY ServiceConstants DEF ServiceConstants, Sent!Named, SentP!Named,
       Sent!IsFiniteSet, SentP!IsFiniteSet
  <2>2. SentP!Spec => []SentP!TypeOK
    BY <2>1, SentP!SentIsTyped
  <2>3. SentP!TypeOK => Sent!TypeOK
    BY SentSame
  <2> QED
    BY SentRun, <2>2, <2>3, PTL
<1>5. Spec => []Gestures!TypeOK
  <2>1. GesturesP!Spec => []GesturesP!TypeOK
    BY GesturesGiven, GesturesP!GesturesAreTyped
  <2>2. GesturesP!TypeOK => Gestures!TypeOK
    BY GesturesSame
  <2> QED
    BY GesturesRun, <2>1, <2>2, PTL
<1>6. Spec => []Shells!TypeOK
  <2>1. ShellsP!Spec => []ShellsP!TypeOK
    BY ShellsGiven, ShellsP!ShellsAreTyped
  <2>2. ShellsP!TypeOK => Shells!TypeOK
    BY ShellsSame
  <2> QED
    BY ShellsRun, <2>1, <2>2, PTL
<1>7. Calls!TypeOK /\ Plugins!TypeOK /\ Spending!TypeOK
        /\ Sent!TypeOK /\ Gestures!TypeOK /\ Shells!TypeOK => TypeOK
  BY DEF TypeOK
<1> QED
  BY <1>1, <1>2, <1>3, <1>4, <1>5, <1>6, <1>7, PTL

-----------------------------------------------------------------------------
(* Sums over finite sets. *)

Total(f, S) == Spending!SumFunctionOnSet(f, S)

(* A set of naturals has a least one. *)
LEMMA LeastNatural ==
  ASSUME NEW N, N \subseteq Nat, N # {}
  PROVE  \E m \in N : \A n \in N : m <= n
<1>1. PICK m \in N : \A n \in N : ~(<<n, m>> \in OpToRel(<, Nat))
  BY WFMin, NatLessThanWellFounded
<1>2. ASSUME NEW n \in N PROVE m <= n
  <2>1. m \in Nat /\ n \in Nat /\ <<n, m>> \in Nat \X Nat
    OBVIOUS
  <2>2. ~(n < m)
    BY <1>1, <2>1 DEF OpToRel
  <2> QED
    BY <2>1, <2>2
<1> QED
  BY <1>2

(* A family of finite sets has one with the fewest members. *)
LEMMA Smallest ==
  ASSUME NEW F1, F1 # {}, \A S \in F1 : IsFiniteSet(S)
  PROVE  \E S \in F1 : \A T \in F1 : Cardinality(S) <= Cardinality(T)
<1> DEFINE N == {Cardinality(S) : S \in F1}
<1>1. N \subseteq Nat /\ N # {}
  BY FS_CardinalityType
<1>2. PICK m \in N : \A n \in N : m <= n
  BY <1>1, LeastNatural
<1> QED
  BY <1>2

(* Without one of its members a set is smaller. *)
LEMMA Fewer ==
  ASSUME NEW S, IsFiniteSet(S), NEW x \in S
  PROVE  /\ IsFiniteSet(S \ {x}) /\ Cardinality(S \ {x}) = Cardinality(S) - 1
         /\ Cardinality(S) \in Nat /\ ~(Cardinality(S) <= Cardinality(S \ {x}))
<1>1. IsFiniteSet(S \ {x}) /\ Cardinality(S \ {x}) = Cardinality(S) - 1
  BY FS_RemoveElement
<1>2. Cardinality(S) \in Nat
  BY FS_CardinalityType
<1> QED
  BY <1>1, <1>2

(* A set of at most one member has no two. *)
LEMMA AtMostOne ==
  ASSUME NEW S, IsFiniteSet(S), Cardinality(S) <= 1, NEW x \in S, NEW y \in S
  PROVE  x = y
<1> SUFFICES ASSUME x # y PROVE FALSE
  OBVIOUS
<1>1. /\ IsFiniteSet(S \ {x}) /\ Cardinality(S \ {x}) = Cardinality(S) - 1
      /\ Cardinality(S) \in Nat
  BY Fewer
<1>2. y \in S \ {x} /\ Cardinality(S \ {x}) \in Nat
  BY <1>1, FS_CardinalityType
<1>3. Cardinality(S \ {x}) = 0
  BY <1>1, <1>2
<1>4. S \ {x} = {}
  BY <1>1, <1>3, FS_EmptySet
<1> QED
  BY <1>2, <1>4

(* The member a sum takes next, and one step of it. *)
First(s) == CHOOSE x \in s : TRUE
SumFrom(f, S, g) == [s \in S |-> IF s = {} THEN 0 ELSE f[First(s)] + g[s \ {First(s)}]]
Partial(f, S) == CHOOSE g : g = SumFrom(f, SUBSET S, g)

(* A fold over a set is the last of its partial sums. *)
LEMMA TotalIs == \A f, S : Total(f, S) = Partial(f, S)[S]
BY DEF Total, Spending!SumFunctionOnSet, Spending!FoldFunctionOnSet, Spending!MapThenFoldSet, Partial, SumFrom, First

(* The recursion has a solution: sets of n members at most, n by n. *)
LEMMA SumExists ==
  ASSUME NEW f, NEW S, IsFiniteSet(S)
  PROVE  \E g : g = SumFrom(f, SUBSET S, g)
<1> DEFINE Small(n) == {s \in SUBSET S : Cardinality(s) <= n}
           N == {n \in Nat : ~\E g : g = SumFrom(f, Small(n), g)}
<1>0. \A s \in SUBSET S : IsFiniteSet(s) /\ Cardinality(s) \in Nat
  BY FS_Subset, FS_CardinalityType
<1>1. SUFFICES ASSUME N # {} PROVE FALSE
  <2>1. Cardinality(S) \in Nat /\ Cardinality(S) \notin N
    BY <1>0, <1>1
  <2>2. PICK g : g = SumFrom(f, Small(Cardinality(S)), g)
    BY <2>1
  <2>3. Small(Cardinality(S)) = SUBSET S
    BY FS_Subset
  <2> QED
    BY <2>2, <2>3
<1>2. PICK m \in N : \A n \in N : m <= n
  <2> HIDE DEF N
  <2>1. N \subseteq Nat
    BY DEF N
  <2> QED
    BY <1>1, <2>1, LeastNatural
<1>3. m # 0
  <2>1. SUFFICES ASSUME m = 0 PROVE FALSE
    OBVIOUS
  <2>2. Small(0) = {{}}
    <3>1. ASSUME NEW s \in SUBSET S, Cardinality(s) <= 0 PROVE s = {}
      BY <1>0, <3>1, FS_EmptySet
    <3>2. Cardinality({}) = 0
      BY FS_EmptySet
    <3> QED
      BY <3>1, <3>2
  <2>3. [s \in {{}} |-> 0] = SumFrom(f, {{}}, [s \in {{}} |-> 0])
    BY DEF SumFrom
  <2> QED
    BY <1>2, <2>1, <2>2, <2>3
<1>4. m \in Nat /\ m - 1 \in Nat /\ m - 1 \notin N
  <2>1. m \in Nat /\ m - 1 \in Nat
    BY <1>2, <1>3
  <2>2. ~(m <= m - 1)
    BY <2>1
  <2> QED
    BY <1>2, <2>1, <2>2
<1>5. PICK h : h = SumFrom(f, Small(m - 1), h)
  BY <1>4
<1> DEFINE g == SumFrom(f, Small(m), h)
<1>6. ASSUME NEW s \in Small(m), s # {}
      PROVE  s \ {First(s)} \in Small(m - 1) /\ s \ {First(s)} \in Small(m)
  <2>1. First(s) \in s
    BY <1>6 DEF First
  <2>2. Cardinality(s \ {First(s)}) = Cardinality(s) - 1
    BY <1>0, <2>1, Fewer
  <2> QED
    BY <1>0, <1>4, <2>2
<1>7. ASSUME NEW t \in Small(m - 1), t \in Small(m) PROVE g[t] = h[t]
  <2>1. h[t] = IF t = {} THEN 0 ELSE f[First(t)] + h[t \ {First(t)}]
    BY <1>5 DEF SumFrom
  <2>2. g[t] = IF t = {} THEN 0 ELSE f[First(t)] + h[t \ {First(t)}]
    BY <1>7 DEF SumFrom
  <2> QED
    BY <2>1, <2>2
<1>8. g = SumFrom(f, Small(m), g)
  <2>1. ASSUME NEW s \in Small(m)
        PROVE  (IF s = {} THEN 0 ELSE f[First(s)] + h[s \ {First(s)}])
               = (IF s = {} THEN 0 ELSE f[First(s)] + g[s \ {First(s)}])
    <3>1. CASE s = {}
      BY <3>1
    <3>2. CASE s # {}
      BY <1>6, <1>7, <3>2
    <3> QED
      BY <3>1, <3>2
  <2> HIDE DEF Small
  <2> QED
    BY <2>1 DEF SumFrom
<1> QED
  BY <1>2, <1>8


(* A partial sum is what its equation says. *)
LEMMA PartialIs ==
  ASSUME NEW f, NEW S, IsFiniteSet(S)
  PROVE  Partial(f, S) = SumFrom(f, SUBSET S, Partial(f, S))
BY SumExists DEF Partial

(* The sum over a set does not depend on the set it was taken from. *)
LEMMA PartialsAgree ==
  ASSUME NEW f, NEW S, IsFiniteSet(S), NEW T \in SUBSET S
  PROVE  Partial(f, S)[T] = Total(f, T)
<1>0. IsFiniteSet(T) /\ \A s \in SUBSET T : IsFiniteSet(s)
  BY FS_Subset
<1> DEFINE Off == {s \in SUBSET T : Partial(f, S)[s] # Partial(f, T)[s]}
<1>1. SUFFICES ASSUME Off # {} PROVE FALSE
  BY TotalIs
<1>2. PICK s \in Off : \A t \in Off : Cardinality(s) <= Cardinality(t)
  <2>1. \A t \in Off : IsFiniteSet(t)
    BY <1>0
  <2> HIDE DEF Off
  <2> QED
    BY <1>1, <2>1, Smallest
<1>3. /\ Partial(f, S)[s] = IF s = {} THEN 0 ELSE f[First(s)] + Partial(f, S)[s \ {First(s)}]
      /\ Partial(f, T)[s] = IF s = {} THEN 0 ELSE f[First(s)] + Partial(f, T)[s \ {First(s)}]
  <2>1. s \in SUBSET S /\ s \in SUBSET T
    BY <1>2
  <2>2. ASSUME NEW U, IsFiniteSet(U), s \in SUBSET U
        PROVE  Partial(f, U)[s] = IF s = {} THEN 0 ELSE f[First(s)] + Partial(f, U)[s \ {First(s)}]
    <3> DEFINE g == Partial(f, U)
    <3>1. g = SumFrom(f, SUBSET U, g)
      BY <2>2, PartialIs
    <3> HIDE DEF g
    <3>2. SumFrom(f, SUBSET U, g)[s] = IF s = {} THEN 0 ELSE f[First(s)] + g[s \ {First(s)}]
      BY <2>2 DEF SumFrom
    <3>3. g[s] = IF s = {} THEN 0 ELSE f[First(s)] + g[s \ {First(s)}]
      BY <3>1, <3>2
    <3> QED
      BY <3>3 DEF g
  <2> QED
    BY <1>0, <2>1, <2>2
<1>4. s # {}
  BY <1>2, <1>3
<1>5. First(s) \in s
  BY <1>4 DEF First
<1>6. s \ {First(s)} \notin Off
  BY <1>0, <1>2, <1>5, Fewer
<1> QED
  BY <1>2, <1>3, <1>6

(* Nothing sums to nothing. *)
LEMMA SumOfNone == ASSUME NEW f PROVE Total(f, {}) = 0
<1>1. IsFiniteSet({})
  BY FS_EmptySet
<1> DEFINE g == Partial(f, {})
<1>2. g = SumFrom(f, SUBSET {}, g)
  BY <1>1, PartialIs
<1> HIDE DEF g
<1>3. SumFrom(f, SUBSET {}, g)[{}] = 0
  BY DEF SumFrom
<1>4. g[{}] = 0
  BY <1>2, <1>3
<1> QED
  BY <1>4, TotalIs DEF g

(* The member that is taken first, and the rest. *)
LEMMA SumByFirst ==
  ASSUME NEW f, NEW S, IsFiniteSet(S), S # {}
  PROVE  /\ First(S) \in S
         /\ Total(f, S) = f[First(S)] + Total(f, S \ {First(S)})
<1>1. First(S) \in S
  BY DEF First
<1> DEFINE g == Partial(f, S)
<1>2. g = SumFrom(f, SUBSET S, g)
  BY PartialIs
<1>3. g[S] = Total(f, S) /\ g[S \ {First(S)}] = Total(f, S \ {First(S)})
  BY PartialsAgree
<1> HIDE DEF g
<1>4. SumFrom(f, SUBSET S, g)[S] = f[First(S)] + g[S \ {First(S)}]
  BY DEF SumFrom
<1>5. g[S] = f[First(S)] + g[S \ {First(S)}]
  BY <1>2, <1>4
<1> QED
  BY <1>1, <1>3, <1>5

(* A sum of integers is one. *)
LEMMA SumTyped ==
  ASSUME NEW f, NEW S, IsFiniteSet(S), \A x \in S : f[x] \in Int
  PROVE  Total(f, S) \in Int
<1> DEFINE Off == {T \in SUBSET S : Total(f, T) \notin Int}
<1>1. SUFFICES ASSUME Off # {} PROVE FALSE
  OBVIOUS
<1>2. PICK T \in Off : \A U \in Off : Cardinality(T) <= Cardinality(U)
  <2>1. \A U \in Off : IsFiniteSet(U)
    BY FS_Subset
  <2> HIDE DEF Off
  <2> QED
    BY <1>1, <2>1, Smallest
<1>3. T \in SUBSET S /\ IsFiniteSet(T) /\ T # {}
  <2>1. T \in SUBSET S /\ Total(f, T) \notin Int
    BY <1>2
  <2>2. Total(f, {}) = 0
    BY SumOfNone
  <2>3. T # {}
    <3> HIDE DEF Off
    <3> QED
      BY <2>1, <2>2
  <2> QED
    BY <2>1, <2>3, FS_Subset
<1>4. First(T) \in T /\ Total(f, T) = f[First(T)] + Total(f, T \ {First(T)})
  BY <1>3, SumByFirst
<1>5. T \ {First(T)} \notin Off
  BY <1>2, <1>3, <1>4, Fewer
<1> QED
  BY <1>2, <1>3, <1>4, <1>5

(* Any member may be taken out of a sum. *)
LEMMA SumWithout ==
  ASSUME NEW f, NEW S, IsFiniteSet(S), \A x \in S : f[x] \in Int, NEW x \in S
  PROVE  Total(f, S) = f[x] + Total(f, S \ {x})
<1> DEFINE Off == {T \in SUBSET S : \E y \in T : Total(f, T) # f[y] + Total(f, T \ {y})}
<1>1. SUFFICES ASSUME Off # {} PROVE FALSE
  OBVIOUS
<1>2. PICK T \in Off : \A U \in Off : Cardinality(T) <= Cardinality(U)
  <2>1. \A U \in Off : IsFiniteSet(U)
    BY FS_Subset
  <2> HIDE DEF Off
  <2> QED
    BY <1>1, <2>1, Smallest
<1>3. PICK y \in T : Total(f, T) # f[y] + Total(f, T \ {y})
  BY <1>2
<1>4. T \in SUBSET S /\ IsFiniteSet(T) /\ T # {}
  BY <1>2, FS_Subset
<1> DEFINE c == First(T)
<1>5. c \in T /\ Total(f, T) = f[c] + Total(f, T \ {c})
  BY <1>4, SumByFirst
<1>6. \A z \in T : /\ T \ {z} \in SUBSET S /\ T \ {z} \notin Off
                   /\ \A v \in T \ {z} : Total(f, T \ {z}) = f[v] + Total(f, (T \ {z}) \ {v})
  <2> TAKE z \in T
  <2>1. T \ {z} \notin Off /\ T \ {z} \in SUBSET S
    BY <1>2, <1>4, Fewer
  <2> QED
    BY <2>1
<1> HIDE DEF c, Off
<1>7. y # c
  BY <1>3, <1>5
<1>8. /\ Total(f, T \ {c}) = f[y] + Total(f, (T \ {c}) \ {y})
      /\ Total(f, T \ {y}) = f[c] + Total(f, (T \ {y}) \ {c})
  BY <1>3, <1>5, <1>6, <1>7
<1>9. (T \ {c}) \ {y} = (T \ {y}) \ {c}
  OBVIOUS
<1>10. f[c] \in Int /\ f[y] \in Int /\ Total(f, (T \ {c}) \ {y}) \in Int
  <2>1. (T \ {c}) \ {y} \in SUBSET S
    BY <1>4
  <2>2. IsFiniteSet((T \ {c}) \ {y})
    BY <2>1, FS_Subset
  <2> QED
    BY <1>3, <1>4, <1>5, <2>1, <2>2, SumTyped
<1>11. Total(f, T) = f[y] + (f[c] + Total(f, (T \ {y}) \ {c}))
  <2>1. Total(f, T) = f[c] + (f[y] + Total(f, (T \ {c}) \ {y}))
    BY <1>5, <1>8
  <2>2. Total(f, (T \ {c}) \ {y}) = Total(f, (T \ {y}) \ {c})
    BY <1>9
  <2> QED
    BY <1>10, <2>1, <2>2
<1> QED
  BY <1>3, <1>8, <1>11

(* A sum of naturals is one. *)
LEMMA SumOfNaturals ==
  ASSUME NEW f, NEW S, IsFiniteSet(S), \A x \in S : f[x] \in Nat
  PROVE  Total(f, S) \in Nat
<1> DEFINE Off == {T \in SUBSET S : Total(f, T) \notin Nat}
<1>1. SUFFICES ASSUME Off # {} PROVE FALSE
  OBVIOUS
<1>2. PICK T \in Off : \A U \in Off : Cardinality(T) <= Cardinality(U)
  <2>1. \A U \in Off : IsFiniteSet(U)
    BY FS_Subset
  <2> HIDE DEF Off
  <2> QED
    BY <1>1, <2>1, Smallest
<1>3. T \in SUBSET S /\ IsFiniteSet(T) /\ T # {}
  <2>1. T \in SUBSET S /\ Total(f, T) \notin Nat
    BY <1>2
  <2>2. Total(f, {}) = 0
    BY SumOfNone
  <2>3. T # {}
    <3> HIDE DEF Off
    <3> QED
      BY <2>1, <2>2
  <2> QED
    BY <2>1, <2>3, FS_Subset
<1>4. First(T) \in T /\ Total(f, T) = f[First(T)] + Total(f, T \ {First(T)})
  BY <1>3, SumByFirst
<1>5. T \ {First(T)} \notin Off
  BY <1>2, <1>3, <1>4, Fewer
<1> QED
  BY <1>2, <1>3, <1>4, <1>5

(* What is less member by member is less in sum. *)
LEMMA SumGrows ==
  ASSUME NEW f, NEW g, NEW S, IsFiniteSet(S),
         \A x \in S : f[x] \in Int /\ g[x] \in Int /\ f[x] <= g[x]
  PROVE  Total(f, S) <= Total(g, S)
<1> DEFINE Off == {T \in SUBSET S : ~(Total(f, T) <= Total(g, T))}
<1>1. SUFFICES ASSUME Off # {} PROVE FALSE
  OBVIOUS
<1>2. PICK T \in Off : \A U \in Off : Cardinality(T) <= Cardinality(U)
  <2>1. \A U \in Off : IsFiniteSet(U)
    BY FS_Subset
  <2> HIDE DEF Off
  <2> QED
    BY <1>1, <2>1, Smallest
<1>3. T \in SUBSET S /\ IsFiniteSet(T) /\ ~(Total(f, T) <= Total(g, T))
  BY <1>2, FS_Subset
<1>4. T # {}
  <2>1. Total(f, {}) = 0 /\ Total(g, {}) = 0
    BY SumOfNone
  <2> HIDE DEF Off
  <2> QED
    BY <1>3, <2>1
<1> DEFINE c == First(T)  R == T \ {First(T)}
<1>5. c \in T /\ Total(f, T) = f[c] + Total(f, R) /\ Total(g, T) = g[c] + Total(g, R)
  BY <1>3, <1>4, SumByFirst
<1>6. R \notin Off /\ R \in SUBSET S /\ IsFiniteSet(R)
  BY <1>2, <1>3, <1>5, Fewer
<1>7. Total(f, R) <= Total(g, R)
  BY <1>6
<1>8. Total(f, R) \in Int /\ Total(g, R) \in Int
  BY <1>6, SumTyped
<1>9. f[c] \in Int /\ g[c] \in Int /\ f[c] <= g[c]
  BY <1>3, <1>5
<1> HIDE DEF c, R, Off
<1> QED
  BY <1>3, <1>5, <1>7, <1>8, <1>9

(* What is counted member by member, and one more for each member, bounds a sum. *)
LEMMA SumAndCount ==
  ASSUME NEW f, NEW g, NEW k, NEW S, IsFiniteSet(S),
         \A x \in S : f[x] \in Int /\ g[x] \in Int /\ k[x] \in Int /\ f[x] <= g[x] + k[x] + 1
  PROVE  Total(f, S) <= Total(g, S) + Total(k, S) + Cardinality(S)
<1> DEFINE Off == {T \in SUBSET S : ~(Total(f, T) <= Total(g, T) + Total(k, T) + Cardinality(T))}
<1>1. SUFFICES ASSUME Off # {} PROVE FALSE
  OBVIOUS
<1>2. PICK T \in Off : \A U \in Off : Cardinality(T) <= Cardinality(U)
  <2>1. \A U \in Off : IsFiniteSet(U)
    BY FS_Subset
  <2> HIDE DEF Off
  <2> QED
    BY <1>1, <2>1, Smallest
<1>3. T \in SUBSET S /\ IsFiniteSet(T) /\ T # {}
  <2>1. Total(f, {}) = 0 /\ Total(g, {}) = 0 /\ Total(k, {}) = 0 /\ Cardinality({}) = 0
    BY SumOfNone, FS_EmptySet
  <2>2. /\ T \in SUBSET S
        /\ ~(Total(f, T) <= Total(g, T) + Total(k, T) + Cardinality(T))
    BY <1>2
  <2>3. ASSUME T = {} PROVE FALSE
    <3> HIDE DEF Off
    <3>1. Total(f, T) = 0 /\ Total(g, T) = 0 /\ Total(k, T) = 0 /\ Cardinality(T) = 0
      BY <2>1, <2>3
    <3> QED
      BY <2>2, <3>1
  <2> QED
    BY <2>2, <2>3, FS_Subset
<1> DEFINE c == First(T)  R == T \ {First(T)}
<1>4. /\ c \in T /\ Total(f, T) = f[c] + Total(f, R)
      /\ Total(g, T) = g[c] + Total(g, R) /\ Total(k, T) = k[c] + Total(k, R)
  BY <1>3, SumByFirst
<1>5. /\ R \notin Off /\ R \in SUBSET S /\ IsFiniteSet(R)
      /\ Cardinality(R) = Cardinality(T) - 1 /\ Cardinality(T) \in Nat
  BY <1>2, <1>3, <1>4, Fewer
<1>6. Total(f, R) <= Total(g, R) + Total(k, R) + Cardinality(R)
  BY <1>5
<1>7. Total(f, R) \in Int /\ Total(g, R) \in Int /\ Total(k, R) \in Int
  BY <1>5, SumTyped
<1>8. f[c] \in Int /\ g[c] \in Int /\ k[c] \in Int /\ f[c] <= g[c] + k[c] + 1
  BY <1>3, <1>4
<1>9. ~(Total(f, T) <= Total(g, T) + Total(k, T) + Cardinality(T))
  BY <1>2
<1> HIDE DEF c, R, Off
<1> QED
  BY <1>4, <1>5, <1>6, <1>7, <1>8, <1>9

(* Along an injection of the members that count, a sum grows. *)
LEMMA SumAlong ==
  ASSUME NEW f, NEW g, NEW h, NEW Q, NEW W, NEW B, IsFiniteSet(Q), IsFiniteSet(B),
         \A q \in Q : f[q] \in Int /\ (q \notin W => f[q] <= 0),
         \A b \in B : g[b] \in Nat,
         \A q \in Q \intersect W : h[q] \in B /\ f[q] <= g[h[q]],
         \A q, r \in Q \intersect W : h[q] = h[r] => q = r
  PROVE  Total(f, Q) <= Total(g, B)
<1> DEFINE Into(T, C) == \A q \in T \intersect W : h[q] \in C
           Off == {T \in SUBSET Q : \E C \in SUBSET B : Into(T, C) /\ ~(Total(f, T) <= Total(g, C))}
<1>1. SUFFICES ASSUME Off # {} PROVE FALSE
  <2>1. Into(Q, B) /\ Q \in SUBSET Q /\ B \in SUBSET B
    OBVIOUS
  <2> HIDE DEF Into
  <2> QED
    BY <1>1, <2>1
<1>2. PICK T \in Off : \A U \in Off : Cardinality(T) <= Cardinality(U)
  <2>1. \A U \in Off : IsFiniteSet(U)
    BY FS_Subset
  <2> HIDE DEF Off
  <2> QED
    BY <1>1, <2>1, Smallest
<1>3. PICK C \in SUBSET B : Into(T, C) /\ ~(Total(f, T) <= Total(g, C))
  BY <1>2
<1>4. T \in SUBSET Q /\ IsFiniteSet(T) /\ IsFiniteSet(C) /\ \A b \in C : g[b] \in Nat /\ g[b] \in Int
  BY <1>2, <1>3, FS_Subset
<1>5. Total(g, C) \in Nat
  BY <1>4, SumOfNaturals
<1>6. T # {}
  BY <1>3, <1>5, SumOfNone
<1> DEFINE c == First(T)  R == T \ {First(T)}
<1>7. c \in T /\ Total(f, T) = f[c] + Total(f, R)
  BY <1>4, <1>6, SumByFirst
<1>8. R \notin Off /\ R \in SUBSET Q /\ IsFiniteSet(R)
  BY <1>2, <1>4, <1>7, Fewer
<1>9. \A D \in SUBSET B : Into(R, D) => Total(f, R) <= Total(g, D)
  BY <1>8
<1>10. c \in Q /\ f[c] \in Int /\ Total(f, R) \in Int
  BY <1>4, <1>7, <1>8, SumTyped
<1>11. CASE c \notin W
  <2>1. Into(R, C)
    BY <1>3
  <2>2. Total(f, R) <= Total(g, C) /\ f[c] <= 0
    BY <1>9, <1>10, <1>11, <2>1
  <2> QED
    BY <1>3, <1>5, <1>7, <1>10, <2>2
<1>12. CASE c \in W
  <2>1. h[c] \in C /\ f[c] <= g[h[c]]
    BY <1>3, <1>7, <1>10, <1>12
  <2>2. Into(R, C \ {h[c]})
    <3> SUFFICES ASSUME NEW q \in R \intersect W PROVE h[q] \in C /\ h[q] # h[c]
      OBVIOUS
    <3>1. q # c /\ q \in T \intersect W /\ q \in Q \intersect W /\ c \in Q \intersect W
      BY <1>8, <1>10, <1>12
    <3> QED
      BY <1>3, <3>1
  <2>3. Total(f, R) <= Total(g, C \ {h[c]})
    BY <1>9, <2>2
  <2>4. Total(g, C) = g[h[c]] + Total(g, C \ {h[c]})
    BY <1>4, <2>1, SumWithout
  <2>5. g[h[c]] \in Int /\ Total(g, C \ {h[c]}) \in Int
    <3>1. IsFiniteSet(C \ {h[c]})
      BY <1>4, FS_Subset
    <3> QED
      BY <1>4, <2>1, <3>1, SumTyped
  <2> HIDE DEF c, R, Into, Off
  <2> QED
    BY <1>3, <1>5, <1>7, <1>10, <2>1, <2>3, <2>4, <2>5
<1> QED
  BY <1>11, <1>12


-----------------------------------------------------------------------------
(* Caps. *)

(* A session's rows lie between what it had read when its end was written and *)
(* all that it read, and nobody else is charged for it.                       *)
Balanced(s) ==
  \A a \in Spender :
    /\ a \in Chain[s] => read[s] - late[s] <= row[<<a, s>>] /\ row[<<a, s>>] <= read[s]
    /\ a \notin Chain[s] => row[<<a, s>>] = 0

(* What a session read before its end was written, but for the turn that ended it. *)
Counted == [s \in Spender |-> read[s] - late[s] - IF end[s] = "none" THEN 0 ELSE 1]

(* Without those last turns no cap is reached. *)
Below(counted) == \A b \in Cap : Total(counted, Spending!Bound(b)) < CapLimit[b]

Capped == (\A s \in Spender : Balanced(s)) /\ Below(Counted)

(* What is charged to a cap lies between what its sessions counted for. *)
LEMMA SpentBetween ==
  ASSUME Spending!Lineage, Spending!Scopes, IsFiniteSet(Spender), NEW b \in Cap,
         NEW rows, NEW least, NEW most,
         \A s \in Spender : least[s] \in Int /\ most[s] \in Nat,
         \A a, s \in Spender :
           /\ rows[<<a, s>>] \in Nat
           /\ a \in Chain[s] => least[s] <= rows[<<a, s>>] /\ rows[<<a, s>>] <= most[s]
           /\ a \notin Chain[s] => rows[<<a, s>>] = 0
  PROVE  /\ Total(least, Spending!Bound(b)) <= Spending!Spent(rows, b)
         /\ Spending!Spent(rows, b) <= Total(most, Spending!Bound(b))
<1>0. \A s \in Spender : Cardinality(Chain[s] \intersect b) <= 1
  <2>1. \A c \in Cap, s \in Spender : Cardinality(Chain[s] \intersect c) <= 1
    BY DEF Spending!Scopes, Spending!Cardinality, Cardinality
  <2> QED
    BY <2>1
<1> DEFINE E == {e \in Spender \X Spender : e[1] \in b}
           B == Spending!Bound(b)
           W == {e \in E : e[1] \in Chain[e[2]]}
           up == [s \in B |-> <<CHOOSE a \in Chain[s] \intersect b : TRUE, s>>]
           by == [e \in E |-> e[2]]
<1>1. Spending!Spent(rows, b) = Total(rows, E)
  <2>1. {e \in Spender \X Spender : e[1] \in b /\ (b \in Cap \/ e[1] = e[2])} = E
    OBVIOUS
  <2> QED
    BY <2>1 DEF Spending!Spent, Total
<1>2. IsFiniteSet(E) /\ IsFiniteSet(B) /\ B \subseteq Spender
  <2>1. IsFiniteSet(Spender \X Spender)
    BY FS_Product
  <2> QED
    BY <2>1, FS_Subset DEF Spending!Bound
<1>3. \A e \in E : /\ e[1] \in Spender /\ e[2] \in Spender /\ e[1] \in b /\ e = <<e[1], e[2]>>
                   /\ rows[e] \in Nat
  OBVIOUS
<1>4. \A s \in B : /\ up[s] \in E /\ up[s][2] = s /\ up[s][1] \in Chain[s]
  <2> TAKE s \in B
  <2>1. Chain[s] \intersect b # {} /\ Chain[s] \subseteq Spender /\ s \in Spender
    BY <1>2 DEF Spending!Bound, Spending!Lineage
  <2>2. (CHOOSE a \in Chain[s] \intersect b : TRUE) \in Chain[s] \intersect b
    BY <2>1
  <2> QED
    BY <2>1, <2>2
<1>5. \A e \in W : by[e] \in B
  BY <1>3 DEF Spending!Bound
<1>6. \A e, f \in W : by[e] = by[f] => e = f
  <2> SUFFICES ASSUME NEW e \in W, NEW f \in W, e[2] = f[2] PROVE e[1] = f[1]
    BY <1>3
  <2>1. e[2] \in Spender /\ e[1] \in Chain[e[2]] \intersect b /\ f[1] \in Chain[e[2]] \intersect b
    BY <1>3
  <2>2. \A s \in Spender : Cardinality(Chain[s] \intersect b) <= 1
    BY <1>0
  <2>3. \A s \in Spender : Chain[s] \intersect b \subseteq Spender
    BY DEF Spending!Lineage
  <2>4. IsFiniteSet(Chain[e[2]] \intersect b)
    BY <2>1, <2>3, FS_Subset
  <2> HIDE DEF W
  <2> QED
    BY <2>1, <2>2, <2>4, AtMostOne
<1> HIDE DEF E, B, W, up, by
<1>7. Total(least, B) <= Total(rows, E)
  <2>1. \A s \in B \intersect B : up[s] \in E /\ least[s] <= rows[up[s]]
    <3> TAKE s \in B \intersect B
    <3>1. up[s] = <<up[s][1], s>> /\ up[s][1] \in Spender /\ s \in Spender /\ up[s][1] \in Chain[s]
      BY <1>2, <1>3, <1>4
    <3> QED
      BY <1>4, <3>1
  <2>2. \A s, t \in B \intersect B : up[s] = up[t] => s = t
    BY <1>4
  <2>3. \A s \in B : least[s] \in Int /\ (s \notin B => least[s] <= 0)
    BY <1>2
  <2>4. \A e \in E : rows[e] \in Nat
    BY <1>3
  <2> QED
    BY <1>2, <2>1, <2>2, <2>3, <2>4, SumAlong
<1>8. Total(rows, E) <= Total(most, B)
  <2>1. \A e \in E : rows[e] \in Int /\ (e \notin W => rows[e] <= 0)
    BY <1>3 DEF W
  <2>2. \A e \in E \intersect W : by[e] \in B /\ rows[e] <= most[by[e]]
    <3> TAKE e \in E \intersect W
    <3>1. e = <<e[1], by[e]>> /\ e[1] \in Spender /\ by[e] \in Spender /\ e[1] \in Chain[by[e]]
      BY <1>3 DEF W, by
    <3> QED
      BY <1>5, <3>1
  <2>3. \A s \in B : most[s] \in Nat
    BY <1>2
  <2> QED
    BY <1>2, <1>6, <2>1, <2>2, <2>3, SumAlong
<1> QED
  BY <1>1, <1>7, <1>8 DEF B


(* What is charged to a budget is a number of turns. *)
LEMMA SpentIsNatural ==
  ASSUME IsFiniteSet(Spender), NEW rows, \A a, s \in Spender : rows[<<a, s>>] \in Nat, NEW b
  PROVE  Spending!Spent(rows, b) \in Nat
<1> DEFINE E == {e \in Spender \X Spender : e[1] \in b /\ (b \in Cap \/ e[1] = e[2])}
<1>1. IsFiniteSet(Spender \X Spender)
  BY FS_Product
<1>2. IsFiniteSet(E)
  BY <1>1, FS_Subset
<1>3. \A e \in E : rows[e] \in Nat
  OBVIOUS
<1>4. Total(rows, E) \in Nat
  <2> HIDE DEF E
  <2> QED
    BY <1>2, <1>3, SumOfNaturals
<1> QED
  BY <1>4 DEF Spending!Spent, Total

(* A pump that neither warns nor stops, or only warns, has found something left *)
(* in every cap that binds its session.                                         *)
LEMMA SomethingLeft ==
  ASSUME Spending!Lineage, Spending!Scopes, IsFiniteSet(Spender), NEW rows,
         \A a, s \in Spender : rows[<<a, s>>] \in Nat,
         limit \in [Ceiling -> Limits \union {NoLimit}],
         NEW s \in Spender, NEW b \in Cap, s \in Spending!Bound(b),
         \/ \A t \in Spending!Tightest(rows, s) : ~Spending!AtCap(rows, t)
         \/ \E t \in Spending!Tightest(rows, s) : ~Spending!AtCap(rows, t)
  PROVE  Spending!Spent(rows, b) < CapLimit[b]
<1> DEFINE rest(t) == Spending!Remaining(rows, t)
           N == {rest(t) : t \in Spending!Bindings(s)}
<1>1. ASSUME NEW t \in Spending!Binding PROVE rest(t) \in Nat
  <2>1. t \in Cap \union Ceiling /\ Spending!LimitOf(t) # NoLimit
    BY <1>1 DEF Spending!Binding, Spending!Budget
  <2>2. Spending!LimitOf(t) \in Nat
    <3>1. CapLimit \in [Cap -> Nat \ {0}] /\ Limits \subseteq Nat
      BY DEF Spending!Scopes
    <3> QED
      BY <2>1, <3>1 DEF Spending!LimitOf
  <2>3. Spending!Spent(rows, t) \in Nat
    BY SpentIsNatural
  <2> QED
    BY <2>2, <2>3 DEF Spending!Remaining
<1>2. b \in Spending!Bindings(s) /\ Spending!LimitOf(b) = CapLimit[b] /\ CapLimit[b] \in Nat
  <2>1. CapLimit[b] \in Nat /\ CapLimit[b] # NoLimit /\ Spending!LimitOf(b) = CapLimit[b]
    BY DEF Spending!Scopes, Spending!LimitOf
  <2> QED
    BY <2>1 DEF Spending!Bound, Spending!Bindings, Spending!Binding, Spending!Budget
<1>3. \E t \in Spending!Tightest(rows, s) : TRUE
  <2>1. N \subseteq Nat
    BY <1>1 DEF Spending!Bindings
  <2>2. N # {}
    BY <1>2
  <2>3. PICK m \in N : \A n \in N : m <= n
    <3> HIDE DEF N
    <3> QED
      BY <2>1, <2>2, LeastNatural
  <2>4. PICK t \in Spending!Bindings(s) : m = rest(t)
    BY <2>3
  <2>5. \A o \in Spending!Bindings(s) : rest(t) <= rest(o)
    BY <2>3, <2>4
  <2> QED
    BY <2>4, <2>5 DEF Spending!Tightest
<1>4. PICK t \in Spending!Tightest(rows, s) : ~Spending!AtCap(rows, t)
  BY <1>3
<1>5. rest(t) \in Nat /\ rest(t) # 0 /\ rest(t) <= rest(b)
  <2>1. t \in Spending!Bindings(s) /\ rest(t) <= rest(b)
    BY <1>2, <1>4 DEF Spending!Tightest
  <2> QED
    BY <1>1, <1>4, <2>1 DEF Spending!AtCap, Spending!Bindings
<1>6. rest(b) \in Nat /\ rest(b) # 0
  <2>1. rest(b) \in Nat
    BY <1>1, <1>2 DEF Spending!Bindings
  <2> HIDE DEF rest
  <2> QED
    BY <1>5, <2>1
<1>7. ~(Spending!Spent(rows, b) >= Spending!LimitOf(b))
  BY <1>6 DEF Spending!Remaining
<1>8. Spending!Spent(rows, b) \in Nat
  BY SpentIsNatural
<1> QED
  BY <1>2, <1>7, <1>8


(* The rows of every session stay between what it read and what was late of it. *)
LEMMA BalancedKeeps ==
  ASSUME BudgetTypes, \A s \in Spender : Balanced(s), Spending!Next \/ UNCHANGED budgetVars
  PROVE  \A s \in Spender : Balanced(s)'
<1>0. \A s \in Spender : read[s] \in Int /\ late[s] \in Nat
  BY DEF BudgetTypes, Spending!TypeOK
<1>t. read \in [Spender -> 0..MaxTurns] /\ late \in [Spender -> 0..MaxTurns]
  BY DEF BudgetTypes, Spending!TypeOK
<1> USE DEF Spending!runtime, Spending!ends
<1>u. ASSUME UNCHANGED <<read, late, row>> PROVE \A s \in Spender : Balanced(s)'
  BY <1>u DEF Balanced
<1>c. ASSUME NEW s \in Spender, row' = Spending!Attribute(s, read[s]), UNCHANGED <<read, late>>
      PROVE  \A t \in Spender : Balanced(t)'
  <2>1. Balanced(s)'
    <3> SUFFICES ASSUME NEW a \in Spender
                 PROVE  /\ a \in Chain[s] => read[s] - late[s] <= row'[<<a, s>>] /\ row'[<<a, s>>] <= read[s]
                        /\ a \notin Chain[s] => row'[<<a, s>>] = 0
      BY <1>c DEF Balanced
    <3>1. row'[<<a, s>>] = IF a \in Chain[s] THEN read[s] ELSE row[<<a, s>>]
      BY <1>c, Charges
    <3>2. a \notin Chain[s] => row[<<a, s>>] = 0
      BY DEF Balanced
    <3> QED
      BY <1>0, <3>1, <3>2
  <2>2. ASSUME NEW t \in Spender \ {s} PROVE Balanced(t)'
    <3>1. \A a \in Spender : row'[<<a, t>>] = row[<<a, t>>]
      BY <1>c, Charges
    <3> QED
      BY <1>c, <3>1 DEF Balanced
  <2> QED
    BY <2>1, <2>2
<1>1. ASSUME NEW s \in Spender, Spending!EnforceBudget(s) PROVE \A t \in Spender : Balanced(t)'
  <2>1. read' = [read EXCEPT ![s] = @ + 1]
    BY <1>1 DEF Spending!EnforceBudget, Spending!ReadTurn
  <2>2. read'[s] = read[s] + 1 /\ \A t \in Spender \ {s} : read'[t] = read[t]
    BY <1>t, <2>1
  <2>3. CASE late' = [late EXCEPT ![s] = @ + 1] /\ UNCHANGED row
    <3>1. late'[s] = late[s] + 1 /\ \A t \in Spender \ {s} : late'[t] = late[t]
      BY <1>t, <2>3
    <3>2. Balanced(s)'
      <4> SUFFICES ASSUME NEW a \in Spender
                   PROVE  /\ a \in Chain[s] => read'[s] - late'[s] <= row[<<a, s>>] /\ row[<<a, s>>] <= read'[s]
                          /\ a \notin Chain[s] => row[<<a, s>>] = 0
        BY <2>3 DEF Balanced
      <4>1. /\ a \in Chain[s] => read[s] - late[s] <= row[<<a, s>>] /\ row[<<a, s>>] <= read[s]
            /\ a \notin Chain[s] => row[<<a, s>>] = 0
        BY DEF Balanced
      <4>2. row[<<a, s>>] \in Int
        BY DEF BudgetTypes, Spending!TypeOK
      <4> QED
        BY <1>0, <2>2, <3>1, <4>1, <4>2
    <3>3. \A t \in Spender \ {s} : Balanced(t)'
      BY <2>2, <2>3, <3>1 DEF Balanced
    <3> QED
      BY <3>2, <3>3
  <2>4. CASE row' = Spending!Attribute(s, read'[s]) /\ UNCHANGED late
    <3>1. Balanced(s)'
      <4> SUFFICES ASSUME NEW a \in Spender
                   PROVE  /\ a \in Chain[s] => read'[s] - late[s] <= row'[<<a, s>>] /\ row'[<<a, s>>] <= read'[s]
                          /\ a \notin Chain[s] => row'[<<a, s>>] = 0
        BY <2>4 DEF Balanced
      <4>1. row'[<<a, s>>] = IF a \in Chain[s] THEN read'[s] ELSE row[<<a, s>>]
        BY <2>4, Charges
      <4>2. a \notin Chain[s] => row[<<a, s>>] = 0
        BY DEF Balanced
      <4> QED
        BY <1>0, <2>2, <4>1, <4>2
    <3>2. ASSUME NEW t \in Spender \ {s} PROVE Balanced(t)'
      <4>1. \A a \in Spender : row'[<<a, t>>] = row[<<a, t>>]
        BY <2>4, Charges
      <4> QED
        BY <2>2, <2>4, <4>1 DEF Balanced
    <3> QED
      BY <3>1, <3>2
  <2> QED
    BY <1>1, <2>3, <2>4 DEF Spending!EnforceBudget
<1>2. ASSUME Spending!Crash PROVE \A t \in Spender : Balanced(t)'
  <2> DEFINE inFlight == {s \in Spender : pump[s] = "reading" /\ end[s] = "none"}
  <2>1. /\ row' = [e \in Spender \X Spender |->
                     IF e[2] \in inFlight /\ e[1] \in Chain[e[2]] THEN read'[e[2]] ELSE row[e]]
        /\ \E torn \in SUBSET Spender :
             /\ \A s \in torn : pump[s] = "reading"
             /\ read' = [s \in Spender |-> IF s \in torn THEN read[s] + 1 ELSE read[s]]
             /\ late' = [s \in Spender |-> IF s \in torn /\ end[s] # "none" THEN late[s] + 1 ELSE late[s]]
    BY <1>2 DEF Spending!Crash
  <2> SUFFICES ASSUME NEW s \in Spender, NEW a \in Spender
               PROVE  /\ a \in Chain[s] => read'[s] - late'[s] <= row'[<<a, s>>] /\ row'[<<a, s>>] <= read'[s]
                      /\ a \notin Chain[s] => row'[<<a, s>>] = 0
    BY DEF Balanced
  <2>2. row'[<<a, s>>] = IF s \in inFlight /\ a \in Chain[s] THEN read'[s] ELSE row[<<a, s>>]
    BY <2>1
  <2>3. \/ read'[s] = read[s] /\ late'[s] = late[s]
        \/ read'[s] = read[s] + 1 /\ s \in inFlight /\ late'[s] = late[s]
        \/ read'[s] = read[s] + 1 /\ late'[s] = late[s] + 1
    BY <2>1
  <2>4. /\ a \in Chain[s] => read[s] - late[s] <= row[<<a, s>>] /\ row[<<a, s>>] <= read[s]
        /\ a \notin Chain[s] => row[<<a, s>>] = 0
    BY DEF Balanced
  <2>5. row[<<a, s>>] \in Int
    BY DEF BudgetTypes, Spending!TypeOK
  <2> HIDE DEF inFlight
  <2> QED
    BY <1>0, <2>2, <2>3, <2>4, <2>5
<1>3. CASE Spending!Next
  <2>1. ASSUME NEW s \in Spender,
               \/ Spending!Start(s) \/ Spending!Attach(s) \/ Spending!TakeTurn(s)
               \/ Spending!RuntimeEnds(s) \/ Spending!Stop(s) \/ Spending!TellChain(s)
        PROVE  UNCHANGED <<read, late, row>>
    BY <2>1 DEF Spending!Start, Spending!Attach, Spending!TakeTurn, Spending!RuntimeEnds,
       Spending!Stop, Spending!TellChain
  <2>2. ASSUME NEW s \in Spender,
               \/ Spending!StopAnswered(s) \/ Spending!StopFails(s) \/ Spending!StreamEnds(s)
               \/ Spending!StopReturns(s)
        PROVE  row' = Spending!Attribute(s, read[s]) /\ UNCHANGED <<read, late>>
    BY <2>2 DEF Spending!StopAnswered, Spending!StopFails, Spending!StreamEnds, Spending!StopReturns
  <2>3. ASSUME NEW b \in Ceiling, Spending!SetBudget(b) PROVE UNCHANGED <<read, late, row>>
    BY <2>3 DEF Spending!SetBudget
  <2> QED
    BY <1>1, <1>2, <1>3, <1>c, <1>u, <2>1, <2>2, <2>3 DEF Spending!Next, Spending!Pump
<1>4. CASE UNCHANGED budgetVars
  BY <1>4, <1>u DEF budgetVars
<1> QED
  BY <1>3, <1>4


(* Nobody counts for more than before. *)
NobodyCountsMore == \A s \in Spender : Counted'[s] <= Counted[s]

(* One session counts for more, and found something left in every cap that binds it. *)
CountsOnItsOwn(s) ==
  /\ \A t \in Spender \ {s} : Counted'[t] = Counted[t]
  /\ \A b \in Cap : s \in Spending!Bound(b) => Spending!Spent(row', b) < CapLimit[b]

(* What a session counts for, before and after a step. *)
LEMMA CountedIs ==
  /\ \A s \in Spender : Counted[s] = read[s] - late[s] - IF end[s] = "none" THEN 0 ELSE 1
  /\ \A s \in Spender : Counted'[s] = read'[s] - late'[s] - IF end'[s] = "none" THEN 0 ELSE 1
BY DEF Counted

(* A turn that is read either ends its session, or leaves something of its caps. *)
LEMMA TurnsCount ==
  ASSUME Spending!Lineage, Spending!Scopes, IsFiniteSet(Spender), BudgetTypes, BudgetTypes',
         NEW s \in Spender, Spending!EnforceBudget(s)
  PROVE  NobodyCountsMore \/ CountsOnItsOwn(s)
<1> USE DEF Spending!ends
<1>0. /\ \A t \in Spender : read[t] \in Int /\ late[t] \in Int
      /\ end \in [Spender -> {"none", "out-of-budget", "by-itself", "stopped", "interrupted"}]
      /\ read \in [Spender -> 0..MaxTurns] /\ late \in [Spender -> 0..MaxTurns]
      /\ limit \in [Ceiling -> Limits \union {NoLimit}]
      /\ \A a, t \in Spender : row'[<<a, t>>] \in Nat
  <2>1. row' \in [Spender \X Spender -> 0..MaxTurns]
    BY DEF BudgetTypes, Spending!TypeOK
  <2> QED
    BY <2>1 DEF BudgetTypes, Spending!TypeOK
<1>1. read' = [read EXCEPT ![s] = @ + 1]
  BY DEF Spending!EnforceBudget, Spending!ReadTurn
<1>2. read'[s] = read[s] + 1 /\ \A t \in Spender \ {s} : read'[t] = read[t]
  BY <1>0, <1>1
<1>3. CASE end[s] # "none" /\ late' = [late EXCEPT ![s] = @ + 1] /\ UNCHANGED end
  <2>1. late'[s] = late[s] + 1 /\ \A t \in Spender \ {s} : late'[t] = late[t]
    BY <1>0, <1>3
  <2> SUFFICES ASSUME NEW t \in Spender PROVE Counted'[t] <= Counted[t]
    BY DEF NobodyCountsMore
  <2> QED
    BY <1>0, <1>2, <1>3, <2>1, CountedIs
<1>4. CASE end[s] = "none" /\ UNCHANGED late /\ end' = [end EXCEPT ![s] = "out-of-budget"]
  <2>1. end'[s] # "none" /\ \A t \in Spender \ {s} : end'[t] = end[t]
    BY <1>0, <1>4
  <2>2. Counted'[s] <= Counted[s]
    <3>1. Counted[s] = read[s] - late[s]
      BY <1>0, <1>4, CountedIs
    <3>2. Counted'[s] = read'[s] - late[s] - 1
      BY <1>4, <2>1, CountedIs
    <3> QED
      BY <1>0, <1>2, <3>1, <3>2
  <2>3. ASSUME NEW t \in Spender \ {s} PROVE Counted'[t] <= Counted[t]
    BY <1>0, <1>2, <1>4, <2>1, CountedIs
  <2> QED
    BY <2>2, <2>3 DEF NobodyCountsMore
<1>5. CASE /\ UNCHANGED <<late, end>>
           /\ \/ \A t \in Spending!Tightest(row', s) : ~Spending!AtCap(row', t)
              \/ \E t \in Spending!Tightest(row', s) : ~Spending!AtCap(row', t)
  <2>1. \A t \in Spender \ {s} : Counted'[t] = Counted[t]
    BY <1>2, <1>5, CountedIs
  <2>2. ASSUME NEW b \in Cap, s \in Spending!Bound(b) PROVE Spending!Spent(row', b) < CapLimit[b]
    BY <1>0, <1>5, <2>2, SomethingLeft
  <2> QED
    BY <2>1, <2>2 DEF CountsOnItsOwn
<1> QED
  BY <1>3, <1>4, <1>5 DEF Spending!EnforceBudget, Spending!NearCap

(* A crash ends whoever it interrupts. *)
LEMMA CrashesCount ==
  ASSUME BudgetTypes, Spending!Crash
  PROVE  NobodyCountsMore
<1> DEFINE inFlight == {s \in Spender : pump[s] = "reading" /\ end[s] = "none"}
<1>0. \A s \in Spender : read[s] \in Int /\ late[s] \in Int
  BY DEF BudgetTypes, Spending!TypeOK
<1>1. /\ end' = [s \in Spender |-> IF s \in inFlight THEN "interrupted" ELSE end[s]]
      /\ \E torn \in SUBSET Spender :
           /\ \A s \in torn : pump[s] = "reading"
           /\ read' = [s \in Spender |-> IF s \in torn THEN read[s] + 1 ELSE read[s]]
           /\ late' = [s \in Spender |-> IF s \in torn /\ end[s] # "none" THEN late[s] + 1 ELSE late[s]]
  BY DEF Spending!Crash
<1> SUFFICES ASSUME NEW s \in Spender PROVE Counted'[s] <= Counted[s]
  BY DEF NobodyCountsMore
<1>2. \/ read'[s] = read[s] /\ late'[s] = late[s]
      \/ read'[s] = read[s] + 1 /\ s \in inFlight /\ late'[s] = late[s]
      \/ read'[s] = read[s] + 1 /\ end[s] # "none" /\ late'[s] = late[s] + 1
  BY <1>1
<1>3. end'[s] = IF s \in inFlight THEN "interrupted" ELSE end[s]
  BY <1>1
<1>4. s \in inFlight => end[s] = "none"
  OBVIOUS
<1> HIDE DEF inFlight
<1> QED
  BY <1>0, <1>2, <1>3, <1>4, CountedIs

(* No other step counts a turn. *)
LEMMA OthersCountNothing ==
  ASSUME BudgetTypes, UNCHANGED <<read, late>>,
         \/ UNCHANGED end
         \/ \E s \in Spender, how \in {"by-itself", "stopped"} : Spending!EndAs(s, how)
  PROVE  NobodyCountsMore
<1>0. /\ \A s \in Spender : read[s] \in Int /\ late[s] \in Int
      /\ end \in [Spender -> {"none", "out-of-budget", "by-itself", "stopped", "interrupted"}]
  BY DEF BudgetTypes, Spending!TypeOK
<1>1. \A s \in Spender : end[s] # "none" => end'[s] # "none"
  <2>1. CASE UNCHANGED end
    BY <2>1
  <2>2. CASE \E s \in Spender, how \in {"by-itself", "stopped"} : Spending!EndAs(s, how)
    BY <1>0, <2>2 DEF Spending!EndAs
  <2> QED
    BY <2>1, <2>2
<1> SUFFICES ASSUME NEW s \in Spender PROVE Counted'[s] <= Counted[s]
  BY DEF NobodyCountsMore
<1> QED
  BY <1>0, <1>1, CountedIs

(* Whatever happens, one session at a time counts another turn. *)
LEMMA CountsMove ==
  ASSUME Spending!Lineage, Spending!Scopes, IsFiniteSet(Spender), BudgetTypes, BudgetTypes',
         Spending!Next \/ UNCHANGED budgetVars
  PROVE  NobodyCountsMore \/ \E s \in Spender : CountsOnItsOwn(s)
<1> USE DEF Spending!runtime, Spending!ends
<1>1. ASSUME NEW s \in Spender,
             \/ Spending!Start(s) \/ Spending!Attach(s) \/ Spending!TakeTurn(s)
             \/ Spending!RuntimeEnds(s) \/ Spending!StopAnswered(s) \/ Spending!TellChain(s)
             \/ Spending!StopFails(s) \/ Spending!StopReturns(s)
      PROVE  NobodyCountsMore
  <2>1. UNCHANGED <<read, late, end>>
    BY <1>1 DEF Spending!Start, Spending!Attach, Spending!TakeTurn, Spending!RuntimeEnds,
       Spending!StopAnswered, Spending!TellChain, Spending!StopFails, Spending!StopReturns
  <2> QED
    BY <2>1, OthersCountNothing
<1>2. ASSUME NEW s \in Spender, Spending!StreamEnds(s) \/ Spending!Stop(s) PROVE NobodyCountsMore
  <2>1. /\ UNCHANGED <<read, late>>
        /\ \E how \in {"by-itself", "stopped"} : Spending!EndAs(s, how)
    BY <1>2 DEF Spending!StreamEnds, Spending!Stop
  <2> QED
    BY <2>1, OthersCountNothing
<1>3. ASSUME NEW b \in Ceiling, Spending!SetBudget(b) PROVE NobodyCountsMore
  <2>1. UNCHANGED <<read, late, end>>
    BY <1>3 DEF Spending!SetBudget
  <2> QED
    BY <2>1, OthersCountNothing
<1>4. CASE UNCHANGED budgetVars
  <2>1. UNCHANGED <<read, late, end>>
    BY <1>4 DEF budgetVars
  <2> QED
    BY <2>1, OthersCountNothing
<1>5. CASE Spending!Next
  BY <1>1, <1>2, <1>3, <1>5, TurnsCount, CrashesCount DEF Spending!Next, Spending!Pump
<1> QED
  BY <1>4, <1>5

(* Every step keeps every cap out of reach of what is counted. *)
LEMMA CappedKeeps ==
  ASSUME Spending!Lineage, Spending!Scopes, IsFiniteSet(Spender), BudgetTypes, BudgetTypes',
         Capped, Spending!Next \/ UNCHANGED budgetVars
  PROVE  Capped'
<1>1. \A s \in Spender : Balanced(s)'
  BY BalancedKeeps DEF Capped
<1>2. \A s \in Spender : /\ Counted[s] \in Int /\ Counted'[s] \in Int
                         /\ read'[s] \in Nat /\ late'[s] \in Nat
  <2>1. \A s \in Spender : /\ read[s] \in Int /\ late[s] \in Int
                           /\ read'[s] \in Nat /\ late'[s] \in Nat
    BY DEF BudgetTypes, Spending!TypeOK
  <2> QED
    BY <2>1, CountedIs
<1>3. ASSUME NEW b \in Cap PROVE Total(Counted', Spending!Bound(b)) < CapLimit[b]
  <2> DEFINE B == Spending!Bound(b)
  <2>1. B \subseteq Spender /\ IsFiniteSet(B)
    BY FS_Subset DEF Spending!Bound
  <2>2. Total(Counted, B) < CapLimit[b] /\ CapLimit[b] \in Nat
    BY <1>3 DEF Capped, Below, Spending!Scopes
  <2> HIDE DEF B
  <2>3. Total(Counted, B) \in Int /\ Total(Counted', B) \in Int
    BY <1>2, <2>1, SumTyped
  <2>4. CASE \A s \in B : Counted'[s] <= Counted[s]
    <3>1. Total(Counted', B) <= Total(Counted, B)
      BY <1>2, <2>1, <2>4, SumGrows
    <3> QED
      BY <2>2, <2>3, <3>1 DEF B
  <2>5. ASSUME NEW s \in B, CountsOnItsOwn(s) PROVE Total(Counted', B) < CapLimit[b]
    <3>1. Spending!Spent(row', b) < CapLimit[b]
      BY <2>1, <2>5 DEF CountsOnItsOwn, B
    <3>2. \A a, t \in Spender :
            /\ row'[<<a, t>>] \in Nat
            /\ a \in Chain[t] => Counted'[t] <= row'[<<a, t>>] /\ row'[<<a, t>>] <= read'[t]
            /\ a \notin Chain[t] => row'[<<a, t>>] = 0
      <4> TAKE a, t \in Spender
      <4>1. row'[<<a, t>>] \in Nat
        BY DEF BudgetTypes, Spending!TypeOK
      <4>2. /\ a \in Chain[t] => read'[t] - late'[t] <= row'[<<a, t>>] /\ row'[<<a, t>>] <= read'[t]
            /\ a \notin Chain[t] => row'[<<a, t>>] = 0
        BY <1>1 DEF Balanced
      <4> QED
        BY <1>2, <4>1, <4>2, CountedIs
    <3>3. Total(Counted', B) <= Spending!Spent(row', b)
      BY <1>2, <3>2, SpentBetween DEF B
    <3>4. Spending!Spent(row', b) \in Nat
      BY <3>2, SpentIsNatural
    <3> QED
      BY <2>2, <2>3, <3>1, <3>3, <3>4
  <2>6. NobodyCountsMore \/ \E s \in Spender : CountsOnItsOwn(s)
    BY CountsMove
  <2>7. ASSUME NobodyCountsMore PROVE \A s \in B : Counted'[s] <= Counted[s]
    BY <2>1, <2>7 DEF NobodyCountsMore
  <2>8. ASSUME NEW s \in Spender \ B, CountsOnItsOwn(s) PROVE \A t \in B : Counted'[t] <= Counted[t]
    BY <1>2, <2>1, <2>8 DEF CountsOnItsOwn
  <2> QED
    BY <2>4, <2>5, <2>6, <2>7, <2>8 DEF B
<1> QED
  BY <1>1, <1>3 DEF Capped, Below

(* Nothing is counted at first. *)
LEMMA CappedAtFirst ==
  ASSUME Spending!Scopes, IsFiniteSet(Spender), Spending!Init
  PROVE  Capped
<1>1. /\ read = [s \in Spender |-> 0] /\ late = [s \in Spender |-> 0]
      /\ end = [s \in Spender |-> "none"] /\ row = [e \in Spender \X Spender |-> 0]
  BY DEF Spending!Init
<1>2. \A s \in Spender : Balanced(s)
  BY <1>1 DEF Balanced
<1>3. ASSUME NEW b \in Cap PROVE Total(Counted, Spending!Bound(b)) < CapLimit[b]
  <2> DEFINE B == Spending!Bound(b)
  <2>1. B \subseteq Spender /\ IsFiniteSet(B) /\ IsFiniteSet({})
    BY FS_Subset, FS_EmptySet DEF Spending!Bound
  <2>2. \A s \in B : Counted[s] \in Int /\ Counted[s] <= 0
    BY <1>1, <2>1, CountedIs
  <2>3. CapLimit[b] \in Nat \ {0}
    BY DEF Spending!Scopes
  <2> HIDE DEF B
  <2>4. Total(Counted, B) <= Total(Counted, {})
    <3>1. \A s \in B : Counted[s] \in Int /\ (s \notin {} => Counted[s] <= 0)
      BY <2>2
    <3>2. \A s \in {} : Counted[s] \in Nat
      OBVIOUS
    <3>3. \A s \in B \intersect {} : Counted[s] \in {} /\ Counted[s] <= Counted[Counted[s]]
      OBVIOUS
    <3>4. \A s, t \in B \intersect {} : Counted[s] = Counted[t] => s = t
      OBVIOUS
    <3> HIDE DEF Counted
    <3> QED
      BY <2>1, <3>1, <3>2, <3>3, <3>4, SumAlong
  <2>5. Total(Counted, {}) = 0 /\ Total(Counted, B) \in Int
    BY <2>1, <2>2, SumOfNone, SumTyped
  <2> QED
    BY <2>3, <2>4, <2>5 DEF B
<1> QED
  BY <1>2, <1>3 DEF Capped, Below

(* What is charged beyond what is counted was late, or a session's last turn. *)
LEMMA CappedHolds ==
  ASSUME Spending!Lineage, Spending!Scopes, IsFiniteSet(Spender), BudgetTypes, Capped
  PROVE  Spending!CapsHold
<1> SUFFICES ASSUME NEW b \in Cap
             PROVE  Spending!Spent(row, b)
                      < CapLimit[b] + Cardinality(Spending!Bound(b)) + Total(late, Spending!Bound(b))
  BY DEF Spending!CapsHold, Total, Spending!Cardinality, Cardinality
<1> DEFINE B == Spending!Bound(b)
<1>1. B \subseteq Spender /\ IsFiniteSet(B) /\ Cardinality(B) \in Nat
  BY FS_Subset, FS_CardinalityType DEF Spending!Bound
<1>2. Total(Counted, B) < CapLimit[b] /\ CapLimit[b] \in Nat
  BY DEF Capped, Below, Spending!Scopes
<1>3. \A s \in Spender : /\ read[s] \in Nat /\ late[s] \in Int /\ Counted[s] \in Int
                         /\ read[s] <= Counted[s] + late[s] + 1
                         /\ Counted[s] <= read[s] - late[s]
  <2>1. \A s \in Spender : read[s] \in Nat /\ late[s] \in Nat
    BY DEF BudgetTypes, Spending!TypeOK
  <2> QED
    BY <2>1, CountedIs
<1>4. \A a, s \in Spender :
        /\ row[<<a, s>>] \in Nat
        /\ a \in Chain[s] => Counted[s] <= row[<<a, s>>] /\ row[<<a, s>>] <= read[s]
        /\ a \notin Chain[s] => row[<<a, s>>] = 0
  <2> TAKE a, s \in Spender
  <2>1. row[<<a, s>>] \in Nat
    BY DEF BudgetTypes, Spending!TypeOK
  <2>2. /\ a \in Chain[s] => read[s] - late[s] <= row[<<a, s>>] /\ row[<<a, s>>] <= read[s]
        /\ a \notin Chain[s] => row[<<a, s>>] = 0
    BY DEF Capped, Balanced
  <2> QED
    BY <1>3, <2>1, <2>2
<1>5. Spending!Spent(row, b) <= Total(read, B)
  BY <1>3, <1>4, SpentBetween
<1>6. Spending!Spent(row, b) \in Nat
  BY <1>4, SpentIsNatural
<1> HIDE DEF B
<1>7. Total(read, B) <= Total(Counted, B) + Total(late, B) + Cardinality(B)
  BY <1>1, <1>3, SumAndCount
<1>8. Total(read, B) \in Int /\ Total(Counted, B) \in Int /\ Total(late, B) \in Int
  BY <1>1, <1>3, SumTyped
<1>9. Spending!Spent(row, b) < CapLimit[b] + Cardinality(B) + Total(late, B)
  BY <1>1, <1>2, <1>5, <1>6, <1>7, <1>8
<1> QED
  BY <1>9 DEF B

(* enforceBudget and attributeSpend: a cap is overspent by one turn at most for  *)
(* every session it binds, and by what had been taken when those were stopped.   *)
THEOREM NoCapIsBroken == Spec => []CapsHold
<1>1. Init => BudgetTypes /\ Capped
  <2>1. Spending!BudgetBounds /\ Spending!Scopes /\ IsFiniteSet(Spender)
    BY ServiceConstants DEF ServiceConstants, Spending!BudgetBounds, Spending!IsFiniteSet, IsFiniteSet
  <2> QED
    BY <2>1, BudgetTypesAtFirst, CappedAtFirst DEF Init
<1>2. BudgetTypes /\ Capped /\ [Next]_vars => (BudgetTypes /\ Capped)'
  <2>1. /\ Spending!Lineage /\ Spending!Scopes /\ Spending!BudgetBounds /\ IsFiniteSet(Spender)
    BY ServiceConstants DEF ServiceConstants, Spending!BudgetBounds, Spending!IsFiniteSet, IsFiniteSet
  <2> SUFFICES ASSUME BudgetTypes, Capped, [Next]_vars PROVE BudgetTypes' /\ Capped'
    OBVIOUS
  <2>2. Spending!Next \/ UNCHANGED budgetVars
    BY BudgetsTheirStep
  <2>3. BudgetTypes'
    BY <2>1, <2>2, BudgetTypesKeep
  <2> QED
    BY <2>1, <2>2, <2>3, CappedKeeps
<1>3. BudgetTypes /\ Capped => CapsHold
  <2>1. /\ Spending!Lineage /\ Spending!Scopes /\ IsFiniteSet(Spender)
    BY ServiceConstants DEF ServiceConstants, Spending!BudgetBounds, Spending!IsFiniteSet, IsFiniteSet
  <2> QED
    BY <2>1, CappedHolds DEF CapsHold
<1> QED
  BY <1>1, <1>2, <1>3, PTL DEF Spec
=============================================================================
