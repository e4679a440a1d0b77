--------------------------- MODULE RequestsProofs ---------------------------
(***************************************************************************)
(* The permission gate, for any number of sessions, of processes and of    *)
(* calls: it implements GatedCalls, and no tool call is left waiting with  *)
(* nothing open that will release it.  Both rest on what a process of the  *)
(* past leaves behind: nothing.  Its calls are gone, its frames are read   *)
(* before the next one starts and its commands were lost with it, so that  *)
(* a name on a pipe is always the name of a call of the process there is.  *)
(***************************************************************************)
EXTENDS Requests, TLAPS

Given == Bounds /\ KnownKinds /\ NobodyIs

Elems(q) == {q[i] : i \in DOMAIN q}

(* Who is up, and that the pipes of the others are empty. *)
Up ==
  /\ alive \subseteq attached
  /\ \A s \in attached : proc[s] # 0
  /\ \A s \in Session \ attached : frames[s] = <<>>
  /\ \A s \in Session \ alive : commands[s] = <<>>

(* A call that waits is a call of the process there is, which awaits its answer. *)
OfNow ==
  \A c \in Call : call[c] = "waiting" =>
    c \in pending /\ c.session \in alive /\ c.proc = proc[c.session]

(* A row was asked before it was answered. *)
RowsAsked ==
  /\ \A s \in Session, n \in Name : approvals[s][n].answer = "none" => approvals[s][n] = NoRow
  /\ \A n \in Name : questions[n].session = Nobody => questions[n] = NoQuestion

(* An allow that is on its way is for a call that is permitted. *)
SentPermitted ==
  \A s \in Session : \A m \in Elems(commands[s]) :
    m.outcome = "allow" => Current(s, m.seq) \in permitted

(* What will release a tool call that waits. *)
Released(c) ==
  \/ c.seq \in Elems(frames[c.session])
  \/ \E m \in Elems(commands[c.session]) : m.seq = c.seq
  \/ approvals[c.session][c.seq].answer = "open"
  \/ [what |-> "approval", session |-> c.session, seq |-> c.seq] \in carrying

Asked == \A c \in Call : (call[c] = "waiting" /\ IsTool(kind[c])) => Released(c)

IndInv == TypeOK /\ Up /\ OfNow /\ RowsAsked /\ SentPermitted /\ Asked

-----------------------------------------------------------------------------
(* Sequences as the sets of their elements. *)

(* Append adds one element. *)
LEMMA ElemsAppend ==
  ASSUME NEW T, NEW q \in Seq(T), NEW x \in T
  PROVE  /\ Append(q, x) \in Seq(T)
         /\ Elems(Append(q, x)) = Elems(q) \union {x}
<1>1. /\ Append(q, x) \in Seq(T)
      /\ DOMAIN q = 1..Len(q) /\ Len(q) \in Nat
      /\ DOMAIN Append(q, x) = 1..(Len(q) + 1)
  OBVIOUS
<1>2. /\ \A i \in DOMAIN q : Append(q, x)[i] = q[i]
      /\ Append(q, x)[Len(q) + 1] = x
  OBVIOUS
<1>3. DOMAIN Append(q, x) = DOMAIN q \union {Len(q) + 1}
  BY <1>1
<1> QED
  BY <1>1, <1>2, <1>3 DEF Elems

(* The elements are the head and those of the tail. *)
LEMMA ElemsHeadTail ==
  ASSUME NEW T, NEW q \in Seq(T), q # <<>>
  PROVE  /\ Tail(q) \in Seq(T) /\ Head(q) \in T
         /\ Elems(q) = Elems(Tail(q)) \union {Head(q)}
<1>1. /\ Tail(q) \in Seq(T) /\ Head(q) \in T
      /\ Len(q) \in Nat /\ Len(q) # 0 /\ DOMAIN q = 1..Len(q)
      /\ DOMAIN Tail(q) = 1..(Len(q) - 1)
      /\ Head(q) = q[1] /\ 1 \in DOMAIN q
  OBVIOUS
<1>2. \A i \in DOMAIN Tail(q) : Tail(q)[i] = q[i + 1] /\ i + 1 \in DOMAIN q
  BY <1>1
<1>3. \A i \in DOMAIN q : i = 1 \/ (i - 1 \in DOMAIN Tail(q) /\ Tail(q)[i - 1] = q[i])
  BY <1>1
<1>4. ASSUME NEW x \in Elems(q) PROVE x \in Elems(Tail(q)) \/ x = Head(q)
  <2>1. PICK i \in DOMAIN q : x = q[i]
    BY DEF Elems
  <2> QED
    BY <1>1, <1>3, <2>1 DEF Elems
<1>5. ASSUME NEW x \in Elems(Tail(q)) PROVE x \in Elems(q)
  <2>1. PICK i \in DOMAIN Tail(q) : x = Tail(q)[i]
    BY DEF Elems
  <2> QED
    BY <1>2, <2>1 DEF Elems
<1>6. Head(q) \in Elems(q)
  BY <1>1 DEF Elems
<1> QED
  BY <1>1, <1>4, <1>5, <1>6

(* An empty one has none. *)
LEMMA ElemsEmpty == Elems(<<>>) = {}
BY DEF Elems

(* A name on a pipe is that of a call. *)
LEMMA CurrentIsCall ==
  ASSUME TypeOK, NEW s \in Session, NEW n \in Name, proc[s] # 0
  PROVE  /\ Current(s, n) \in Call
         /\ Current(s, n).session = s /\ Current(s, n).seq = n /\ Current(s, n).proc = proc[s]
<1>1. proc[s] \in 1..MaxProc
  <2>1. proc[s] \in 0..MaxProc
    BY DEF TypeOK
  <2> QED
    BY <2>1
<1> QED
  BY <1>1 DEF Current, Call, Name

(* A call of the process there is has its name there. *)
LEMMA CallIsCurrent ==
  ASSUME TypeOK, NEW c \in Call, c.proc = proc[c.session]
  PROVE  c = Current(c.session, c.seq) /\ c.session \in Session /\ c.seq \in Name
BY DEF Current, Call, Name

(* What a handle writes: one command, and one call permitted by an allow. *)
LEMMA Responds ==
  ASSUME TypeOK, Up, NEW s \in Session, NEW n \in Name,
         NEW outcome \in {"allow", "deny", "answer"}, Respond(s, n, outcome)
  PROVE  /\ commands' \in [Session -> Seq(Command)]
         /\ \A r \in Session \ {s} : commands'[r] = commands[r]
         /\ s \notin alive => UNCHANGED <<commands, permitted>>
         /\ s \in alive => Elems(commands'[s]) = Elems(commands[s])
                             \union {[seq |-> n, outcome |-> outcome]}
         /\ permitted \subseteq permitted' /\ permitted' \subseteq Call
         /\ s \in alive /\ outcome = "allow" => Current(s, n) \in permitted'
         /\ \/ UNCHANGED permitted
            \/ \E c \in Call : permitted' = permitted \union {c}
<1> DEFINE m == [seq |-> n, outcome |-> outcome]
<1>0. commands \in [Session -> Seq(Command)] /\ permitted \subseteq Call
  BY DEF TypeOK
<1>1. CASE s \notin alive
  BY <1>0, <1>1 DEF Respond
<1>2. CASE s \in alive
  <2>1. m \in Command
    BY DEF Command
  <2>2. /\ commands' = [commands EXCEPT ![s] = Append(@, m)]
        /\ permitted' = IF outcome = "allow" THEN permitted \union {Current(s, n)} ELSE permitted
    BY <1>2 DEF Respond
  <2>3. commands[s] \in Seq(Command)
    BY <1>0
  <2> HIDE DEF m
  <2>4. /\ Append(commands[s], m) \in Seq(Command)
        /\ Elems(Append(commands[s], m)) = Elems(commands[s]) \union {m}
    BY <2>1, <2>3, ElemsAppend
  <2>5. commands' \in [Session -> Seq(Command)] /\ commands'[s] = Append(commands[s], m)
    BY <1>0, <2>2, <2>4
  <2>6. \A r \in Session \ {s} : commands'[r] = commands[r]
    BY <1>0, <2>2
  <2>7. Current(s, n) \in Call
    BY <1>2, CurrentIsCall DEF Up
  <2> QED
    BY <1>0, <1>2, <2>2, <2>4, <2>5, <2>6, <2>7 DEF m
<1> QED
  BY <1>1, <1>2
-----------------------------------------------------------------------------
(* Nothing runs and nothing was asked at first. *)
LEMMA InitHolds == Given /\ Init => IndInv
<1> SUFFICES ASSUME Given, Init PROVE IndInv
  OBVIOUS
<1>1. /\ proc = [s \in Session |-> 0] /\ alive = {} /\ attached = {}
      /\ awaiting = {} /\ carrying = {} /\ pending = {} /\ permitted = {}
      /\ call = [c \in Call |-> "unborn"] /\ kind = [c \in Call |-> "none"]
      /\ frames = [s \in Session |-> <<>>] /\ commands = [s \in Session |-> <<>>]
      /\ writer = Nobody
  BY DEF Init
<1>2. /\ approvals = [s \in Session |-> [n \in Name |-> NoRow]]
      /\ questions = [n \in Name |-> NoQuestion]
  BY DEF Init
<1>3. MaxProc \in Nat
  BY DEF Given, Bounds
<1>4. NoRow \in Approval /\ NoQuestion \in Question
  BY DEF NoRow, NoQuestion, Approval, Question
<1>5. TypeOK
  <2>1. frames \in [Session -> Seq(Name)] /\ commands \in [Session -> Seq(Command)]
    BY <1>1
  <2>2. approvals \in [Session -> [Name -> Approval]] /\ questions \in [Name -> Question]
    BY <1>2, <1>4
  <2>3. proc \in [Session -> 0..MaxProc]
    BY <1>1, <1>3
  <2> QED
    BY <1>1, <2>1, <2>2, <2>3 DEF TypeOK
<1>6. Up
  BY <1>1 DEF Up
<1>7. OfNow /\ Asked
  BY <1>1 DEF OfNow, Asked
<1>8. RowsAsked
  BY <1>2 DEF RowsAsked, NoRow, NoQuestion
<1>9. SentPermitted
  BY <1>1, ElemsEmpty DEF SentPermitted
<1> QED
  BY <1>5, <1>6, <1>7, <1>8, <1>9 DEF IndInv

(* The frame the pump reads: a name, of a call of the process there is. *)
LEMMA PumpReads ==
  ASSUME TypeOK, Up, NEW s \in Session, PumpReadsRequest(s)
  PROVE  /\ s \in attached /\ frames[s] # <<>>
         /\ Head(frames[s]) \in Name
         /\ frames' \in [Session -> Seq(Name)]
         /\ \A r \in Session \ {s} : frames'[r] = frames[r]
         /\ Elems(frames[s]) = Elems(frames'[s]) \union {Head(frames[s])}
         /\ Current(s, Head(frames[s])) \in Call
<1>1. s \in attached /\ frames[s] # <<>> /\ frames' = [frames EXCEPT ![s] = Tail(@)]
  BY DEF PumpReadsRequest
<1>2. frames \in [Session -> Seq(Name)] /\ frames[s] \in Seq(Name)
  BY DEF TypeOK
<1>3. /\ Tail(frames[s]) \in Seq(Name) /\ Head(frames[s]) \in Name
      /\ Elems(frames[s]) = Elems(Tail(frames[s])) \union {Head(frames[s])}
  BY <1>1, <1>2, ElemsHeadTail
<1>4. frames' \in [Session -> Seq(Name)] /\ frames'[s] = Tail(frames[s])
  BY <1>1, <1>2, <1>3
<1>5. \A r \in Session \ {s} : frames'[r] = frames[r]
  BY <1>1, <1>2
<1>6. Current(s, Head(frames[s])) \in Call
  BY <1>1, <1>3, CurrentIsCall DEF Up
<1> QED
  BY <1>1, <1>3, <1>4, <1>5, <1>6

(* What the pump does with it: a question, a request for approval, or an answer. *)
LEMMA PumpDoes ==
  ASSUME TypeOK, Up, NEW s \in Session, PumpReadsRequest(s), NEW n, n = Head(frames[s])
  PROVE  LET c == Current(s, n)
         IN /\ UNCHANGED <<host, attached, carrying, writer>>
            /\ \/ ~IsTool(kind[c]) /\ RaiseQuestion(s, n)
                  /\ UNCHANGED <<approvals, commands, awaiting, permitted>>
               \/ IsTool(kind[c]) /\ Gate(approvals[s][n], kind[c], s) = "ask"
                  /\ RaiseApproval(s, n, kind[c])
                  /\ UNCHANGED <<questions, commands, awaiting, permitted>>
               \/ /\ IsTool(kind[c]) /\ awaiting' = awaiting \union {s} /\ UNCHANGED rows
                  /\ \E verdict \in {"allow", "deny"} : Respond(s, n, verdict)
<1> DEFINE c == Current(s, n)
<1>1. CASE ~IsTool(kind[c])
  BY <1>1 DEF PumpReadsRequest
<1>2. CASE IsTool(kind[c])
  <2> DEFINE verdict == Gate(approvals[s][n], kind[c], s)
  <2>1. verdict \in {"ask", "allow", "deny"}
    BY DEF Gate
  <2>2. /\ UNCHANGED <<host, attached, carrying, writer>>
        /\ \/ /\ verdict = "ask" /\ RaiseApproval(s, n, kind[c])
              /\ UNCHANGED <<questions, commands, awaiting, permitted>>
           \/ /\ verdict # "ask" /\ Respond(s, n, verdict)
              /\ awaiting' = awaiting \union {s} /\ UNCHANGED rows
    BY <1>2 DEF PumpReadsRequest
  <2> HIDE DEF verdict
  <2>3. CASE verdict = "ask"
    BY <1>2, <2>2, <2>3 DEF verdict
  <2>4. CASE verdict # "ask"
    BY <1>2, <2>1, <2>2, <2>4
  <2> QED
    BY <2>3, <2>4
<1> QED
  BY <1>1, <1>2

(* What is carried is answered with one of three outcomes, or thrown away. *)
LEMMA SettleDoes ==
  ASSUME TypeOK, Up, NEW a \in Carried, Settle(a)
  PROVE  /\ a \in carrying /\ carrying' = carrying \ {a}
         /\ a.session \in Session /\ a.seq \in Name
         /\ UNCHANGED <<host, frames, attached, awaiting, rows, writer>>
         /\ \/ a.session \notin attached /\ UNCHANGED <<commands, permitted>>
            \/ \E outcome \in {"allow", "deny", "answer"} : Respond(a.session, a.seq, outcome)
<1>1. OutcomeFor(a) \in {"allow", "deny", "answer"}
  BY DEF OutcomeFor
<1>2. a.session \in Session /\ a.seq \in Name
  BY DEF Carried
<1>3. /\ a \in carrying /\ carrying' = carrying \ {a}
      /\ UNCHANGED <<host, frames, attached, awaiting, rows, writer>>
      /\ IF a.session \in attached THEN Respond(a.session, a.seq, OutcomeFor(a))
         ELSE UNCHANGED <<commands, permitted>>
  BY DEF Settle
<1> QED
  BY <1>1, <1>2, <1>3

(* An answer written on a row keeps the rows' type, and the other rows. *)
LEMMA RowAnswered ==
  ASSUME approvals \in [Session -> [Name -> Approval]],
         NEW s \in Session, NEW n \in Name, NEW answer \in {"approve", "failed", "deny"},
         approvals' = [approvals EXCEPT ![s][n].answer = answer]
  PROVE  /\ approvals' \in [Session -> [Name -> Approval]]
         /\ approvals'[s][n].answer = answer /\ approvals'[s][n].ask = approvals[s][n].ask
         /\ \A r \in Session, m \in Name :
              (r # s \/ m # n) => approvals'[r][m] = approvals[r][m]
<1> DEFINE row == [approvals[s][n] EXCEPT !.answer = answer]
<1>1. approvals[s] \in [Name -> Approval] /\ approvals[s][n] \in Approval
  OBVIOUS
<1>2. row \in Approval /\ row.answer = answer /\ row.ask = approvals[s][n].ask
  BY <1>1 DEF Approval
<1>3. approvals' = [approvals EXCEPT ![s] = [approvals[s] EXCEPT ![n] = row]]
  OBVIOUS
<1> HIDE DEF row
<1>4. [approvals[s] EXCEPT ![n] = row] \in [Name -> Approval]
  BY <1>1, <1>2
<1>5. approvals'[s] = [approvals[s] EXCEPT ![n] = row]
  BY <1>3
<1>6. approvals' \in [Session -> [Name -> Approval]]
  BY <1>3, <1>4
<1>7. approvals'[s][n] = row /\ \A m \in Name \ {n} : approvals'[s][m] = approvals[s][m]
  BY <1>1, <1>5
<1>8. \A r \in Session \ {s} : approvals'[r] = approvals[r]
  BY <1>3
<1> QED
  BY <1>2, <1>6, <1>7, <1>8

(* A request for approval writes a row where there is none, and nothing else. *)
LEMMA RowRaised ==
  ASSUME approvals \in [Session -> [Name -> Approval]],
         NEW s \in Session, NEW n \in Name, NEW k,
         [ask |-> k, answer |-> "open"] \in Approval, RaiseApproval(s, n, k)
  PROVE  /\ approvals' \in [Session -> [Name -> Approval]]
         /\ approvals'[s][n] = IF approvals[s][n] = NoRow
                               THEN [ask |-> k, answer |-> "open"] ELSE approvals[s][n]
         /\ \A r \in Session, m \in Name :
              (r # s \/ m # n) => approvals'[r][m] = approvals[r][m]
<1> DEFINE row == IF approvals[s][n] = NoRow
                  THEN [ask |-> k, answer |-> "open"] ELSE approvals[s][n]
<1>1. approvals[s] \in [Name -> Approval] /\ approvals[s][n] \in Approval
  OBVIOUS
<1>2. row \in Approval
  BY <1>1
<1>3. approvals' = [approvals EXCEPT ![s] = [approvals[s] EXCEPT ![n] = row]]
  BY DEF RaiseApproval
<1> HIDE DEF row
<1>4. [approvals[s] EXCEPT ![n] = row] \in [Name -> Approval]
  BY <1>1, <1>2
<1>5. approvals'[s] = [approvals[s] EXCEPT ![n] = row]
  BY <1>3
<1>6. approvals' \in [Session -> [Name -> Approval]]
  BY <1>3, <1>4
<1>7. approvals'[s][n] = row /\ \A m \in Name \ {n} : approvals'[s][m] = approvals[s][m]
  BY <1>1, <1>5
<1>8. \A r \in Session \ {s} : approvals'[r] = approvals[r]
  BY <1>3
<1> QED
  BY <1>6, <1>7, <1>8 DEF row

-----------------------------------------------------------------------------
(* Every variable keeps its type. *)
LEMMA TypeKeeps ==
  ASSUME Given, TypeOK, Up, RowsAsked, [Next]_vars
  PROVE  TypeOK'
<1>0. /\ proc \in [Session -> 0..MaxProc]
      /\ alive \subseteq Session /\ attached \subseteq Session /\ awaiting \subseteq attached
      /\ call \in [Call -> {"unborn", "waiting", "ran", "refused", "answered", "gone"}]
      /\ kind \in [Call -> Kind \union {"none"}]
      /\ pending \subseteq Call
      /\ frames \in [Session -> Seq(Name)] /\ commands \in [Session -> Seq(Command)]
      /\ approvals \in [Session -> [Name -> Approval]]
      /\ questions \in [Name -> Question]
      /\ carrying \subseteq Carried
      /\ writer \in Session \union {Nobody}
      /\ permitted \subseteq Call
      /\ MaxProc \in Nat
  BY DEF TypeOK, Given, Bounds
<1>1. ASSUME NEW s \in Session, Open(s) PROVE TypeOK'
  <2>1. /\ proc[s] < MaxProc /\ proc' = [proc EXCEPT ![s] = @ + 1]
        /\ alive' = alive \union {s} /\ attached' = attached \union {s}
        /\ UNCHANGED <<call, kind, pending, frames, commands, awaiting, carrying,
                       approvals, questions, writer, permitted>>
    BY <1>1 DEF Open, pipes, rows
  <2>2. proc[s] \in 0..MaxProc
    BY <1>0
  <2>3. proc[s] + 1 \in 0..MaxProc
    BY <1>0, <2>1, <2>2
  <2>4. proc' \in [Session -> 0..MaxProc]
    BY <1>0, <2>1, <2>3
  <2>5. alive' \subseteq Session /\ attached' \subseteq Session /\ awaiting' \subseteq attached'
    BY <1>0, <2>1
  <2> QED
    BY <1>0, <2>1, <2>4, <2>5 DEF TypeOK
<1>2. ASSUME NEW s \in Session, NEW k \in Kind, Raise(s, k) PROVE TypeOK'
  <2>1. PICK n \in Name :
          /\ call' = [call EXCEPT ![Current(s, n)] = "waiting"]
          /\ kind' = [kind EXCEPT ![Current(s, n)] = k]
          /\ pending' = pending \union {Current(s, n)}
          /\ frames' = [frames EXCEPT ![s] = Append(@, n)]
    BY <1>2 DEF Raise
  <2>2. /\ s \in alive
        /\ UNCHANGED <<proc, alive, commands, attached, awaiting, carrying,
                       approvals, questions, writer, permitted>>
    BY <1>2 DEF Raise, server, rows
  <2>3. Current(s, n) \in Call
    BY <2>2, CurrentIsCall DEF Up
  <2>4. frames[s] \in Seq(Name) /\ Append(frames[s], n) \in Seq(Name)
    BY <1>0, ElemsAppend
  <2>5. frames' \in [Session -> Seq(Name)]
    BY <1>0, <2>1, <2>4
  <2> HIDE DEF Name
  <2> QED
    BY <1>0, <2>1, <2>2, <2>3, <2>5 DEF TypeOK
<1>3. ASSUME NEW s \in Session, HostResponds(s) PROVE TypeOK'
  <2>1. PICK c, outcome :
          /\ pending' = pending \ {c}
          /\ call' = IF c \in pending /\ call[c] = "waiting"
                     THEN [call EXCEPT ![c] = OutcomeOf(kind[c], outcome)] ELSE call
    BY <1>3 DEF HostResponds
  <2>2. /\ commands[s] # <<>> /\ commands' = [commands EXCEPT ![s] = Tail(@)]
        /\ UNCHANGED <<proc, alive, kind, frames, attached, awaiting, carrying,
                       approvals, questions, writer, permitted>>
    BY <1>3 DEF HostResponds, server, rows
  <2>3. OutcomeOf(kind[c], outcome) \in {"ran", "answered", "refused"}
    BY DEF OutcomeOf
  <2>4. call' \in [Call -> {"unborn", "waiting", "ran", "refused", "answered", "gone"}]
    BY <1>0, <2>1, <2>3
  <2>5. commands[s] \in Seq(Command)
    BY <1>0
  <2>6. Tail(commands[s]) \in Seq(Command)
    BY <2>2, <2>5, ElemsHeadTail
  <2>7. commands' \in [Session -> Seq(Command)]
    BY <1>0, <2>2, <2>6
  <2>8. pending' \subseteq Call
    BY <1>0, <2>1
  <2> QED
    BY <1>0, <2>2, <2>4, <2>7, <2>8 DEF TypeOK
<1>4. ASSUME NEW s \in Session, HostGoes(s) PROVE TypeOK'
  <2>1. /\ alive' = alive \ {s} /\ pending' = pending \ Of(s)
        /\ call' = [c \in Call |-> IF c \in Of(s) /\ call[c] = "waiting" THEN "gone" ELSE call[c]]
        /\ commands' = [commands EXCEPT ![s] = <<>>]
        /\ UNCHANGED <<proc, kind, frames, attached, awaiting, carrying,
                       approvals, questions, writer, permitted>>
    BY <1>4 DEF HostGoes, server, rows
  <2>2. commands' \in [Session -> Seq(Command)]
    BY <1>0, <2>1
  <2>3. call' \in [Call -> {"unborn", "waiting", "ran", "refused", "answered", "gone"}]
    BY <1>0, <2>1
  <2> QED
    BY <1>0, <2>1, <2>2, <2>3 DEF TypeOK
<1>5. ASSUME NEW s \in Session, PumpReadsRequest(s) PROVE TypeOK'
  <2> DEFINE n == Head(frames[s])
             c == Current(s, n)
  <2>1. /\ s \in attached /\ n \in Name /\ c \in Call
        /\ frames' \in [Session -> Seq(Name)]
    BY <1>5, PumpReads
  <2>2. UNCHANGED <<proc, alive, call, kind, pending, attached, carrying, writer>>
    BY <1>5 DEF PumpReadsRequest, host
  <2>3. CASE ~IsTool(kind[c]) /\ RaiseQuestion(s, n)
             /\ UNCHANGED <<approvals, commands, awaiting, permitted>>
    <3>1. [session |-> s, answered |-> FALSE] \in Question
      BY DEF Question
    <3>2. questions' \in [Name -> Question]
      BY <1>0, <2>1, <2>3, <3>1 DEF RaiseQuestion
    <3> QED
      BY <1>0, <2>1, <2>2, <2>3, <3>2 DEF TypeOK
  <2>4. CASE IsTool(kind[c]) /\ RaiseApproval(s, n, kind[c])
             /\ UNCHANGED <<questions, commands, awaiting, permitted>>
    <3>1. [ask |-> kind[c], answer |-> "open"] \in Approval
      BY <1>0, <2>1, <2>4 DEF Approval
    <3>2. approvals[s] \in [Name -> Approval]
      BY <1>0
    <3>5. approvals' \in [Session -> [Name -> Approval]]
      BY <1>0, <2>1, <2>4, <3>1, RowRaised
    <3> QED
      BY <1>0, <2>1, <2>2, <2>4, <3>5 DEF TypeOK
  <2>5. CASE /\ awaiting' = awaiting \union {s} /\ UNCHANGED rows
             /\ \E verdict \in {"allow", "deny"} : Respond(s, n, verdict)
    <3>1. commands' \in [Session -> Seq(Command)] /\ permitted' \subseteq Call
      BY <2>1, <2>5, Responds
    <3> QED
      BY <1>0, <2>1, <2>2, <2>5, <3>1 DEF TypeOK, rows
  <2> QED
    BY <1>5, <2>1, <2>3, <2>4, <2>5, PumpDoes
<1>6. ASSUME NEW s \in Session, PumpContinues(s) \/ StreamEnds(s) PROVE TypeOK'
  <2>1. /\ UNCHANGED <<proc, alive, call, kind, pending, frames, commands, carrying,
                       approvals, questions, writer, permitted>>
        /\ \/ awaiting' = awaiting \ {s} /\ UNCHANGED attached
           \/ attached' = attached \ {s} /\ s \notin awaiting /\ UNCHANGED awaiting
    BY <1>6 DEF PumpContinues, StreamEnds, host, pipes, rows
  <2>2. attached' \subseteq Session /\ awaiting' \subseteq attached'
    BY <1>0, <2>1
  <2> QED
    BY <1>0, <2>1, <2>2 DEF TypeOK
<1>7. ASSUME NEW c \in Call, SdkTimesOut(c) PROVE TypeOK'
  <2>1. /\ call' = [call EXCEPT ![c] = "refused"]
        /\ UNCHANGED <<proc, alive, kind, pending, frames, commands, attached, awaiting,
                       carrying, approvals, questions, writer, permitted>>
    BY <1>7 DEF SdkTimesOut, pipes, server, rows
  <2> QED
    BY <1>0, <2>1 DEF TypeOK
<1>8. ASSUME NEW s \in Session, NEW n \in Name, NEW decision \in {"approve", "deny"},
             AnswerApproval(s, n, decision)
      PROVE  TypeOK'
  <2>1. /\ approvals' = [approvals EXCEPT ![s][n].answer = decision]
        /\ carrying' = carrying \union {[what |-> "approval", session |-> s, seq |-> n]}
        /\ UNCHANGED <<proc, alive, call, kind, pending, frames, commands, attached, awaiting,
                       questions, writer, permitted>>
    BY <1>8 DEF AnswerApproval, host, pipes
  <2>2. approvals' \in [Session -> [Name -> Approval]]
    BY <1>0, <2>1, RowAnswered
  <2>3. carrying' \subseteq Carried
    BY <1>0, <2>1 DEF Carried
  <2> QED
    BY <1>0, <2>1, <2>2, <2>3 DEF TypeOK
<1>9. ASSUME NEW n \in Name, AnswerQuestion(n) PROVE TypeOK'
  <2>1. /\ questions' = [questions EXCEPT ![n].answered = TRUE]
        /\ carrying' = carrying \union
             {[what |-> "question", session |-> questions[n].session, seq |-> n]}
        /\ questions[n] # NoQuestion
        /\ UNCHANGED <<proc, alive, call, kind, pending, frames, commands, attached, awaiting,
                       approvals, writer, permitted>>
    BY <1>9 DEF AnswerQuestion, host, pipes
  <2>2. questions[n] \in Question
    BY <1>0
  <2>3. questions[n].session \in Session
    BY <2>1, <2>2 DEF RowsAsked, Question
  <2>4. ASSUME NEW t \in BOOLEAN PROVE [questions[n] EXCEPT !.answered = t] \in Question
    BY <2>2 DEF Question
  <2>5. questions' \in [Name -> Question]
    BY <1>0, <2>1, <2>4
  <2>6. carrying' \subseteq Carried
    BY <1>0, <2>1, <2>3 DEF Carried
  <2> QED
    BY <1>0, <2>1, <2>5, <2>6 DEF TypeOK
<1>10. ASSUME NEW a \in Carried, Settle(a) PROVE TypeOK'
  <2>1. /\ carrying' = carrying \ {a} /\ a.session \in Session /\ a.seq \in Name
        /\ UNCHANGED <<proc, alive, call, kind, pending, frames, attached, awaiting,
                       approvals, questions, writer>>
    BY <1>10, SettleDoes DEF host, rows
  <2>2. commands' \in [Session -> Seq(Command)] /\ permitted' \subseteq Call
    <3>1. CASE UNCHANGED <<commands, permitted>>
      BY <1>0, <3>1
    <3>2. ASSUME NEW outcome \in {"allow", "deny", "answer"}, Respond(a.session, a.seq, outcome)
          PROVE  commands' \in [Session -> Seq(Command)] /\ permitted' \subseteq Call
      BY <2>1, <3>2, Responds
    <3> QED
      BY <1>10, <3>1, <3>2, SettleDoes
  <2> QED
    BY <1>0, <2>1, <2>2 DEF TypeOK
<1>11. ASSUME NEW a \in Carried, EffectFails(a) PROVE TypeOK'
  <2>1. /\ approvals' = [approvals EXCEPT ![a.session][a.seq].answer = "failed"]
        /\ UNCHANGED <<proc, alive, call, kind, pending, frames, commands, attached, awaiting,
                       carrying, questions, writer, permitted>>
    BY <1>11 DEF EffectFails, host, pipes, server
  <2>2. a.session \in Session /\ a.seq \in Name
    BY DEF Carried
  <2>3. approvals' \in [Session -> [Name -> Approval]]
    BY <1>0, <2>1, <2>2, RowAnswered
  <2> QED
    BY <1>0, <2>1, <2>3 DEF TypeOK
<1>12. CASE ClaimMoves
  <2>1. /\ writer' \in Session \union {Nobody}
        /\ UNCHANGED <<proc, alive, call, kind, pending, frames, commands, attached, awaiting,
                       carrying, approvals, questions, permitted>>
    BY <1>12 DEF ClaimMoves, host, pipes, server, rows
  <2> QED
    BY <1>0, <2>1 DEF TypeOK
<1>13. CASE Crash
  <2>1. /\ alive' = {} /\ attached' = {} /\ awaiting' = {} /\ carrying' = {} /\ pending' = {}
        /\ call' = [c \in Call |-> IF call[c] = "waiting" THEN "gone" ELSE call[c]]
        /\ frames' = [s \in Session |-> <<>>] /\ commands' = [s \in Session |-> <<>>]
        /\ UNCHANGED <<proc, kind, approvals, questions, writer, permitted>>
    BY <1>13 DEF Crash, rows
  <2>2. frames' \in [Session -> Seq(Name)] /\ commands' \in [Session -> Seq(Command)]
    BY <2>1
  <2>3. call' \in [Call -> {"unborn", "waiting", "ran", "refused", "answered", "gone"}]
    BY <1>0, <2>1
  <2> QED
    BY <1>0, <2>1, <2>2, <2>3 DEF TypeOK
<1>14. CASE UNCHANGED vars
  BY <1>14 DEF TypeOK, vars, host, pipes, server, rows
<1> QED
  BY <1>1, <1>2, <1>3, <1>4, <1>5, <1>6, <1>7, <1>8, <1>9, <1>10, <1>11, <1>12,
     <1>13, <1>14 DEF Next, Host, Pump, Answers, Carrier

-----------------------------------------------------------------------------
(* Who is up when a step was taken, and what its pipes hold. *)
LEMMA UpKeeps ==
  ASSUME Given, TypeOK, Up, [Next]_vars
  PROVE  Up'
<1>0. /\ proc \in [Session -> 0..MaxProc] /\ MaxProc \in Nat
      /\ alive \subseteq attached /\ attached \subseteq Session /\ awaiting \subseteq attached
      /\ frames \in [Session -> Seq(Name)] /\ commands \in [Session -> Seq(Command)]
      /\ \A s \in attached : proc[s] # 0
      /\ \A s \in Session \ attached : frames[s] = <<>>
      /\ \A s \in Session \ alive : commands[s] = <<>>
  BY DEF TypeOK, Up, Given, Bounds
<1>1. ASSUME NEW s \in Session, Open(s) PROVE Up'
  <2>1. /\ proc[s] < MaxProc /\ proc' = [proc EXCEPT ![s] = @ + 1]
        /\ alive' = alive \union {s} /\ attached' = attached \union {s}
        /\ UNCHANGED <<frames, commands>>
    BY <1>1 DEF Open, pipes
  <2>2. \A r \in Session : proc'[r] = IF r = s THEN proc[r] + 1 ELSE proc[r]
    BY <1>0, <2>1
  <2>3. proc[s] + 1 # 0
    <3>1. proc[s] \in 0..MaxProc
      BY <1>0
    <3> QED
      BY <3>1
  <2> QED
    BY <1>0, <2>1, <2>2, <2>3 DEF Up
<1>2. ASSUME NEW s \in Session, NEW k \in Kind, Raise(s, k) PROVE Up'
  <2>1. /\ s \in alive /\ UNCHANGED <<proc, alive, attached, commands>>
        /\ \A r \in Session \ {s} : frames'[r] = frames[r]
    BY <1>0, <1>2 DEF Raise, server
  <2> QED
    BY <1>0, <2>1 DEF Up
<1>3. ASSUME NEW s \in Session, HostResponds(s) PROVE Up'
  <2>1. /\ s \in alive /\ UNCHANGED <<proc, alive, attached, frames>>
        /\ \A r \in Session \ {s} : commands'[r] = commands[r]
    BY <1>0, <1>3 DEF HostResponds, server
  <2> QED
    BY <1>0, <2>1 DEF Up
<1>4. ASSUME NEW s \in Session, HostGoes(s) PROVE Up'
  <2>1. /\ alive' = alive \ {s} /\ UNCHANGED <<proc, attached, frames>>
        /\ \A r \in Session : commands'[r] = IF r = s THEN <<>> ELSE commands[r]
    BY <1>0, <1>4 DEF HostGoes, server
  <2> QED
    BY <1>0, <2>1 DEF Up
<1>5. ASSUME NEW s \in Session, PumpReadsRequest(s) PROVE Up'
  <2> DEFINE n == Head(frames[s])
  <2>1. /\ s \in attached /\ n \in Name
        /\ \A r \in Session \ {s} : frames'[r] = frames[r]
    BY <1>5, PumpReads
  <2>2. UNCHANGED <<proc, alive, attached>>
    BY <1>5 DEF PumpReadsRequest, host
  <2>3. UNCHANGED commands \/ \E verdict \in {"allow", "deny"} : Respond(s, n, verdict)
    BY <1>5, PumpDoes
  <2>4. \A r \in Session \ alive : commands'[r] = commands[r]
    <3>1. ASSUME NEW verdict \in {"allow", "deny"}, Respond(s, n, verdict)
          PROVE  \A r \in Session \ alive : commands'[r] = commands[r]
      BY <2>1, <3>1, Responds
    <3> QED
      BY <2>3, <3>1
  <2> QED
    BY <1>0, <2>1, <2>2, <2>4 DEF Up
<1>6. ASSUME NEW s \in Session, StreamEnds(s) PROVE Up'
  <2>1. /\ s \notin alive /\ frames[s] = <<>> /\ attached' = attached \ {s}
        /\ UNCHANGED <<proc, alive, frames, commands>>
    BY <1>6 DEF StreamEnds, host, pipes
  <2> QED
    BY <1>0, <2>1 DEF Up
<1>7. ASSUME NEW a \in Carried, Settle(a) PROVE Up'
  <2>1. a.session \in Session /\ a.seq \in Name /\ UNCHANGED <<proc, alive, attached, frames>>
    BY <1>7, SettleDoes DEF host
  <2>2. \A r \in Session \ alive : commands'[r] = commands[r]
    <3>1. ASSUME NEW outcome \in {"allow", "deny", "answer"}, Respond(a.session, a.seq, outcome)
          PROVE  \A r \in Session \ alive : commands'[r] = commands[r]
      BY <2>1, <3>1, Responds
    <3> QED
      BY <1>7, <3>1, SettleDoes
  <2> QED
    BY <1>0, <2>1, <2>2 DEF Up
<1>8. CASE Crash
  <2>1. /\ alive' = {} /\ attached' = {} /\ UNCHANGED proc
        /\ frames' = [s \in Session |-> <<>>] /\ commands' = [s \in Session |-> <<>>]
    BY <1>8 DEF Crash
  <2> QED
    BY <2>1 DEF Up
<1>9. CASE UNCHANGED <<proc, alive, attached, frames, commands>>
  BY <1>9 DEF Up
<1>10. ASSUME NEW s \in Session, PumpContinues(s)
       PROVE  UNCHANGED <<proc, alive, attached, frames, commands>>
  BY <1>10 DEF PumpContinues, host, pipes
<1>11. ASSUME NEW c \in Call, SdkTimesOut(c)
       PROVE  UNCHANGED <<proc, alive, attached, frames, commands>>
  BY <1>11 DEF SdkTimesOut, pipes, server
<1>12. ASSUME Answers PROVE UNCHANGED <<proc, alive, attached, frames, commands>>
  BY <1>12 DEF Answers, AnswerApproval, AnswerQuestion, host, pipes
<1>13. ASSUME NEW a \in Carried, EffectFails(a)
       PROVE  UNCHANGED <<proc, alive, attached, frames, commands>>
  BY <1>13 DEF EffectFails, host, pipes, server
<1>14. ASSUME ClaimMoves \/ UNCHANGED vars
       PROVE  UNCHANGED <<proc, alive, attached, frames, commands>>
  BY <1>14 DEF ClaimMoves, vars, host, pipes, server
<1> QED
  BY <1>1, <1>2, <1>3, <1>4, <1>5, <1>6, <1>7, <1>8, <1>9, <1>10, <1>11, <1>12,
     <1>13, <1>14 DEF Next, Host, Pump, Carrier

(* A call that waits stays a call of the process there is. *)
LEMMA OfNowKeeps ==
  ASSUME Given, TypeOK, Up, OfNow, [Next]_vars
  PROVE  OfNow'
<1>0. /\ proc \in [Session -> 0..MaxProc]
      /\ call \in [Call -> {"unborn", "waiting", "ran", "refused", "answered", "gone"}]
      /\ alive \subseteq Session /\ alive \subseteq attached
      /\ \A c \in Call : call[c] = "waiting" =>
           c \in pending /\ c.session \in alive /\ c.proc = proc[c.session]
      /\ \A c \in Call : c.session \in Session
  BY DEF TypeOK, Up, OfNow, Call
<1>1. ASSUME NEW s \in Session, Open(s) PROVE OfNow'
  <2>1. /\ s \notin alive /\ alive' = alive \union {s} /\ UNCHANGED <<call, pending>>
        /\ proc' = [proc EXCEPT ![s] = @ + 1]
    BY <1>1 DEF Open
  <2>2. \A r \in Session \ {s} : proc'[r] = proc[r]
    BY <1>0, <2>1
  <2> QED
    BY <1>0, <2>1, <2>2 DEF OfNow
<1>2. ASSUME NEW s \in Session, NEW k \in Kind, Raise(s, k) PROVE OfNow'
  <2>1. /\ s \in alive /\ UNCHANGED <<proc, alive>>
    BY <1>2 DEF Raise
  <2>2. PICK n \in Name : /\ call' = [call EXCEPT ![Current(s, n)] = "waiting"]
                          /\ pending' = pending \union {Current(s, n)}
    BY <1>2 DEF Raise
  <2>3. Current(s, n) \in Call /\ Current(s, n).session = s /\ Current(s, n).proc = proc[s]
    BY <1>0, <2>1, CurrentIsCall DEF Up
  <2> QED
    BY <1>0, <2>1, <2>2, <2>3 DEF OfNow
<1>3. ASSUME NEW s \in Session, HostResponds(s) PROVE OfNow'
  <2> DEFINE c == Current(s, Head(commands[s]).seq)
             outcome == Head(commands[s]).outcome
  <2>1. /\ UNCHANGED <<proc, alive>> /\ pending' = pending \ {c}
        /\ call' = IF c \in pending /\ call[c] = "waiting"
                   THEN [call EXCEPT ![c] = OutcomeOf(kind[c], outcome)] ELSE call
    BY <1>3 DEF HostResponds
  <2>2. OutcomeOf(kind[c], outcome) # "waiting"
    BY DEF OutcomeOf
  <2> HIDE DEF c, outcome
  <2>3. ASSUME NEW d \in Call, call'[d] = "waiting" PROVE call[d] = "waiting" /\ d # c
    BY <1>0, <2>1, <2>2, <2>3
  <2> QED
    BY <1>0, <2>1, <2>3 DEF OfNow
<1>4. ASSUME NEW s \in Session, HostGoes(s) PROVE OfNow'
  <2>1. /\ UNCHANGED proc /\ alive' = alive \ {s} /\ pending' = pending \ Of(s)
        /\ call' = [c \in Call |-> IF c \in Of(s) /\ call[c] = "waiting" THEN "gone" ELSE call[c]]
    BY <1>4 DEF HostGoes
  <2>2. ASSUME NEW d \in Call, call'[d] = "waiting"
        PROVE  call[d] = "waiting" /\ d \notin Of(s) /\ d.session # s
    BY <1>0, <2>1, <2>2 DEF Of
  <2> QED
    BY <1>0, <2>1, <2>2 DEF OfNow
<1>5. ASSUME NEW c \in Call, SdkTimesOut(c) PROVE OfNow'
  <2>1. UNCHANGED <<proc, alive, pending>> /\ call' = [call EXCEPT ![c] = "refused"]
    BY <1>5 DEF SdkTimesOut
  <2> QED
    BY <1>0, <2>1 DEF OfNow
<1>6. CASE Crash
  <2>1. call' = [c \in Call |-> IF call[c] = "waiting" THEN "gone" ELSE call[c]]
    BY <1>6 DEF Crash
  <2> QED
    BY <1>0, <2>1 DEF OfNow
<1>7. CASE UNCHANGED <<proc, alive, call, pending>>
  BY <1>7 DEF OfNow
<1>8. ASSUME NEW s \in Session, Pump(s) PROVE UNCHANGED <<proc, alive, call, pending>>
  BY <1>8 DEF Pump, PumpReadsRequest, PumpContinues, StreamEnds, host
<1>9. ASSUME Answers PROVE UNCHANGED <<proc, alive, call, pending>>
  BY <1>9 DEF Answers, AnswerApproval, AnswerQuestion, host
<1>10. ASSUME Carrier PROVE UNCHANGED <<proc, alive, call, pending>>
  BY <1>10 DEF Carrier, Settle, EffectFails, host
<1>11. ASSUME ClaimMoves \/ UNCHANGED vars PROVE UNCHANGED <<proc, alive, call, pending>>
  BY <1>11 DEF ClaimMoves, vars, host
<1> QED
  BY <1>1, <1>2, <1>3, <1>4, <1>5, <1>6, <1>7, <1>8, <1>9, <1>10, <1>11 DEF Next, Host

(* A row stays asked. *)
LEMMA RowsKeep ==
  ASSUME Given, TypeOK, Up, RowsAsked, [Next]_vars
  PROVE  RowsAsked'
<1>0. /\ approvals \in [Session -> [Name -> Approval]] /\ questions \in [Name -> Question]
      /\ \A s \in Session, n \in Name : approvals[s][n].answer = "none" => approvals[s][n] = NoRow
      /\ \A n \in Name : questions[n].session = Nobody => questions[n] = NoQuestion
      /\ Nobody \notin Session
      /\ kind \in [Call -> Kind \union {"none"}] /\ attached \subseteq Session
  BY DEF TypeOK, RowsAsked, Given, NobodyIs
<1>1. ASSUME NEW s \in Session, PumpReadsRequest(s) PROVE RowsAsked'
  <2> DEFINE n == Head(frames[s])
             c == Current(s, n)
  <2>1. n \in Name /\ c \in Call
    BY <1>1, PumpReads
  <2>2. CASE RaiseQuestion(s, n) /\ UNCHANGED approvals
    <3>1. questions' = [questions EXCEPT ![n] =
             IF questions[n] = NoQuestion THEN [session |-> s, answered |-> FALSE] ELSE questions[n]]
      BY <2>2 DEF RaiseQuestion
    <3>2. [session |-> s, answered |-> FALSE].session # Nobody
      BY <1>0
    <3> HIDE DEF n, c
    <3>3. \A m \in Name : questions'[m].session = Nobody => questions'[m] = NoQuestion
      BY <1>0, <2>1, <3>1, <3>2
    <3> QED
      BY <1>0, <2>2, <3>3 DEF RowsAsked
  <2>3. CASE IsTool(kind[c]) /\ RaiseApproval(s, n, kind[c]) /\ UNCHANGED questions
    <3>1. [ask |-> kind[c], answer |-> "open"] \in Approval
      BY <1>0, <2>1, <2>3 DEF Approval
    <3> HIDE DEF n, c
    <3>2. /\ approvals'[s][n] = IF approvals[s][n] = NoRow
                                THEN [ask |-> kind[c], answer |-> "open"] ELSE approvals[s][n]
          /\ \A r \in Session, m \in Name :
               (r # s \/ m # n) => approvals'[r][m] = approvals[r][m]
      BY <1>0, <2>1, <2>3, <3>1, RowRaised
    <3>3. approvals'[s][n].answer = "none" => approvals'[s][n] = NoRow
      BY <1>0, <2>1, <3>2
    <3> QED
      BY <1>0, <2>3, <3>2, <3>3 DEF RowsAsked
  <2>4. CASE UNCHANGED rows
    BY <1>0, <2>4 DEF RowsAsked, rows
  <2> QED
    BY <1>1, <2>1, <2>2, <2>3, <2>4, PumpDoes
<1>2. ASSUME NEW s \in Session, NEW n \in Name, NEW answer \in {"approve", "failed", "deny"},
             approvals' = [approvals EXCEPT ![s][n].answer = answer], UNCHANGED questions
      PROVE  RowsAsked'
  <2>1. /\ approvals'[s][n].answer = answer
        /\ \A r \in Session, m \in Name :
             (r # s \/ m # n) => approvals'[r][m] = approvals[r][m]
    BY <1>0, <1>2, RowAnswered
  <2> QED
    BY <1>0, <1>2, <2>1 DEF RowsAsked
<1>3. ASSUME NEW s \in Session, NEW n \in Name, NEW decision \in {"approve", "deny"},
             AnswerApproval(s, n, decision)
      PROVE  RowsAsked'
  BY <1>3, <1>2 DEF AnswerApproval
<1>4. ASSUME NEW a \in Carried, EffectFails(a) PROVE RowsAsked'
  <2>1. a.session \in Session /\ a.seq \in Name
    BY DEF Carried
  <2> QED
    BY <1>4, <2>1, <1>2 DEF EffectFails
<1>5. ASSUME NEW n \in Name, AnswerQuestion(n) PROVE RowsAsked'
  <2>1. /\ questions[n] # NoQuestion /\ UNCHANGED approvals
        /\ questions' = [questions EXCEPT ![n] = [questions[n] EXCEPT !.answered = TRUE]]
    BY <1>5 DEF AnswerQuestion
  <2>2. questions[n] \in Question
    BY <1>0
  <2>3. ASSUME NEW t \in BOOLEAN PROVE [questions[n] EXCEPT !.answered = t].session = questions[n].session
    BY <2>2 DEF Question
  <2>4. questions'[n].session = questions[n].session
    BY <1>0, <2>1, <2>3
  <2>5. \A m \in Name \ {n} : questions'[m] = questions[m]
    BY <1>0, <2>1
  <2> QED
    BY <1>0, <2>1, <2>4, <2>5 DEF RowsAsked
<1>6. CASE UNCHANGED rows
  BY <1>0, <1>6 DEF RowsAsked, rows
<1>7. ASSUME NEW s \in Session, Host(s) \/ PumpContinues(s) \/ StreamEnds(s)
      PROVE  UNCHANGED rows
  BY <1>7 DEF Host, Open, Raise, HostResponds, HostGoes, PumpContinues, StreamEnds
<1>8. ASSUME NEW c \in Call, SdkTimesOut(c) PROVE UNCHANGED rows
  BY <1>8 DEF SdkTimesOut
<1>9. ASSUME NEW a \in Carried, Settle(a) PROVE UNCHANGED rows
  BY <1>9 DEF Settle
<1>10. ASSUME ClaimMoves \/ Crash \/ UNCHANGED vars PROVE UNCHANGED rows
  BY <1>10 DEF ClaimMoves, Crash, vars
<1> QED
  BY <1>1, <1>3, <1>4, <1>5, <1>6, <1>7, <1>8, <1>9, <1>10 DEF Next, Pump, Answers, Carrier

-----------------------------------------------------------------------------
(* An allow stays permitted while it is on its way. *)
LEMMA SentKeeps ==
  ASSUME Given, TypeOK, Up, SentPermitted, [Next]_vars
  PROVE  SentPermitted'
<1>0. /\ proc \in [Session -> 0..MaxProc]
      /\ frames \in [Session -> Seq(Name)] /\ commands \in [Session -> Seq(Command)]
      /\ \A s \in Session : \A m \in Elems(commands[s]) :
           m.outcome = "allow" => Current(s, m.seq) \in permitted
      /\ \A s \in Session \ alive : Elems(commands[s]) = {}
      /\ alive \subseteq attached /\ attached \subseteq Session
  BY ElemsEmpty DEF TypeOK, Up, SentPermitted
<1>1. ASSUME NEW s \in Session, Open(s) PROVE SentPermitted'
  <2>1. /\ s \notin alive /\ UNCHANGED <<commands, permitted>>
        /\ proc' = [proc EXCEPT ![s] = @ + 1]
    BY <1>1 DEF Open, pipes
  <2>2. \A r \in Session \ {s} : proc'[r] = proc[r]
    BY <1>0, <2>1
  <2>3. ASSUME NEW r \in Session, NEW m \in Elems(commands'[r]), m.outcome = "allow"
        PROVE  [session |-> r, proc |-> proc'[r], seq |-> m.seq] \in permitted'
    <3>1. m \in Elems(commands[r]) /\ r # s
      BY <1>0, <2>1
    <3> QED
      BY <1>0, <2>1, <2>2, <2>3, <3>1 DEF Current
  <2> QED
    BY <2>3 DEF SentPermitted, Current, Elems
<1>r. ASSUME UNCHANGED proc, permitted \subseteq permitted',
             \A s \in Session : \A m \in Elems(commands'[s]) :
               m.outcome = "allow" => (m \in Elems(commands[s]) \/ Current(s, m.seq) \in permitted')
      PROVE  SentPermitted'
  BY <1>0, <1>r DEF SentPermitted, Current, Elems
<1>2. ASSUME NEW s \in Session, HostResponds(s) PROVE SentPermitted'
  <2>1. /\ UNCHANGED <<proc, permitted>> /\ commands[s] # <<>>
        /\ commands' = [commands EXCEPT ![s] = Tail(@)]
    BY <1>2 DEF HostResponds
  <2>2. commands[s] \in Seq(Command)
    BY <1>0
  <2>3. Elems(Tail(commands[s])) \subseteq Elems(commands[s])
    BY <2>1, <2>2, ElemsHeadTail
  <2>4. /\ commands'[s] = Tail(commands[s])
        /\ \A r \in Session \ {s} : commands'[r] = commands[r]
    BY <1>0, <2>1
  <2> QED
    BY <2>1, <2>3, <2>4, <1>r
<1>3. ASSUME NEW s \in Session, HostGoes(s) PROVE SentPermitted'
  <2>1. /\ UNCHANGED <<proc, permitted>>
        /\ \A r \in Session : commands'[r] = IF r = s THEN <<>> ELSE commands[r]
    BY <1>0, <1>3 DEF HostGoes
  <2> QED
    BY <2>1, <1>r, ElemsEmpty
<1>4. ASSUME NEW s \in Session, NEW n \in Name, NEW outcome \in {"allow", "deny", "answer"},
             Respond(s, n, outcome), UNCHANGED proc
      PROVE  SentPermitted'
  <2> DEFINE m == [seq |-> n, outcome |-> outcome]
  <2>1. /\ permitted \subseteq permitted'
        /\ \A r \in Session \ {s} : commands'[r] = commands[r]
        /\ s \notin alive => UNCHANGED commands
        /\ s \in alive => Elems(commands'[s]) = Elems(commands[s]) \union {m}
        /\ s \in alive /\ outcome = "allow" => Current(s, n) \in permitted'
    BY <1>4, Responds
  <2>2. m.seq = n /\ m.outcome = outcome
    OBVIOUS
  <2> HIDE DEF m
  <2>3. ASSUME NEW r \in Session, NEW x \in Elems(commands'[r]), x.outcome = "allow"
        PROVE  x \in Elems(commands[r]) \/ Current(r, x.seq) \in permitted'
    BY <2>1, <2>2, <2>3
  <2> QED
    BY <1>4, <2>1, <2>3, <1>r
<1>5. ASSUME NEW s \in Session, PumpReadsRequest(s) PROVE SentPermitted'
  <2> DEFINE n == Head(frames[s])
  <2>1. n \in Name /\ UNCHANGED proc
    BY <1>5, PumpReads DEF PumpReadsRequest, host
  <2>2. \/ UNCHANGED <<commands, permitted>>
        \/ \E verdict \in {"allow", "deny"} : Respond(s, n, verdict)
    BY <1>5, PumpDoes
  <2>3. CASE UNCHANGED <<commands, permitted>>
    BY <2>1, <2>3, <1>r
  <2>4. ASSUME NEW verdict \in {"allow", "deny"}, Respond(s, n, verdict) PROVE SentPermitted'
    BY <2>1, <2>4, <1>4
  <2> QED
    BY <2>2, <2>3, <2>4
<1>6. ASSUME NEW a \in Carried, Settle(a) PROVE SentPermitted'
  <2>1. a.session \in Session /\ a.seq \in Name /\ UNCHANGED proc
    BY <1>6, SettleDoes DEF host
  <2>2. CASE UNCHANGED <<commands, permitted>>
    BY <2>1, <2>2, <1>r
  <2>3. ASSUME NEW outcome \in {"allow", "deny", "answer"}, Respond(a.session, a.seq, outcome)
        PROVE  SentPermitted'
    BY <2>1, <2>3, <1>4
  <2> QED
    BY <1>6, <2>2, <2>3, SettleDoes
<1>7. CASE Crash
  <2>1. UNCHANGED <<proc, permitted>> /\ \A s \in Session : commands'[s] = <<>>
    BY <1>7 DEF Crash
  <2> QED
    BY <2>1, <1>r, ElemsEmpty
<1>8. ASSUME UNCHANGED <<proc, commands, permitted>> PROVE SentPermitted'
  BY <1>8, <1>r
<1>9. ASSUME NEW s \in Session, NEW k \in Kind, Raise(s, k)
      PROVE  UNCHANGED <<proc, commands, permitted>>
  BY <1>9 DEF Raise
<1>10. ASSUME NEW s \in Session, PumpContinues(s) \/ StreamEnds(s)
       PROVE  UNCHANGED <<proc, commands, permitted>>
  BY <1>10 DEF PumpContinues, StreamEnds, host, pipes
<1>11. ASSUME NEW c \in Call, SdkTimesOut(c) PROVE UNCHANGED <<proc, commands, permitted>>
  BY <1>11 DEF SdkTimesOut, pipes
<1>12. ASSUME Answers PROVE UNCHANGED <<proc, commands, permitted>>
  BY <1>12 DEF Answers, AnswerApproval, AnswerQuestion, host, pipes
<1>13. ASSUME NEW a \in Carried, EffectFails(a) PROVE UNCHANGED <<proc, commands, permitted>>
  BY <1>13 DEF EffectFails, host, pipes
<1>14. ASSUME ClaimMoves \/ UNCHANGED vars PROVE UNCHANGED <<proc, commands, permitted>>
  BY <1>14 DEF ClaimMoves, vars, host, pipes
<1> QED
  BY <1>1, <1>2, <1>3, <1>5, <1>6, <1>7, <1>8, <1>9, <1>10, <1>11, <1>12, <1>13, <1>14
     DEF Next, Host, Pump, Carrier

(* A call that is released stays so, while what releases it is there. *)
LEMMA ReleasedStays ==
  ASSUME NEW c, Released(c),
         Elems(frames[c.session]) \subseteq Elems(frames'[c.session]),
         Elems(commands[c.session]) \subseteq Elems(commands'[c.session]),
         approvals[c.session][c.seq].answer = "open" =>
           \/ approvals'[c.session][c.seq].answer = "open"
           \/ [what |-> "approval", session |-> c.session, seq |-> c.seq] \in carrying',
         carrying \subseteq carrying'
  PROVE  Released(c)'
BY DEF Released, Elems

(* No step leaves a tool call waiting with nothing that will release it. *)
LEMMA AskedKeeps ==
  ASSUME Given, TypeOK, Up, OfNow, RowsAsked, Asked, [Next]_vars
  PROVE  Asked'
<1>0. /\ call \in [Call -> {"unborn", "waiting", "ran", "refused", "answered", "gone"}]
      /\ kind \in [Call -> Kind \union {"none"}]
      /\ frames \in [Session -> Seq(Name)] /\ commands \in [Session -> Seq(Command)]
      /\ approvals \in [Session -> [Name -> Approval]]
      /\ proc \in [Session -> 0..MaxProc]
      /\ alive \subseteq attached /\ attached \subseteq Session
      /\ \A s \in attached : proc[s] # 0
  BY DEF TypeOK, Up
<1>a. ASSUME NEW c \in Call, call[c] = "waiting"
      PROVE  /\ c \in pending /\ c.session \in alive /\ c.session \in Session /\ c.seq \in Name
             /\ c = Current(c.session, c.seq)
             /\ IsTool(kind[c]) => Released(c)
  BY <1>a, CallIsCurrent DEF OfNow, Asked, Call, Name
<1>k. ASSUME UNCHANGED kind,
             \A c \in Call : call'[c] = "waiting" => call[c] = "waiting",
             \A c \in Call : call'[c] = "waiting" /\ Released(c) => Released(c)'
      PROVE  Asked'
  BY <1>k DEF Asked
<1>q. ASSUME UNCHANGED <<kind, frames, commands, approvals, carrying>>,
             \A c \in Call : call'[c] = "waiting" => call[c] = "waiting"
      PROVE  Asked'
  <2>1. ASSUME NEW c \in Call, Released(c) PROVE Released(c)'
    BY <1>q, <2>1 DEF Released, Elems
  <2> QED
    BY <1>q, <2>1, <1>k
<1>1. ASSUME NEW s \in Session, Open(s) PROVE Asked'
  BY <1>1, <1>q DEF Open, pipes, rows
<1>2. ASSUME NEW s \in Session, NEW k \in Kind, Raise(s, k) PROVE Asked'
  <2>1. PICK n \in Name :
          /\ call' = [call EXCEPT ![Current(s, n)] = "waiting"]
          /\ kind' = [kind EXCEPT ![Current(s, n)] = k]
          /\ frames' = [frames EXCEPT ![s] = Append(@, n)]
    BY <1>2 DEF Raise
  <2>2. s \in alive /\ UNCHANGED <<commands, approvals, carrying>>
    BY <1>2 DEF Raise, server, rows
  <2>3. Current(s, n) \in Call /\ Current(s, n).session = s /\ Current(s, n).seq = n
    BY <1>0, <2>2, CurrentIsCall
  <2>4. /\ frames'[s] = Append(frames[s], n) /\ frames[s] \in Seq(Name)
        /\ \A r \in Session \ {s} : frames'[r] = frames[r]
    BY <1>0, <2>1
  <2>5. Elems(frames'[s]) = Elems(frames[s]) \union {n}
    BY <2>4, ElemsAppend
  <2>6. ASSUME NEW c \in Call, call'[c] = "waiting", IsTool(kind'[c]) PROVE Released(c)'
    <3>1. CASE c = Current(s, n)
      <4>1. c.seq \in Elems(frames'[c.session])
        BY <2>3, <2>5, <3>1
      <4> QED
        BY <4>1 DEF Released, Elems
    <3>2. CASE c # Current(s, n)
      <4>1. call[c] = "waiting" /\ IsTool(kind[c])
        BY <1>0, <2>1, <2>6, <3>2
      <4>2. Released(c) /\ c.session \in Session
        BY <4>1, <1>a
      <4>3. Elems(frames[c.session]) \subseteq Elems(frames'[c.session])
        BY <4>2, <2>4, <2>5
      <4> QED
        BY <2>2, <4>2, <4>3, ReleasedStays
    <3> QED
      BY <3>1, <3>2
  <2> QED
    BY <2>6 DEF Asked
<1>3. ASSUME NEW s \in Session, HostResponds(s) PROVE Asked'
  <2> DEFINE m == Head(commands[s])
             d == Current(s, m.seq)
  <2>1. /\ s \in alive /\ commands[s] # <<>> /\ commands' = [commands EXCEPT ![s] = Tail(@)]
        /\ UNCHANGED <<kind, frames, approvals, carrying>>
    BY <1>3 DEF HostResponds, server, rows
  <2>2. call' = IF d \in pending /\ call[d] = "waiting"
                THEN [call EXCEPT ![d] = OutcomeOf(kind[d], m.outcome)] ELSE call
    BY <1>3 DEF HostResponds
  <2>3. OutcomeOf(kind[d], m.outcome) # "waiting"
    BY DEF OutcomeOf
  <2>4. commands[s] \in Seq(Command)
    BY <1>0
  <2>5. Elems(commands[s]) = Elems(Tail(commands[s])) \union {m}
    BY <2>1, <2>4, ElemsHeadTail
  <2>6. commands'[s] = Tail(commands[s]) /\ \A r \in Session \ {s} : commands'[r] = commands[r]
    BY <1>0, <2>1
  <2> HIDE DEF m
  <2>7. ASSUME NEW c \in Call, call'[c] = "waiting" PROVE call[c] = "waiting" /\ c # d
    <3>1. call[c] = "waiting"
      BY <1>0, <2>2, <2>3, <2>7
    <3>2. c \in pending
      BY <3>1, <1>a
    <3> QED
      BY <1>0, <2>2, <2>3, <2>7, <3>1, <3>2
  <2>8. ASSUME NEW c \in Call, call'[c] = "waiting", Released(c) PROVE Released(c)'
    <3>1. call[c] = "waiting" /\ c # d /\ c = Current(c.session, c.seq) /\ c.session \in Session
      BY <2>7, <2>8, <1>a
    <3>2. CASE \E x \in Elems(commands[c.session]) : x.seq = c.seq
      <4>1. PICK x \in Elems(commands[c.session]) : x.seq = c.seq
        BY <3>2
      <4>2. x \in Elems(commands'[c.session])
        <5>1. CASE c.session # s
          BY <3>1, <4>1, <5>1, <2>6
        <5>2. CASE c.session = s
          <6>1. x # m
            BY <3>1, <4>1, <5>2
          <6> QED
            BY <2>5, <2>6, <4>1, <5>2, <6>1
        <5> QED
          BY <5>1, <5>2
      <4> QED
        BY <4>1, <4>2 DEF Released, Elems
    <3>3. CASE ~ \E x \in Elems(commands[c.session]) : x.seq = c.seq
      BY <2>1, <2>8, <3>3 DEF Released, Elems
    <3> QED
      BY <3>2, <3>3
  <2> QED
    BY <2>1, <2>7, <2>8, <1>k
<1>4. ASSUME NEW s \in Session, HostGoes(s) PROVE Asked'
  <2>1. /\ UNCHANGED <<kind, frames, approvals, carrying>>
        /\ \A r \in Session \ {s} : commands'[r] = commands[r]
        /\ call' = [c \in Call |-> IF c \in Of(s) /\ call[c] = "waiting" THEN "gone" ELSE call[c]]
    BY <1>0, <1>4 DEF HostGoes, server, rows
  <2>2. ASSUME NEW c \in Call, call'[c] = "waiting"
        PROVE  call[c] = "waiting" /\ c.session # s /\ c.session \in Session
    <3>1. call[c] = "waiting" /\ c \notin Of(s)
      BY <2>1, <2>2
    <3> QED
      BY <3>1, <1>a DEF Of
  <2>3. ASSUME NEW c \in Call, call'[c] = "waiting", Released(c) PROVE Released(c)'
    BY <2>1, <2>2, <2>3, ReleasedStays
  <2> QED
    BY <2>1, <2>2, <2>3, <1>k
<1>5. ASSUME NEW s \in Session, PumpReadsRequest(s) PROVE Asked'
  <2> DEFINE n == Head(frames[s])
             d == Current(s, n)
  <2>1. /\ s \in attached /\ n \in Name /\ d \in Call
        /\ \A r \in Session \ {s} : frames'[r] = frames[r]
        /\ Elems(frames[s]) = Elems(frames'[s]) \union {n}
    BY <1>5, PumpReads
  <2>2. UNCHANGED <<call, kind, carrying, alive>>
    BY <1>5 DEF PumpReadsRequest, host
  <2> HIDE DEF n
  <2>o. ASSUME NEW c \in Call, call[c] = "waiting", c # d, Released(c),
               \A x \in Elems(commands[c.session]) : x \in Elems(commands'[c.session]),
               approvals'[c.session][c.seq] = approvals[c.session][c.seq]
        PROVE  Released(c)'
    <3>1. c.session = s => c.seq # n
      BY <1>a, <2>o
    <3>2. c.session \in Session
      BY <1>a, <2>o
    <3>3. c.seq \in Elems(frames[c.session]) => c.seq \in Elems(frames'[c.session])
      BY <2>1, <3>1, <3>2
    <3> QED
      BY <2>2, <2>o, <3>3 DEF Released, Elems
  <2>3. CASE ~IsTool(kind[d]) /\ UNCHANGED <<approvals, commands>>
    <3>1. ASSUME NEW c \in Call, call[c] = "waiting", IsTool(kind[c]) PROVE Released(c)'
      BY <1>a, <2>3, <2>o, <3>1
    <3> QED
      BY <2>2, <3>1 DEF Asked
  <2>4. CASE IsTool(kind[d]) /\ Gate(approvals[s][n], kind[d], s) = "ask"
             /\ RaiseApproval(s, n, kind[d]) /\ UNCHANGED commands
    <3>1. [ask |-> kind[d], answer |-> "open"] \in Approval
      BY <1>0, <2>1, <2>4 DEF Approval
    <3>2. /\ approvals'[s][n] = IF approvals[s][n] = NoRow
                                THEN [ask |-> kind[d], answer |-> "open"] ELSE approvals[s][n]
          /\ \A r \in Session, m \in Name :
               (r # s \/ m # n) => approvals'[r][m] = approvals[r][m]
      BY <1>0, <2>1, <2>4, <3>1, RowRaised
    <3>3. approvals[s][n] \in Approval /\ ~Answered(approvals[s][n])
      <4>1. approvals[s][n] \in Approval
        BY <1>0, <2>1
      <4>2. ~(Answered(approvals[s][n]) /\ ~Approved(approvals[s][n]))
        BY <2>4 DEF Gate
      <4>3. ~Answered(approvals[s][n]) /\ (Asks(kind[d]) \/ approvals[s][n].answer = "open")
        BY <2>4, <4>2 DEF Gate
      <4> QED
        BY <4>1, <4>3
    <3>4. approvals'[s][n].answer = "open"
      <4>1. approvals[s][n].answer \in {"none", "open"}
        BY <3>3 DEF Answered, Approval
      <4>2. approvals[s][n].answer = "none" => approvals[s][n] = NoRow
        BY <2>1, <1>0 DEF RowsAsked
      <4> QED
        BY <3>2, <4>1, <4>2 DEF NoRow
    <3>5. ASSUME NEW c \in Call, call[c] = "waiting", IsTool(kind[c]) PROVE Released(c)'
      <4>1. CASE c = d
        <5>1. c.session = s /\ c.seq = n
          BY <4>1 DEF Current
        <5> QED
          BY <3>4, <5>1 DEF Released
      <4>2. CASE c # d
        <5>1. /\ c.session \in Session /\ c.seq \in Name /\ Released(c)
              /\ c = Current(c.session, c.seq)
          BY <1>a, <3>5
        <5>2. c.session # s \/ c.seq # n
          BY <4>2, <5>1
        <5> QED
          BY <2>4, <2>o, <3>2, <3>5, <4>2, <5>1, <5>2
      <4> QED
        BY <4>1, <4>2
    <3> QED
      BY <2>2, <3>5 DEF Asked
  <2>5. ASSUME NEW verdict \in {"allow", "deny"}, Respond(s, n, verdict), UNCHANGED rows
        PROVE  Asked'
    <3>1. /\ \A r \in Session \ {s} : commands'[r] = commands[r]
          /\ s \notin alive => UNCHANGED commands
          /\ s \in alive => Elems(commands'[s]) = Elems(commands[s])
                              \union {[seq |-> n, outcome |-> verdict]}
      BY <1>0, <2>1, <2>5, Responds
    <3>2. ASSUME NEW c \in Call, call[c] = "waiting", IsTool(kind[c]) PROVE Released(c)'
      <4>0. c.session \in alive /\ c.session \in Session /\ Released(c)
        BY <1>a, <3>2
      <4>1. CASE c = d
        <5>1. c.session = s /\ c.seq = n
          BY <4>1 DEF Current
        <5>2. [seq |-> n, outcome |-> verdict] \in Elems(commands'[s])
          BY <3>1, <4>0, <5>1
        <5> QED
          BY <5>1, <5>2 DEF Released, Elems
      <4>2. CASE c # d
        <5>1. \A x \in Elems(commands[c.session]) : x \in Elems(commands'[c.session])
          BY <3>1, <4>0
        <5> QED
          BY <2>5, <2>o, <3>2, <4>0, <4>2, <5>1 DEF rows
      <4> QED
        BY <4>1, <4>2
    <3> QED
      BY <2>2, <3>2 DEF Asked
  <2> QED
    BY <1>5, <2>1, <2>3, <2>4, <2>5, PumpDoes DEF n
<1>6. ASSUME NEW s \in Session, PumpContinues(s) \/ StreamEnds(s) PROVE Asked'
  BY <1>6, <1>q DEF PumpContinues, StreamEnds, host, pipes, rows
<1>7. ASSUME NEW c \in Call, SdkTimesOut(c) PROVE Asked'
  <2>1. /\ call' = [call EXCEPT ![c] = "refused"]
        /\ UNCHANGED <<kind, frames, commands, approvals, carrying>>
    BY <1>7 DEF SdkTimesOut, pipes, server, rows
  <2> QED
    BY <1>0, <2>1, <1>q
<1>8. ASSUME NEW s \in Session, NEW n \in Name, NEW decision \in {"approve", "deny"},
             AnswerApproval(s, n, decision)
      PROVE  Asked'
  <2> DEFINE a == [what |-> "approval", session |-> s, seq |-> n]
  <2>1. /\ approvals' = [approvals EXCEPT ![s][n].answer = decision]
        /\ carrying' = carrying \union {a}
        /\ UNCHANGED <<call, kind, frames, commands>>
    BY <1>8 DEF AnswerApproval, host, pipes
  <2>2. \A r \in Session, m \in Name :
          (r # s \/ m # n) => approvals'[r][m] = approvals[r][m]
    BY <1>0, <2>1, RowAnswered
  <2>3. ASSUME NEW c \in Call, call'[c] = "waiting", Released(c) PROVE Released(c)'
    <3>1. c.session \in Session /\ c.seq \in Name
      BY <1>a, <2>1, <2>3
    <3>2. CASE c.session = s /\ c.seq = n
      BY <2>1, <3>2 DEF Released
    <3>3. CASE c.session # s \/ c.seq # n
      BY <2>1, <2>2, <2>3, <3>1, <3>3, ReleasedStays
    <3> QED
      BY <3>2, <3>3
  <2> QED
    BY <2>1, <2>3, <1>k
<1>9. ASSUME NEW n \in Name, AnswerQuestion(n) PROVE Asked'
  <2>1. /\ carrying \subseteq carrying'
        /\ UNCHANGED <<call, kind, frames, commands, approvals>>
    BY <1>9 DEF AnswerQuestion, host, pipes
  <2>2. ASSUME NEW c \in Call, Released(c) PROVE Released(c)'
    BY <2>1, <2>2, ReleasedStays
  <2> QED
    BY <2>1, <2>2, <1>k
<1>10. ASSUME NEW a \in Carried, Settle(a) PROVE Asked'
  <2>1. /\ carrying' = carrying \ {a} /\ a.session \in Session /\ a.seq \in Name
        /\ UNCHANGED <<call, kind, frames, approvals>>
    BY <1>10, SettleDoes DEF host, rows
  <2>2. ASSUME NEW c \in Call, call'[c] = "waiting", Released(c),
               Elems(commands[c.session]) \subseteq Elems(commands'[c.session]),
               a = [what |-> "approval", session |-> c.session, seq |-> c.seq] =>
                 \E m \in Elems(commands'[c.session]) : m.seq = c.seq
        PROVE  Released(c)'
    BY <2>1, <2>2 DEF Released, Elems
  <2>3. CASE a.session \notin attached /\ UNCHANGED commands
    <3>1. ASSUME NEW c \in Call, call'[c] = "waiting", Released(c) PROVE Released(c)'
      <4>1. c.session \in attached
        BY <1>0, <1>a, <2>1, <3>1
      <4> QED
        BY <2>2, <2>3, <3>1, <4>1
    <3> QED
      BY <2>1, <3>1, <1>k
  <2>4. ASSUME NEW outcome \in {"allow", "deny", "answer"}, Respond(a.session, a.seq, outcome)
        PROVE  Asked'
    <3> DEFINE x == [seq |-> a.seq, outcome |-> outcome]
    <3>1. /\ \A r \in Session \ {a.session} : commands'[r] = commands[r]
          /\ a.session \notin alive => UNCHANGED commands
          /\ a.session \in alive => Elems(commands'[a.session]) = Elems(commands[a.session]) \union {x}
      BY <1>0, <2>1, <2>4, Responds
    <3>2. x.seq = a.seq
      OBVIOUS
    <3> HIDE DEF x
    <3>3. ASSUME NEW c \in Call, call'[c] = "waiting", Released(c) PROVE Released(c)'
      <4>1. c.session \in alive /\ c.session \in Session
        BY <1>a, <2>1, <3>3
      <4>2. Elems(commands[c.session]) \subseteq Elems(commands'[c.session])
        BY <3>1, <4>1
      <4>3. ASSUME a = [what |-> "approval", session |-> c.session, seq |-> c.seq]
            PROVE  \E m \in Elems(commands'[c.session]) : m.seq = c.seq
        <5>1. a.session = c.session /\ a.seq = c.seq
          BY <4>3
        <5> QED
          BY <3>1, <3>2, <4>1, <5>1
      <4> QED
        BY <2>2, <3>3, <4>2, <4>3
    <3> QED
      BY <2>1, <3>3, <1>k
  <2> QED
    BY <1>10, <2>3, <2>4, SettleDoes
<1>11. ASSUME NEW a \in Carried, EffectFails(a) PROVE Asked'
  <2>1. /\ approvals' = [approvals EXCEPT ![a.session][a.seq].answer = "failed"]
        /\ approvals[a.session][a.seq].answer = "approve"
        /\ UNCHANGED <<call, kind, frames, commands, carrying>>
    BY <1>11 DEF EffectFails, host, pipes, server
  <2>2. a.session \in Session /\ a.seq \in Name
    BY DEF Carried
  <2>3. \A r \in Session, m \in Name :
          (r # a.session \/ m # a.seq) => approvals'[r][m] = approvals[r][m]
    BY <1>0, <2>1, <2>2, RowAnswered
  <2>4. ASSUME NEW c \in Call, call'[c] = "waiting", Released(c) PROVE Released(c)'
    <3>1. c.session \in Session /\ c.seq \in Name
      BY <1>a, <2>1, <2>4
    <3>2. approvals[c.session][c.seq].answer = "open" =>
            approvals'[c.session][c.seq].answer = "open"
      BY <2>1, <2>3, <3>1
    <3> QED
      BY <2>1, <2>4, <3>2, ReleasedStays
  <2> QED
    BY <2>1, <2>4, <1>k
<1>12. CASE ClaimMoves
  BY <1>12, <1>q DEF ClaimMoves, host, pipes, server, rows
<1>13. CASE Crash
  <2>1. call' = [c \in Call |-> IF call[c] = "waiting" THEN "gone" ELSE call[c]]
    BY <1>13 DEF Crash
  <2> QED
    BY <2>1 DEF Asked
<1>14. CASE UNCHANGED vars
  BY <1>14, <1>q DEF vars, host, pipes, server, rows
<1> QED
  BY <1>1, <1>2, <1>3, <1>4, <1>5, <1>6, <1>7, <1>8, <1>9, <1>10, <1>11, <1>12,
     <1>13, <1>14 DEF Next, Host, Pump, Answers, Carrier

-----------------------------------------------------------------------------
(* A step keeps all of it. *)
LEMMA NextKeeps ==
  ASSUME Given, IndInv, [Next]_vars
  PROVE  IndInv'
BY TypeKeeps, UpKeeps, OfNowKeeps, RowsKeep, SentKeeps, AskedKeeps DEF IndInv

(* What releases a call is what EveryGatedCallIsAsked says of those left waiting. *)
LEMMA AskedIsAsked == IndInv => EveryGatedCallIsAsked
<1> SUFFICES ASSUME IndInv, NEW c \in LeftWaiting
             PROVE  \/ approvals[c.session][c.seq].answer = "open"
                    \/ [what |-> "approval", session |-> c.session, seq |-> c.seq] \in carrying
  BY DEF EveryGatedCallIsAsked
<1>1. /\ c \in Call /\ call[c] = "waiting" /\ IsTool(kind[c])
      /\ ~Holds(c.session, c.seq) /\ ~OnItsWay(c.session, c.seq)
  BY DEF LeftWaiting
<1>2. Released(c)
  BY <1>1 DEF IndInv, Asked
<1>3. c.seq \notin Elems(frames[c.session])
  BY <1>1 DEF Holds, Elems
<1>4. ~ \E m \in Elems(commands[c.session]) : m.seq = c.seq
  BY <1>1 DEF OnItsWay, Elems
<1> QED
  BY <1>2, <1>3, <1>4 DEF Released

(* A respond that is written is a permission, when it allows, or nothing to *)
(* the specification of the floor.                                          *)
LEMMA RespondsFloor ==
  ASSUME TypeOK, Up, UNCHANGED call, NEW s \in Session, NEW n \in Name,
         NEW outcome \in {"allow", "deny", "answer"}, Respond(s, n, outcome)
  PROVE  [Floor!Next]_<<call, permitted>>
<1>1. UNCHANGED permitted \/ \E c \in Call : permitted' = permitted \union {c}
  BY Responds
<1>2. CASE UNCHANGED permitted
  BY <1>2
<1>3. ASSUME NEW c \in Call, permitted' = permitted \union {c}
      PROVE  Floor!Permit(c)
  BY <1>3 DEF Floor!Permit
<1> QED
  BY <1>1, <1>2, <1>3 DEF Floor!Next

(* Every step of the gate, its pipes, its retries and its crashes is one of *)
(* GatedCalls, or changes nothing that it speaks of.                        *)
LEMMA NextImplements ==
  ASSUME Given, IndInv, [Next]_vars
  PROVE  [Floor!Next]_<<call, permitted>>
<1>0. /\ call \in [Call -> {"unborn", "waiting", "ran", "refused", "answered", "gone"}]
      /\ commands \in [Session -> Seq(Command)]
      /\ \A s \in attached : proc[s] # 0
      /\ alive \subseteq attached
      /\ TypeOK /\ Up
  BY DEF IndInv, TypeOK, Up
<1>s. ASSUME UNCHANGED <<call, permitted>> PROVE [Floor!Next]_<<call, permitted>>
  BY <1>s
<1>1. ASSUME NEW s \in Session, NEW k \in Kind, Raise(s, k)
      PROVE  [Floor!Next]_<<call, permitted>>
  <2>1. s \in alive /\ UNCHANGED <<permitted, proc>>
    BY <1>1 DEF Raise
  <2>2. PICK n \in Name \ Raised(s) : call' = [call EXCEPT ![Current(s, n)] = "waiting"]
    BY <1>1 DEF Raise
  <2>3. Current(s, n) \in Call
    BY <1>0, <2>1, CurrentIsCall
  <2>4. call[Current(s, n)] = "unborn"
    BY <1>0, <2>1, <2>2 DEF Raised
  <2>5. Floor!Raise(Current(s, n))
    BY <2>1, <2>2, <2>4 DEF Floor!Raise
  <2> QED
    BY <2>3, <2>5 DEF Floor!Next
<1>2. ASSUME NEW c \in Call, SdkTimesOut(c) PROVE [Floor!Next]_<<call, permitted>>
  <2>1. /\ call[c] = "waiting" /\ call' = [call EXCEPT ![c] = "refused"] /\ UNCHANGED permitted
    BY <1>2 DEF SdkTimesOut
  <2>2. Floor!Release(c, "refused")
    BY <2>1 DEF Floor!Release
  <2> QED
    BY <2>2 DEF Floor!Next, Floor!Outcomes
<1>3. ASSUME NEW s \in Session, HostResponds(s) PROVE [Floor!Next]_<<call, permitted>>
  <2> DEFINE m == Head(commands[s])
             c == Current(s, m.seq)
             outcome == OutcomeOf(kind[c], m.outcome)
  <2>1. /\ s \in alive /\ commands[s] # <<>> /\ UNCHANGED permitted
        /\ call' = IF c \in pending /\ call[c] = "waiting" THEN [call EXCEPT ![c] = outcome] ELSE call
    BY <1>3 DEF HostResponds
  <2>2. commands[s] \in Seq(Command)
    BY <1>0
  <2>3. m \in Command /\ m \in Elems(commands[s])
    BY <2>1, <2>2, ElemsHeadTail
  <2>4. c \in Call
    BY <1>0, <2>1, <2>3, CurrentIsCall DEF Command
  <2>5. outcome = "ran" => c \in permitted
    <3>1. outcome = "ran" => m.outcome = "allow"
      BY DEF OutcomeOf
    <3>2. m.outcome = "allow" => c \in permitted
      BY <2>3 DEF IndInv, SentPermitted
    <3> QED
      BY <3>1, <3>2
  <2>6. outcome \in {"ran", "answered", "refused"}
    BY DEF OutcomeOf
  <2> HIDE DEF outcome, c
  <2>7. CASE c \in pending /\ call[c] = "waiting"
    <3>1. Floor!Release(c, outcome)
      BY <2>1, <2>5, <2>7 DEF Floor!Release
    <3>2. outcome \in Floor!Outcomes
      BY <2>6 DEF Floor!Outcomes
    <3> QED
      BY <2>4, <3>1, <3>2 DEF Floor!Next
  <2>8. CASE ~(c \in pending /\ call[c] = "waiting")
    BY <2>1, <2>8
  <2> QED
    BY <2>7, <2>8
<1>4. ASSUME NEW calls \in SUBSET Call, \A c \in calls : call[c] = "waiting",
             call' = [c \in Call |-> IF c \in calls THEN "gone" ELSE call[c]],
             UNCHANGED permitted
      PROVE  [Floor!Next]_<<call, permitted>>
  <2>1. Floor!Abandon(calls)
    BY <1>4 DEF Floor!Abandon
  <2> QED
    BY <2>1 DEF Floor!Next
<1>5. ASSUME NEW s \in Session, HostGoes(s) PROVE [Floor!Next]_<<call, permitted>>
  <2> DEFINE calls == {c \in Call : c \in Of(s) /\ call[c] = "waiting"}
  <2>1. /\ UNCHANGED permitted
        /\ call' = [c \in Call |-> IF c \in Of(s) /\ call[c] = "waiting" THEN "gone" ELSE call[c]]
    BY <1>5 DEF HostGoes
  <2>2. call' = [c \in Call |-> IF c \in calls THEN "gone" ELSE call[c]]
    BY <2>1
  <2>3. calls \in SUBSET Call /\ \A c \in calls : call[c] = "waiting"
    OBVIOUS
  <2> HIDE DEF calls
  <2> QED
    BY <2>1, <2>2, <2>3, <1>4
<1>6. CASE Crash
  <2> DEFINE calls == {c \in Call : call[c] = "waiting"}
  <2>1. /\ UNCHANGED permitted
        /\ call' = [c \in Call |-> IF call[c] = "waiting" THEN "gone" ELSE call[c]]
    BY <1>6 DEF Crash
  <2>2. call' = [c \in Call |-> IF c \in calls THEN "gone" ELSE call[c]]
    BY <2>1
  <2>3. calls \in SUBSET Call /\ \A c \in calls : call[c] = "waiting"
    OBVIOUS
  <2> HIDE DEF calls
  <2> QED
    BY <2>1, <2>2, <2>3, <1>4
<1>7. ASSUME NEW s \in Session, PumpReadsRequest(s) PROVE [Floor!Next]_<<call, permitted>>
  <2> DEFINE n == Head(frames[s])
  <2>1. n \in Name /\ UNCHANGED call
    BY <1>0, <1>7, PumpReads DEF PumpReadsRequest, host
  <2>2. UNCHANGED permitted \/ \E verdict \in {"allow", "deny"} : Respond(s, n, verdict)
    BY <1>0, <1>7, PumpDoes
  <2>3. ASSUME NEW verdict \in {"allow", "deny"}, Respond(s, n, verdict)
        PROVE  [Floor!Next]_<<call, permitted>>
    BY <1>0, <2>1, <2>3, RespondsFloor
  <2> QED
    BY <2>1, <2>2, <2>3, <1>s
<1>8. ASSUME NEW a \in Carried, Settle(a) PROVE [Floor!Next]_<<call, permitted>>
  <2>1. a.session \in Session /\ a.seq \in Name /\ UNCHANGED call
    BY <1>0, <1>8, SettleDoes DEF host
  <2>2. \/ UNCHANGED permitted
        \/ \E outcome \in {"allow", "deny", "answer"} : Respond(a.session, a.seq, outcome)
    BY <1>0, <1>8, SettleDoes
  <2>3. ASSUME NEW outcome \in {"allow", "deny", "answer"}, Respond(a.session, a.seq, outcome)
        PROVE  [Floor!Next]_<<call, permitted>>
    BY <1>0, <2>1, <2>3, RespondsFloor
  <2> QED
    BY <2>1, <2>2, <2>3, <1>s
<1>9. ASSUME NEW s \in Session, Open(s) \/ PumpContinues(s) \/ StreamEnds(s)
      PROVE  UNCHANGED <<call, permitted>>
  BY <1>9 DEF Open, PumpContinues, StreamEnds, host
<1>10. ASSUME Answers PROVE UNCHANGED <<call, permitted>>
  BY <1>10 DEF Answers, AnswerApproval, AnswerQuestion, host
<1>11. ASSUME NEW a \in Carried, EffectFails(a) PROVE UNCHANGED <<call, permitted>>
  BY <1>11 DEF EffectFails, host
<1>12. ASSUME ClaimMoves \/ UNCHANGED vars PROVE UNCHANGED <<call, permitted>>
  BY <1>12 DEF ClaimMoves, vars, host
<1> QED
  BY <1>s, <1>1, <1>2, <1>3, <1>5, <1>6, <1>7, <1>8, <1>9, <1>10, <1>11, <1>12
     DEF Next, Host, Pump, Carrier

(* Every variable keeps to its type. *)
THEOREM TypesHold == Given => (Spec => []TypeOK)
<1> SUFFICES ASSUME Given PROVE Spec => []TypeOK
  OBVIOUS
<1>1. Init => IndInv
  BY InitHolds
<1>2. IndInv /\ [Next]_vars => IndInv'
  BY NextKeeps
<1>3. IndInv => TypeOK
  BY DEF IndInv
<1> QED
  BY <1>1, <1>2, <1>3, PTL DEF Spec

(* No tool call is left waiting for a decision that nobody can make any more. *)
THEOREM GatedCallsAreAsked == Given => (Spec => []EveryGatedCallIsAsked)
<1> SUFFICES ASSUME Given PROVE Spec => []EveryGatedCallIsAsked
  OBVIOUS
<1>1. Init => IndInv
  BY InitHolds
<1>2. IndInv /\ [Next]_vars => IndInv'
  BY NextKeeps
<1>3. IndInv => EveryGatedCallIsAsked
  BY AskedIsAsked
<1> QED
  BY <1>1, <1>2, <1>3, PTL DEF Spec

(* A call is let go once, and a tool runs only on an allow that was sent. *)
THEOREM TheFloorIsKept == Given => (Spec => KeepsTheFloor)
<1> SUFFICES ASSUME Given PROVE Spec => KeepsTheFloor
  OBVIOUS
<1>1. Init => IndInv
  BY InitHolds
<1>2. IndInv /\ [Next]_vars => IndInv'
  BY NextKeeps
<1>3. Init => Floor!Init
  BY DEF Init, Floor!Init
<1>4. IndInv /\ [Next]_vars => [Floor!Next]_<<call, permitted>>
  BY NextImplements
<1> QED
  BY <1>1, <1>2, <1>3, <1>4, PTL DEF Spec, KeepsTheFloor, Floor!Spec
=============================================================================
