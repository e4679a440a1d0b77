-------------------------- MODULE BroadcastsProofs --------------------------
(***************************************************************************)
(* What is sent costs a recipient one turn at most, for every set of       *)
(* sessions and of gestures, each to any recipients, with crashes or       *)
(* without; the argument needs of the types only what Shape says.  That    *)
(* the places of what is sent are within the number of gestures counts the *)
(* deliveries of a recipient, and asks that gestures are finitely many.    *)
(***************************************************************************)
EXTENDS Broadcasts, TLAPS

Sets == INSTANCE FiniteSetTheorems

Shape ==
  /\ sending \in [Gesture -> {"unsent", "sending", "waiting", "done", "failed", "lost"}]
  /\ left \in [Gesture -> SUBSET Session]
  /\ ledger \in [Injection -> {"none", "queued", "delivered", "refused"}]
  /\ wire \subseteq Injection /\ held \subseteq Injection
  /\ turns \in [Injection -> Nat]

(* Nothing of it was sent yet. *)
Fresh(i) == turns[i] = 0 /\ i \notin wire \union held /\ ledger[i] # "delivered"

(* It is in one place: unsent, on the wire, held, or consumed. *)
Once(i) ==
  /\ i \in wire => turns[i] = 0 /\ i \notin held
  /\ i \in held => turns[i] = 0
  /\ turns[i] <= 1
  /\ ledger[i] = "delivered" => turns[i] = 1

(* What its gesture has yet to deliver to its recipient. *)
ToCome(i) == sending[i[1]] = "unsent" \/ i[2] \in left[i[1]]

(* An injection that is yet to come is fresh, and any other in one place. *)
Placed == \A i \in Injection : Once(i) /\ (ToCome(i) => Fresh(i))

IndInv == Shape /\ Placed

-----------------------------------------------------------------------------
(* Nothing is sent at first. *)
LEMMA InitHolds == Init => IndInv
<1> SUFFICES ASSUME Init PROVE IndInv
  OBVIOUS
<1>1. /\ sending = [g \in Gesture |-> "unsent"] /\ left = [g \in Gesture |-> {}]
      /\ ledger = [i \in Injection |-> "none"] /\ turns = [i \in Injection |-> 0]
      /\ wire = {} /\ held = {}
  BY DEF Init
<1>2. Shape
  BY <1>1 DEF Shape
<1>3. ASSUME NEW i \in Injection PROVE Once(i) /\ Fresh(i)
  BY <1>1 DEF Once, Fresh
<1> QED
  BY <1>2, <1>3 DEF IndInv, Placed

(* A step that sends nothing and turns nothing: what was sent may be lost or *)
(* held, what the ledger had as delivered stays, and nothing new is.         *)
LEMMA Quietly ==
  ASSUME IndInv, Shape',
         \A i \in Injection : ToCome(i)' => ToCome(i),
         wire' \subseteq wire,
         \A i \in held' : i \in held \/ (i \in wire /\ i \notin wire'),
         UNCHANGED turns,
         \A i \in Injection : ledger'[i] = "delivered" => ledger[i] = "delivered"
  PROVE  IndInv'
<1>1. ASSUME NEW i \in Injection PROVE Once(i)'
  <2>1. Once(i)
    BY DEF IndInv, Placed
  <2> QED
    BY <2>1 DEF Once
<1>2. ASSUME NEW i \in Injection, ToCome(i)' PROVE Fresh(i)'
  <2>1. Fresh(i)
    BY <1>2 DEF IndInv, Placed
  <2> QED
    BY <2>1 DEF Fresh
<1> QED
  BY <1>1, <1>2 DEF IndInv, Placed

(* What a mark does: an entry that was queued gets its status. *)
LEMMA Marks ==
  ASSUME Shape, NEW i, NEW status \in {"delivered", "refused"}, Mark(i, status)
  PROVE  /\ ledger' \in [Injection -> {"none", "queued", "delivered", "refused"}]
         /\ \A j \in Injection : j # i => ledger'[j] = ledger[j]
         /\ \A j \in Injection : ledger'[j] \in {ledger[j], status}
<1>1. ledger \in [Injection -> {"none", "queued", "delivered", "refused"}]
  BY DEF Shape
<1>2. ledger' = [ledger EXCEPT ![i] = IF @ = "queued" THEN status ELSE @]
  BY DEF Mark
<1> QED
  BY <1>1, <1>2

(* A delivery puts a fresh injection on the wire, or nothing: it never makes *)
(* the gesture unsent again.                                                 *)
LEMMA Delivers ==
  ASSUME IndInv, NEW g \in Gesture, NEW s \in Session, NEW at, Deliver(g, s, at),
         Fresh(<<g, s>>),
         left' \in [Gesture -> SUBSET Session],
         \A h \in Gesture \ {g} : left'[h] = left[h],
         s \notin left'[g],
         \A r \in left'[g] : ToCome(<<g, r>>),
         UNCHANGED <<held, turns>>
  PROVE  IndInv'
<1> DEFINE i == <<g, s>>
<1>0. i \in Injection /\ Shape /\ Placed
  BY DEF Injection, IndInv
<1>1. PICK to \in {"failed", "waiting", "sending"} : sending' = [sending EXCEPT ![g] = to]
  BY DEF Deliver
<1>2. \/ UNCHANGED <<ledger, wire>>
      \/ ledger' = [ledger EXCEPT ![i] = "queued"] /\ wire' = wire \union {i}
      \/ ledger' = [ledger EXCEPT ![i] = "refused"] /\ UNCHANGED wire
  BY DEF Deliver
<1>3. Shape'
  BY <1>0, <1>1, <1>2 DEF Shape
<1>4. ASSUME NEW j \in Injection, ToCome(j)' PROVE j # i /\ ToCome(j)
  <2>1. PICK h \in Gesture, r \in Session : j = <<h, r>>
    BY DEF Injection
  <2>2. sending'[h] = "unsent" \/ r \in left'[h]
    BY <1>4, <2>1 DEF ToCome
  <2>3. CASE h = g
    <3>1. sending'[g] = to
      BY <1>0, <1>1 DEF Shape
    <3>2. r \in left'[g]
      BY <2>2, <2>3, <3>1
    <3> QED
      BY <2>1, <2>3, <3>2
  <2>4. CASE h # g
    <3>1. sending'[h] = sending[h] /\ left'[h] = left[h]
      BY <1>0, <1>1, <2>4 DEF Shape
    <3> QED
      BY <2>1, <2>2, <2>4, <3>1 DEF ToCome
  <2> QED
    BY <2>3, <2>4
<1>5. ASSUME NEW j \in Injection, j # i
      PROVE  ledger'[j] = ledger[j] /\ (j \in wire' <=> j \in wire)
  BY <1>0, <1>2, <1>5 DEF Shape
<1>6. Once(i)'
  <2>1. ledger'[i] # "delivered"
    BY <1>0, <1>2 DEF Fresh, Shape
  <2> QED
    BY <2>1 DEF Once, Fresh
<1>7. ASSUME NEW j \in Injection PROVE Once(j)'
  <2>1. CASE j = i
    BY <2>1, <1>6
  <2>2. CASE j # i
    <3>1. Once(j)
      BY <1>0 DEF Placed
    <3> QED
      BY <2>2, <3>1, <1>5 DEF Once
  <2> QED
    BY <2>1, <2>2
<1>8. ASSUME NEW j \in Injection, ToCome(j)' PROVE Fresh(j)'
  <2>1. j # i /\ Fresh(j)
    BY <1>0, <1>4, <1>8 DEF Placed
  <2> QED
    BY <2>1, <1>5 DEF Fresh
<1> QED
  BY <1>3, <1>7, <1>8 DEF IndInv, Placed

(* A turn is of what was held, which had cost none: now it has cost one. *)
LEMMA Turns ==
  ASSUME IndInv, NEW i \in Injection, HostTurns(i)
  PROVE  IndInv'
<1>0. /\ Shape /\ Placed /\ i \in held /\ held' = held \ {i}
      /\ UNCHANGED <<sending, left, wire>>
  BY DEF IndInv, HostTurns, gesture
<1>1. CASE turns' = [turns EXCEPT ![i] = @ + 1] /\ Mark(i, "delivered")
  <2>1. /\ ledger' \in [Injection -> {"none", "queued", "delivered", "refused"}]
        /\ \A j \in Injection : j # i => ledger'[j] = ledger[j]
    BY <1>0, <1>1, Marks
  <2>a. turns[i] + 1 \in Nat /\ turns' \in [Injection -> Nat]
    BY <1>0, <1>1 DEF Shape
  <2>2. Shape'
    BY <1>0, <2>1, <2>a DEF Shape
  <2>3. Once(i)
    BY <1>0 DEF Placed
  <2>4. turns[i] = 0 /\ i \notin wire /\ turns'[i] = 1
    BY <1>0, <1>1, <2>3 DEF Once, Shape
  <2>5. ~ToCome(i)
    BY <1>0 DEF Placed, Fresh
  <2>6. ASSUME NEW j \in Injection PROVE Once(j)'
    <3>1. CASE j = i
      BY <1>0, <2>4, <3>1 DEF Once
    <3>2. CASE j # i
      <4>1. Once(j) /\ turns'[j] = turns[j] /\ ledger'[j] = ledger[j]
        BY <1>0, <1>1, <2>1, <3>2 DEF Placed, Shape
      <4> QED
        BY <1>0, <4>1 DEF Once
    <3> QED
      BY <3>1, <3>2
  <2>7. ASSUME NEW j \in Injection, ToCome(j)' PROVE Fresh(j)'
    <3>1. ToCome(j) /\ j # i
      BY <1>0, <2>5, <2>7 DEF ToCome
    <3>2. Fresh(j) /\ turns'[j] = turns[j] /\ ledger'[j] = ledger[j]
      BY <1>0, <1>1, <2>1, <3>1 DEF Placed, Shape
    <3> QED
      BY <1>0, <3>2 DEF Fresh
  <2> QED
    BY <2>2, <2>6, <2>7 DEF IndInv, Placed
<1>2. CASE UNCHANGED turns /\ Mark(i, "refused")
  <2>1. /\ ledger' \in [Injection -> {"none", "queued", "delivered", "refused"}]
        /\ \A j \in Injection : ledger'[j] \in {ledger[j], "refused"}
    BY <1>0, <1>2, Marks
  <2>2. Shape'
    BY <1>0, <1>2, <2>1 DEF Shape
  <2>3. \A j \in Injection : ToCome(j)' => ToCome(j)
    BY <1>0 DEF ToCome
  <2> QED
    BY <1>0, <1>2, <2>1, <2>2, <2>3, Quietly
<1> QED
  BY <1>1, <1>2 DEF HostTurns

-----------------------------------------------------------------------------
(* Every step keeps every injection in one place. *)
LEMMA NextKeeps ==
  ASSUME IndInv, [Next]_vars
  PROVE  IndInv'
<1>0. Shape /\ Placed
  BY DEF IndInv
<1>f. ASSUME UNCHANGED <<sending, left>>
      PROVE  \A i \in Injection : ToCome(i)' => ToCome(i)
  BY <1>f DEF ToCome
<1>1. ASSUME NEW s \in Session, Attach(s) PROVE IndInv'
  <2>1. UNCHANGED <<sending, left, ledger, wire, held, turns>>
    BY <1>1 DEF Attach, gesture, process
  <2>2. Shape'
    BY <1>0, <2>1 DEF Shape
  <2> QED
    BY <2>1, <2>2, <1>f, Quietly
<1>2. ASSUME NEW s \in Session, Ends(s) PROVE IndInv'
  <2>1. /\ UNCHANGED <<sending, left, ledger, turns>>
        /\ wire' \subseteq wire /\ held' \subseteq held
    BY <1>2 DEF Ends, gesture
  <2>2. Shape'
    BY <1>0, <2>1 DEF Shape
  <2> QED
    BY <2>1, <2>2, <1>f, Quietly
<1>3. ASSUME NEW i \in Injection, HostTakes(i) PROVE IndInv'
  <2>1. /\ UNCHANGED <<sending, left, ledger, turns>>
        /\ i \in wire /\ wire' = wire \ {i} /\ held' = held \union {i}
    BY <1>3 DEF HostTakes, gesture
  <2>2. Shape'
    BY <1>0, <2>1 DEF Shape
  <2> QED
    BY <2>1, <2>2, <1>f, Quietly
<1>4. ASSUME NEW i \in Injection, HostTurns(i) PROVE IndInv'
  BY <1>4, Turns
<1>5. ASSUME NEW g \in Gesture, Send(g) PROVE IndInv'
  <2> DEFINE reached == To[g] \intersect Running
  <2>1. sending[g] = "unsent" /\ UNCHANGED <<held, turns>>
    BY <1>5 DEF Send
  <2>2. PICK s \in reached :
          left' = [left EXCEPT ![g] = reached \ {s}] /\ Deliver(g, s, NextPlace(s))
    BY <1>5 DEF Send
  <2>3. reached \subseteq Session
    BY DEF Running
  <2>4. ASSUME NEW r \in Session
        PROVE  ToCome(<<g, r>>) /\ Fresh(<<g, r>>)
    BY <1>0, <2>1 DEF ToCome, Placed, Injection
  <2>5. /\ left' \in [Gesture -> SUBSET Session] /\ left'[g] = reached \ {s}
        /\ \A h \in Gesture \ {g} : left'[h] = left[h]
    BY <1>0, <2>2, <2>3 DEF Shape
  <2>6. s \in Session /\ s \notin left'[g] /\ \A r \in left'[g] : ToCome(<<g, r>>)
    BY <2>2, <2>3, <2>4, <2>5
  <2> QED
    BY <2>1, <2>2, <2>4, <2>5, <2>6, Delivers
<1>6. ASSUME NEW g \in Gesture, SendsOn(g) PROVE IndInv'
  <2>1. sending[g] = "sending" /\ UNCHANGED <<held, turns>>
    BY <1>6 DEF SendsOn
  <2>2. CASE /\ sending' = [sending EXCEPT ![g] = "done"]
             /\ UNCHANGED <<left, awaited, edges, ledger, wire>>
    <3>1. Shape'
      BY <1>0, <2>1, <2>2 DEF Shape
    <3>2. ASSUME NEW i \in Injection, ToCome(i)' PROVE ToCome(i)
      <4>1. i[1] \in Gesture
        BY DEF Injection
      <4>2. sending'[i[1]] = "unsent" => sending[i[1]] = "unsent"
        BY <1>0, <2>2, <4>1 DEF Shape
      <4> QED
        BY <2>2, <3>2, <4>2 DEF ToCome
    <3> QED
      BY <2>1, <2>2, <3>1, <3>2, Quietly
  <2>3. ASSUME NEW s \in left[g], left' = [left EXCEPT ![g] = @ \ {s}],
               Deliver(g, s, place[<<g, s>>])
        PROVE  IndInv'
    <3>1. /\ left' \in [Gesture -> SUBSET Session] /\ left'[g] = left[g] \ {s}
          /\ s \in Session /\ left[g] \subseteq Session
          /\ \A h \in Gesture \ {g} : left'[h] = left[h]
      BY <1>0, <2>3 DEF Shape
    <3>2. \A r \in left[g] : ToCome(<<g, r>>)
      BY DEF ToCome
    <3>3. Fresh(<<g, s>>)
      BY <1>0, <3>1, <3>2 DEF Placed, Injection
    <3>4. s \notin left'[g] /\ \A r \in left'[g] : ToCome(<<g, r>>)
      BY <3>1, <3>2
    <3> QED
      BY <2>1, <2>3, <3>1, <3>3, <3>4, Delivers
  <2> QED
    BY <1>6, <2>2, <2>3 DEF SendsOn
<1>7. ASSUME NEW g \in Gesture, StopsWaiting(g) PROVE IndInv'
  <2> DEFINE i == <<g, awaited[g]>>
  <2>1. /\ sending' = [sending EXCEPT ![g] = "sending"]
        /\ UNCHANGED <<left, wire, held, turns>>
        /\ UNCHANGED ledger \/ Mark(i, "refused")
    BY <1>7 DEF StopsWaiting, process
  <2>2. /\ ledger' \in [Injection -> {"none", "queued", "delivered", "refused"}]
        /\ \A j \in Injection : ledger'[j] = "delivered" => ledger[j] = "delivered"
    <3>1. CASE UNCHANGED ledger
      BY <1>0, <3>1 DEF Shape
    <3>2. CASE Mark(i, "refused")
      BY <1>0, <3>2, Marks
    <3> QED
      BY <2>1, <3>1, <3>2
  <2>3. Shape'
    BY <1>0, <2>1, <2>2 DEF Shape
  <2>4. ASSUME NEW j \in Injection, ToCome(j)' PROVE ToCome(j)
    <3>1. j[1] \in Gesture
      BY DEF Injection
    <3>2. sending'[j[1]] = "unsent" => sending[j[1]] = "unsent"
      BY <1>0, <2>1, <3>1 DEF Shape
    <3> QED
      BY <2>1, <2>4, <3>2 DEF ToCome
  <2> QED
    BY <2>1, <2>2, <2>3, <2>4, Quietly
<1>8. CASE Crash
  <2>1. /\ sending' = [g \in Gesture |-> IF sending[g] \in {"sending", "waiting"}
                                         THEN "lost" ELSE sending[g]]
        /\ wire' = {} /\ held' = {} /\ UNCHANGED <<left, ledger, turns>>
    BY <1>8 DEF Crash
  <2>2. Shape'
    BY <1>0, <2>1 DEF Shape
  <2>3. ASSUME NEW j \in Injection, ToCome(j)' PROVE ToCome(j)
    <3>1. j[1] \in Gesture
      BY DEF Injection
    <3>2. sending'[j[1]] = "unsent" => sending[j[1]] = "unsent"
      BY <1>0, <2>1, <3>1 DEF Shape
    <3> QED
      BY <2>1, <2>3, <3>2 DEF ToCome
  <2> QED
    BY <2>1, <2>2, <2>3, Quietly
<1>9. CASE UNCHANGED vars
  <2>1. UNCHANGED <<sending, left, ledger, wire, held, turns>>
    BY <1>9 DEF vars, gesture, process
  <2>2. Shape'
    BY <1>0, <2>1 DEF Shape
  <2> QED
    BY <2>1, <2>2, <1>f, Quietly
<1> QED
  BY <1>1, <1>2, <1>3, <1>4, <1>5, <1>6, <1>7, <1>8, <1>9 DEF Next, Replay

(* What is sent costs a recipient one turn at most, and what the ledger has *)
(* as delivered cost it one.                                                *)
THEOREM SentIsOneTurn == Spec => []OneTurnEach
<1>1. Init => IndInv
  BY InitHolds
<1>2. IndInv /\ [Next]_vars => IndInv'
  BY NextKeeps
<1>3. IndInv => OneTurnEach
  BY DEF IndInv, Placed, Once, OneTurnEach
<1> QED
  BY <1>1, <1>2, <1>3, PTL DEF Spec

-----------------------------------------------------------------------------
(* The places of contents among a recipient's inputs. *)

(* The gestures whose delivery to s is over, however it went. *)
Delivered(s) == {g \in Gesture : s \in recipients[g] \ left[g]}

(* A recipient's places are taken without a gap, no more of them than there  *)
(* were deliveries to it, and a delivery to come has its place at the end or *)
(* lost it to another one.                                                   *)
PlacesOf(s) ==
  /\ edges[s] = 1..Cardinality(edges[s]) /\ Cardinality(edges[s]) \in Nat
  /\ Cardinality(edges[s]) <= Cardinality(Delivered(s))

RowTypes ==
  /\ life \in [Session -> {"starting", "live", "ended"}]
  /\ recipients \in [Gesture -> SUBSET Session]
  /\ place \in [Injection -> 0..Cardinality(Gesture)]
  /\ awaited \in [Gesture -> Session \union {Nobody}]
  /\ edges \in [Session -> SUBSET (1..Cardinality(Gesture))]
  /\ acked \subseteq Injection

Recorded ==
  /\ \A g \in Gesture : left[g] \subseteq recipients[g]
  /\ \A g \in Gesture : sending[g] = "unsent" => recipients[g] = {}
  /\ \A s \in Session : PlacesOf(s)
  /\ \A g \in Gesture : \A s \in left[g] : place[<<g, s>>] \in 1..(Cardinality(edges[s]) + 1)

InPlace == RowTypes /\ Recorded

(* The theorems about finite sets speak of the same sets and numbers. *)
LEMMA SameSets ==
  ASSUME NEW S
  PROVE  /\ Sets!IsFiniteSet(S) <=> IsFiniteSet(S)
         /\ Sets!Cardinality(S) = Cardinality(S)
BY DEF Sets!IsFiniteSet, IsFiniteSet, Sets!Cardinality, Cardinality

(* How many there are of none, and of the first k numbers. *)
LEMMA CountsNumbers ==
  ASSUME NEW k \in Nat
  PROVE  Cardinality({}) = 0 /\ Cardinality(1..k) = k
<1>1. Sets!Cardinality({}) = 0
  BY Sets!FS_EmptySet
<1>2. Sets!Cardinality(1..k) = k
  BY Sets!FS_Interval
<1> QED
  BY <1>1, <1>2, SameSets

(* A finite set and its parts have a number of elements. *)
LEMMA CountsParts ==
  ASSUME NEW S, IsFiniteSet(S), NEW T \in SUBSET S
  PROVE  /\ Cardinality(S) \in Nat /\ IsFiniteSet(T) /\ Cardinality(T) \in Nat
         /\ Cardinality(T) <= Cardinality(S)
<1>1. Sets!IsFiniteSet(S)
  BY SameSets
<1>2. Sets!IsFiniteSet(T) /\ Sets!Cardinality(T) <= Sets!Cardinality(S)
  BY <1>1, Sets!FS_Subset
<1>3. Sets!Cardinality(S) \in Nat /\ Sets!Cardinality(T) \in Nat
  BY <1>1, <1>2, Sets!FS_CardinalityType
<1> QED
  BY <1>2, <1>3, SameSets

(* With one more element it has one more. *)
LEMMA CountsOneMore ==
  ASSUME NEW S, IsFiniteSet(S), NEW x, x \notin S
  PROVE  Cardinality(S \union {x}) = Cardinality(S) + 1
<1>1. Sets!IsFiniteSet(S)
  BY SameSets
<1>2. Sets!Cardinality(S \union {x}) = Sets!Cardinality(S) + 1
  BY <1>1, Sets!FS_AddElement
<1> QED
  BY <1>2, SameSets

(* Nothing is recorded at first. *)
LEMMA InPlaceAtFirst ==
  ASSUME Named, Init
  PROVE  InPlace
<1>0. Cardinality(Gesture) \in Nat
  BY CountsParts DEF Named
<1>1. /\ life \in [Session -> {"starting", "live"}]
      /\ recipients = [g \in Gesture |-> {}] /\ left = [g \in Gesture |-> {}]
      /\ place = [i \in Injection |-> 0] /\ awaited = [g \in Gesture |-> Nobody]
      /\ edges = [s \in Session |-> {}] /\ acked = {}
  BY DEF Init
<1>2. RowTypes
  <2>1. 0 \in 0..Cardinality(Gesture)
    BY <1>0
  <2>2. place \in [Injection -> 0..Cardinality(Gesture)]
    BY <1>1, <2>1
  <2> QED
    BY <1>1, <2>2 DEF RowTypes
<1>3. ASSUME NEW s \in Session PROVE PlacesOf(s)
  <2>1. edges[s] = {} /\ Delivered(s) = {}
    BY <1>1 DEF Delivered
  <2>2. Cardinality({}) = 0
    BY CountsNumbers
  <2> QED
    BY <2>1, <2>2 DEF PlacesOf
<1>4. Recorded
  BY <1>1, <1>3 DEF Recorded
<1> QED
  BY <1>2, <1>4 DEF InPlace

(* A step that records and delivers nothing. *)
LEMMA RecordsNothing ==
  ASSUME InPlace, UNCHANGED <<recipients, place, edges, left>>,
         life' \in [Session -> {"starting", "live", "ended"}],
         awaited' \in [Gesture -> Session \union {Nobody}],
         acked' \subseteq Injection,
         \A g \in Gesture : sending'[g] = "unsent" => sending[g] = "unsent"
  PROVE  InPlace'
<1>1. RowTypes'
  BY DEF InPlace, RowTypes
<1>2. \A s \in Session : PlacesOf(s)'
  BY DEF InPlace, Recorded, PlacesOf, Delivered
<1>3. Recorded'
  BY <1>2 DEF InPlace, Recorded
<1> QED
  BY <1>1, <1>3 DEF InPlace

(* A delivery counts once. *)
LEMMA CountsOnce ==
  ASSUME IsFiniteSet(Gesture), NEW D, NEW E, D \subseteq E, E \subseteq Gesture,
         NEW g \in E, g \notin D
  PROVE  /\ Cardinality(D) \in Nat /\ Cardinality(E) \in Nat
         /\ Cardinality(D) + 1 <= Cardinality(E)
         /\ Cardinality(E) <= Cardinality(Gesture) /\ Cardinality(Gesture) \in Nat
<1>1. /\ IsFiniteSet(E) /\ Cardinality(E) <= Cardinality(Gesture)
      /\ Cardinality(E) \in Nat /\ Cardinality(Gesture) \in Nat
  BY CountsParts
<1>2. IsFiniteSet(D) /\ Cardinality(D) \in Nat
  BY <1>1, CountsParts
<1>3. D \union {g} \in SUBSET E
  OBVIOUS
<1>4. Cardinality(D \union {g}) = Cardinality(D) + 1
  BY <1>2, CountsOneMore
<1>5. Cardinality(D \union {g}) <= Cardinality(E)
  BY <1>1, <1>3, CountsParts
<1> QED
  BY <1>1, <1>2, <1>4, <1>5

(* And a set of deliveries that only grows does not count for less. *)
LEMMA CountsNoLess ==
  ASSUME IsFiniteSet(Gesture), NEW D, NEW E, D \subseteq E, E \subseteq Gesture
  PROVE  /\ Cardinality(D) \in Nat /\ Cardinality(E) \in Nat
         /\ Cardinality(D) <= Cardinality(E)
<1>1. IsFiniteSet(E)
  BY CountsParts
<1> QED
  BY <1>1, CountsParts

(* A delivery to s takes the place at the end of its inputs, or none. *)
LEMMA TakesTheNextPlace ==
  ASSUME Named, InPlace, Shape, NEW g \in Gesture, NEW s \in Session, NEW at,
         Deliver(g, s, at), at \in 1..(Cardinality(edges[s]) + 1),
         \A r \in Session : Delivered(r) \subseteq Delivered(r)',
         g \in Delivered(s)', g \notin Delivered(s)
  PROVE  /\ edges' \in [Session -> SUBSET (1..Cardinality(Gesture))]
         /\ \A r \in Session : PlacesOf(r)'
         /\ \A r \in Session : Cardinality(edges[r]) <= Cardinality(edges'[r])
<1>0. /\ edges \in [Session -> SUBSET (1..Cardinality(Gesture))]
      /\ \A r \in Session : PlacesOf(r)
      /\ IsFiniteSet(Gesture)
  BY DEF InPlace, RowTypes, Recorded, Named
<1>1. \A r \in Session : Delivered(r)' \subseteq Gesture
  BY DEF Delivered
<1>2. ASSUME NEW r \in Session, edges'[r] = edges[r] PROVE PlacesOf(r)'
  <2>1. /\ Cardinality(Delivered(r)) \in Nat /\ Cardinality(Delivered(r)') \in Nat
        /\ Cardinality(Delivered(r)) <= Cardinality(Delivered(r)')
    BY <1>0, <1>1, CountsNoLess
  <2>2. PlacesOf(r)
    BY <1>0
  <2> QED
    BY <1>2, <2>1, <2>2 DEF PlacesOf
<1>3. CASE UNCHANGED edges
  BY <1>0, <1>2, <1>3 DEF PlacesOf
<1>4. CASE at \notin edges[s] /\ edges' = [edges EXCEPT ![s] = @ \union {at}]
  <2> DEFINE k == Cardinality(edges[s])
  <2>1. edges[s] = 1..k /\ k \in Nat /\ k <= Cardinality(Delivered(s))
    BY <1>0 DEF PlacesOf
  <2> HIDE DEF k
  <2>2. at \in 1..(k + 1) /\ at \notin 1..k
    BY <1>4, <2>1 DEF k
  <2>3. at = k + 1
    BY <2>1, <2>2
  <2>4. edges'[s] = 1..(k + 1)
    BY <1>0, <1>4, <2>1, <2>3
  <2>5. Cardinality(1..(k + 1)) = k + 1
    BY <2>1, CountsNumbers
  <2>6. /\ Cardinality(Delivered(s)) \in Nat /\ Cardinality(Delivered(s)') \in Nat
        /\ Cardinality(Delivered(s)) + 1 <= Cardinality(Delivered(s)')
        /\ Cardinality(Delivered(s)') <= Cardinality(Gesture) /\ Cardinality(Gesture) \in Nat
    BY <1>0, <1>1, CountsOnce
  <2>7. k + 1 <= Cardinality(Delivered(s)') /\ k + 1 <= Cardinality(Gesture)
    BY <2>1, <2>6
  <2>8. PlacesOf(s)'
    BY <2>1, <2>4, <2>5, <2>7 DEF PlacesOf
  <2>9. \A r \in Session \ {s} : edges'[r] = edges[r]
    BY <1>0, <1>4
  <2>10. edges'[s] \subseteq 1..Cardinality(Gesture)
    BY <2>1, <2>4, <2>6, <2>7
  <2>11. edges' \in [Session -> SUBSET (1..Cardinality(Gesture))]
    <3>1. edges' = [edges EXCEPT ![s] = edges'[s]]
      BY <1>0, <1>4
    <3> QED
      BY <1>0, <2>10, <3>1
  <2>12. \A r \in Session : PlacesOf(r)'
    BY <1>2, <2>8, <2>9
  <2>13. Cardinality(edges[s]) <= Cardinality(edges'[s])
    <3>1. Cardinality(edges[s]) = k
      BY DEF k
    <3> QED
      BY <2>1, <2>4, <2>5, <3>1
  <2>14. \A r \in Session \ {s} : Cardinality(edges[r]) <= Cardinality(edges'[r])
    BY <1>0, <2>9 DEF PlacesOf
  <2> QED
    BY <2>11, <2>12, <2>13, <2>14
<1> QED
  BY <1>3, <1>4 DEF Deliver

(* Every step leaves every content in its place. *)
LEMMA InPlaceKeeps ==
  ASSUME Named, IndInv, InPlace, [Next]_vars
  PROVE  InPlace'
<1>0. /\ Shape /\ RowTypes /\ Recorded
      /\ sending \in [Gesture -> {"unsent", "sending", "waiting", "done", "failed", "lost"}]
      /\ left \in [Gesture -> SUBSET Session]
      /\ life \in [Session -> {"starting", "live", "ended"}]
      /\ recipients \in [Gesture -> SUBSET Session]
      /\ place \in [Injection -> 0..Cardinality(Gesture)]
      /\ awaited \in [Gesture -> Session \union {Nobody}]
      /\ acked \subseteq Injection /\ wire \subseteq Injection
  BY DEF IndInv, InPlace, Shape, RowTypes
<1>1. ASSUME NEW s \in Session, Attach(s) \/ Ends(s) PROVE InPlace'
  <2>1. /\ UNCHANGED <<recipients, place, edges, left, awaited, acked, sending>>
        /\ \E to \in {"live", "ended"} : life' = [life EXCEPT ![s] = to]
    BY <1>1 DEF Attach, Ends, gesture, process, record
  <2>2. life' \in [Session -> {"starting", "live", "ended"}]
    BY <1>0, <2>1
  <2> QED
    BY <1>0, <2>1, <2>2, RecordsNothing
<1>2. ASSUME NEW i \in Injection, HostTakes(i) \/ HostTurns(i) PROVE InPlace'
  <2>1. /\ UNCHANGED <<recipients, place, edges, left, awaited, life, sending>>
        /\ acked' \subseteq acked \union {i}
    BY <1>2 DEF HostTakes, HostTurns, gesture, record
  <2> QED
    BY <1>0, <2>1, RecordsNothing
<1>3. ASSUME NEW g \in Gesture, StopsWaiting(g) PROVE InPlace'
  <2>1. /\ UNCHANGED <<recipients, place, edges, left, life, acked>>
        /\ sending' = [sending EXCEPT ![g] = "sending"]
        /\ awaited' = [awaited EXCEPT ![g] = Nobody]
    BY <1>3 DEF StopsWaiting, process, record
  <2>2. \A h \in Gesture : sending'[h] = "unsent" => sending[h] = "unsent"
    BY <1>0, <2>1
  <2>3. awaited' \in [Gesture -> Session \union {Nobody}]
    BY <1>0, <2>1
  <2> QED
    BY <1>0, <2>1, <2>2, <2>3, RecordsNothing
<1>4. CASE Crash
  <2>1. /\ UNCHANGED <<recipients, place, edges, left, awaited, acked>>
        /\ life' = [s \in Session |-> "ended"]
        /\ sending' = [g \in Gesture |-> IF sending[g] \in {"sending", "waiting"}
                                         THEN "lost" ELSE sending[g]]
    BY <1>4 DEF Crash, record
  <2>2. \A h \in Gesture : sending'[h] = "unsent" => sending[h] = "unsent"
    BY <2>1
  <2> QED
    BY <1>0, <2>1, <2>2, RecordsNothing
<1>5. CASE UNCHANGED vars
  BY <1>0, <1>5, RecordsNothing DEF vars, gesture, process, record
<1>d. ASSUME NEW g \in Gesture, NEW s \in Session, NEW at, Deliver(g, s, at)
      PROVE  /\ awaited' \in [Gesture -> Session \union {Nobody}]
             /\ \A h \in Gesture : sending'[h] = "unsent" => sending[h] = "unsent" /\ h # g
  <2>1. PICK to \in {"failed", "waiting", "sending"} : sending' = [sending EXCEPT ![g] = to]
    BY <1>d DEF Deliver
  <2>2. \/ UNCHANGED awaited
        \/ awaited' = [awaited EXCEPT ![g] = s]
    BY <1>d DEF Deliver
  <2> QED
    BY <1>0, <2>1, <2>2
<1>6. ASSUME NEW g \in Gesture, Send(g) PROVE InPlace'
  <2> DEFINE reached == To[g] \intersect Running
  <2>1. /\ sending[g] = "unsent" /\ UNCHANGED <<life, acked>>
        /\ recipients' = [recipients EXCEPT ![g] = reached]
        /\ place' = [i \in Injection |->
                        IF i[1] = g /\ i[2] \in reached THEN NextPlace(i[2]) ELSE place[i]]
    BY <1>6 DEF Send
  <2>2. PICK s \in reached :
          left' = [left EXCEPT ![g] = reached \ {s}] /\ Deliver(g, s, NextPlace(s))
    BY <1>6 DEF Send
  <2>3. reached \subseteq Session /\ s \in Session
    BY <2>2 DEF Running
  <2> HIDE DEF reached
  <2>4. recipients[g] = {} /\ left[g] = {}
    BY <1>0, <2>1 DEF Recorded
  <2>5. /\ recipients'[g] = reached /\ left'[g] = reached \ {s}
        /\ \A h \in Gesture \ {g} : recipients'[h] = recipients[h] /\ left'[h] = left[h]
        /\ recipients' \in [Gesture -> SUBSET Session]
    BY <1>0, <2>1, <2>2, <2>3
  <2>6. \A r \in Session : g \notin Delivered(r)
    BY <2>4 DEF Delivered
  <2>7. /\ \A r \in Session : Delivered(r) \subseteq Delivered(r)'
        /\ g \in Delivered(s)'
    <3>1. ASSUME NEW r \in Session, NEW h \in Delivered(r) PROVE h \in Delivered(r)'
      <4>1. h \in Gesture \ {g} /\ r \in recipients[h] \ left[h]
        BY <2>6 DEF Delivered
      <4> QED
        BY <2>5, <4>1 DEF Delivered
    <3>2. g \in Delivered(s)'
      BY <2>2, <2>5 DEF Delivered
    <3> QED
      BY <3>1, <3>2
  <2>8. ASSUME NEW r \in Session
        PROVE  /\ NextPlace(r) = Cardinality(edges[r]) + 1 /\ Cardinality(edges[r]) \in Nat
               /\ NextPlace(r) \in 1..Cardinality(Gesture)
    <3>1. /\ Cardinality(edges[r]) \in Nat
          /\ Cardinality(edges[r]) <= Cardinality(Delivered(r))
      BY <1>0 DEF Recorded, PlacesOf
    <3>2. /\ Delivered(r) \subseteq Gesture /\ Gesture \subseteq Gesture
          /\ g \notin Delivered(r) /\ IsFiniteSet(Gesture)
      BY <2>6 DEF Delivered, Named
    <3>3. /\ Cardinality(Delivered(r)) \in Nat /\ Cardinality(Gesture) \in Nat
          /\ Cardinality(Delivered(r)) + 1 <= Cardinality(Gesture)
      BY <3>2, CountsOnce
    <3> QED
      BY <3>1, <3>3 DEF NextPlace
  <2>9. /\ edges' \in [Session -> SUBSET (1..Cardinality(Gesture))]
        /\ \A r \in Session : PlacesOf(r)'
        /\ \A r \in Session : Cardinality(edges[r]) <= Cardinality(edges'[r])
    <3>1. NextPlace(s) \in 1..(Cardinality(edges[s]) + 1)
      BY <2>3, <2>8
    <3> QED
      BY <1>0, <2>2, <2>3, <2>6, <2>7, <3>1, TakesTheNextPlace
  <2>10. place' \in [Injection -> 0..Cardinality(Gesture)]
    <3>1. \A r \in reached : NextPlace(r) \in 0..Cardinality(Gesture)
      BY <2>3, <2>8
    <3> QED
      BY <1>0, <2>1, <3>1
  <2>11. /\ awaited' \in [Gesture -> Session \union {Nobody}]
         /\ \A h \in Gesture : sending'[h] = "unsent" => sending[h] = "unsent" /\ h # g
    BY <1>d, <2>2, <2>3
  <2>12. RowTypes'
    BY <1>0, <2>1, <2>5, <2>9, <2>10, <2>11 DEF RowTypes
  <2>13. ASSUME NEW h \in Gesture, NEW r \in left'[h]
         PROVE  place'[<<h, r>>] \in 1..(Cardinality(edges'[r]) + 1)
    <3>0. r \in Session /\ <<h, r>> \in Injection
      BY <1>0, <2>3, <2>5, <2>13 DEF Injection
    <3>1. /\ Cardinality(edges[r]) \in Nat /\ Cardinality(edges'[r]) \in Nat
          /\ Cardinality(edges[r]) <= Cardinality(edges'[r])
      BY <2>8, <2>9, <3>0 DEF PlacesOf
    <3>2. place'[<<h, r>>] \in 1..(Cardinality(edges[r]) + 1)
      <4>1. CASE h = g
        <5>1. r \in reached
          BY <2>5, <2>13, <4>1
        <5>2. place'[<<h, r>>] = NextPlace(r)
          BY <2>1, <3>0, <4>1, <5>1
        <5> QED
          BY <2>8, <3>0, <5>2
      <4>2. CASE h # g
        <5>1. r \in left[h] /\ place'[<<h, r>>] = place[<<h, r>>]
          BY <2>1, <2>5, <2>13, <3>0, <4>2
        <5> QED
          BY <1>0, <5>1 DEF Recorded
      <4> QED
        BY <4>1, <4>2
    <3> QED
      BY <3>1, <3>2
  <2>14. \A h \in Gesture : left'[h] \subseteq recipients'[h]
    BY <1>0, <2>5 DEF Recorded
  <2>15. \A h \in Gesture : sending'[h] = "unsent" => recipients'[h] = {}
    BY <1>0, <2>5, <2>11 DEF Recorded
  <2> QED
    BY <2>9, <2>12, <2>13, <2>14, <2>15 DEF InPlace, Recorded
<1>7. ASSUME NEW g \in Gesture, SendsOn(g) PROVE InPlace'
  <2>1. sending[g] = "sending" /\ UNCHANGED <<life, acked, recipients, place>>
    BY <1>7 DEF SendsOn
  <2>2. CASE sending' = [sending EXCEPT ![g] = "done"] /\ UNCHANGED <<left, awaited, edges>>
    <3>1. \A h \in Gesture : sending'[h] = "unsent" => sending[h] = "unsent"
      BY <1>0, <2>2
    <3> QED
      BY <1>0, <2>1, <2>2, <3>1, RecordsNothing
  <2>3. ASSUME NEW s \in left[g], left' = [left EXCEPT ![g] = @ \ {s}],
               Deliver(g, s, place[<<g, s>>])
        PROVE  InPlace'
    <3>1. /\ s \in Session /\ s \in recipients[g]
          /\ place[<<g, s>>] \in 1..(Cardinality(edges[s]) + 1)
      BY <1>0 DEF Recorded
    <3>2. /\ left'[g] = left[g] \ {s} /\ \A h \in Gesture \ {g} : left'[h] = left[h]
      BY <1>0, <2>3
    <3>3. /\ \A r \in Session : Delivered(r) \subseteq Delivered(r)'
          /\ g \in Delivered(s)' /\ g \notin Delivered(s)
      BY <2>1, <3>1, <3>2 DEF Delivered
    <3>4. /\ edges' \in [Session -> SUBSET (1..Cardinality(Gesture))]
          /\ \A r \in Session : PlacesOf(r)'
          /\ \A r \in Session : Cardinality(edges[r]) <= Cardinality(edges'[r])
      BY <1>0, <2>3, <3>1, <3>3, TakesTheNextPlace
    <3>5. /\ awaited' \in [Gesture -> Session \union {Nobody}]
          /\ \A h \in Gesture : sending'[h] = "unsent" => sending[h] = "unsent" /\ h # g
      BY <1>d, <2>3, <3>1
    <3>6. RowTypes'
      BY <1>0, <2>1, <3>4, <3>5 DEF RowTypes
    <3>7. ASSUME NEW h \in Gesture, NEW r \in left'[h]
          PROVE  place'[<<h, r>>] \in 1..(Cardinality(edges'[r]) + 1)
      <4>1. r \in left[h] /\ r \in Session
        BY <1>0, <3>2, <3>7
      <4>2. place[<<h, r>>] \in 1..(Cardinality(edges[r]) + 1)
        BY <1>0, <4>1 DEF Recorded
      <4>3. /\ Cardinality(edges[r]) \in Nat /\ Cardinality(edges'[r]) \in Nat
            /\ Cardinality(edges[r]) <= Cardinality(edges'[r])
        BY <1>0, <3>4, <4>1 DEF Recorded, PlacesOf
      <4> QED
        BY <2>1, <4>2, <4>3
    <3>8. \A h \in Gesture : left'[h] \subseteq recipients'[h]
      BY <1>0, <2>1, <3>2 DEF Recorded
    <3>9. \A h \in Gesture : sending'[h] = "unsent" => recipients'[h] = {}
      BY <1>0, <2>1, <3>5 DEF Recorded
    <3> QED
      BY <3>4, <3>6, <3>7, <3>8, <3>9 DEF InPlace, Recorded
  <2> QED
    BY <1>7, <2>2, <2>3 DEF SendsOn
<1> QED
  BY <1>1, <1>2, <1>3, <1>4, <1>5, <1>6, <1>7 DEF Next, Replay

(* Sessions, gestures, rows and processes are typed, and the places of what is *)
(* sent stay within the number of gestures.                                    *)
THEOREM SentIsTyped == Named => (Spec => []TypeOK)
<1> SUFFICES ASSUME Named PROVE Spec => []TypeOK
  OBVIOUS
<1>1. Init => IndInv /\ InPlace
  BY InitHolds, InPlaceAtFirst
<1>2. IndInv /\ InPlace /\ [Next]_vars => IndInv' /\ InPlace'
  BY NextKeeps, InPlaceKeeps
<1>3. IndInv /\ InPlace => TypeOK
  <2> SUFFICES ASSUME IndInv, InPlace PROVE TypeOK
    OBVIOUS
  <2>1. turns \in [Injection -> 0..2]
    <3>1. turns \in [Injection -> Nat] /\ \A i \in Injection : turns[i] <= 1
      BY DEF IndInv, Shape, Placed, Once
    <3>2. \A i \in Injection : turns[i] \in 0..2
      BY <3>1
    <3> QED
      BY <3>1, <3>2
  <2> QED
    BY <2>1 DEF IndInv, Shape, InPlace, RowTypes, TypeOK
<1> QED
  BY <1>1, <1>2, <1>3, PTL DEF Spec
=============================================================================
