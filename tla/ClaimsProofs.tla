---------------------------- MODULE ClaimsProofs ----------------------------
(***************************************************************************)
(* What is proved of Claims, for any sessions, paths and bounds: there is  *)
(* one writer per path, every claim hangs in a live grantor up to the      *)
(* operator's, the waitlist says between calls what the claims imply,      *)
(* nobody waits in a circle, and no claim is granted past an older wait    *)
(* that could have been granted.                                           *)
(***************************************************************************)
EXTENDS Claims, FiniteSetTheorems, SequenceTheorems, WellFoundedInduction, TLAPS

-----------------------------------------------------------------------------
(* Grant chains, of any claims C and any grantors f. *)

Chain(C, f, c) ==
  {d \in C : \A U \in SUBSET (C \ {d}) : c \in U => \E x \in U : f[x] \notin U}

(* Every claim has a live grantor, and the operator's root is above it. *)
Rooted(C, f) ==
  /\ RootClaim \in C
  /\ f[RootClaim] = RootClaim
  /\ \A c \in C : f[c] \in C /\ RootClaim \in Chain(C, f, c)

(* A chain begins with the claim itself. *)
LEMMA ChainSelf ==
  ASSUME NEW C, NEW f, NEW c \in C
  PROVE  c \in Chain(C, f, c)
BY DEF Chain

(* With a claim, its grantor is on the chain. *)
LEMMA ChainUp ==
  ASSUME NEW C, NEW f, \A x \in C : f[x] \in C, NEW c \in C, NEW x \in Chain(C, f, c)
  PROVE  x \in C /\ f[x] \in Chain(C, f, c)
<1>1. x \in C /\ f[x] \in C
  BY DEF Chain
<1>2. ASSUME NEW U \in SUBSET (C \ {f[x]}), c \in U, \A y \in U : f[y] \in U PROVE FALSE
  <2>1. x \in U
    <3>1. SUFFICES ASSUME x \notin U PROVE FALSE
      OBVIOUS
    <3>2. U \in SUBSET (C \ {x})
      BY <3>1
    <3> QED
      BY <1>2, <3>2 DEF Chain
  <2> QED
    BY <1>2, <2>1
<1> QED
  BY <1>1, <1>2 DEF Chain

(* And nothing else is: what is closed under grantors holds the whole chain. *)
LEMMA ChainLeast ==
  ASSUME NEW C, NEW f, \A x \in C : f[x] \in C, NEW c \in C,
         NEW U, c \in U, \A x \in U \cap C : f[x] \in U
  PROVE  Chain(C, f, c) \subseteq U
<1> SUFFICES ASSUME NEW d \in Chain(C, f, c), d \notin U PROVE FALSE
  OBVIOUS
<1>1. U \cap C \in SUBSET (C \ {d})
  OBVIOUS
<1>2. \A x \in U \cap C : f[x] \in U \cap C
  OBVIOUS
<1> QED
  BY <1>1, <1>2 DEF Chain

(* The chain is the claim and its grantor's chain. *)
LEMMA ChainStep ==
  ASSUME NEW C, NEW f, \A x \in C : f[x] \in C, NEW c \in C
  PROVE  Chain(C, f, c) = {c} \cup Chain(C, f, f[c])
<1>1. Chain(C, f, c) \subseteq {c} \cup Chain(C, f, f[c])
  <2> DEFINE U == {c} \cup Chain(C, f, f[c])
  <2>1. c \in U /\ \A x \in U \cap C : f[x] \in U
    BY ChainSelf, ChainUp
  <2> HIDE DEF U
  <2>2. Chain(C, f, c) \subseteq U
    BY <2>1, ChainLeast
  <2> QED
    BY <2>2 DEF U
<1>2. f[c] \in Chain(C, f, c)
  BY ChainSelf, ChainUp
<1>3. Chain(C, f, f[c]) \subseteq Chain(C, f, c)
  <2>1. \A x \in Chain(C, f, c) \cap C : f[x] \in Chain(C, f, c)
    BY ChainUp
  <2> QED
    BY <1>2, <2>1, ChainLeast
<1> QED
  BY <1>1, <1>3, ChainSelf

(* What is above a claim is above those below it. *)
LEMMA ChainBelow ==
  ASSUME NEW C, NEW f, \A x \in C : f[x] \in C, NEW c \in C, NEW d \in Chain(C, f, c)
  PROVE  Chain(C, f, d) \subseteq Chain(C, f, c)
<1>1. \A x \in Chain(C, f, c) \cap C : f[x] \in Chain(C, f, c)
  BY ChainUp
<1>2. d \in C
  BY DEF Chain
<1> QED
  BY <1>1, <1>2, ChainLeast

(* Nothing is above the root. *)
LEMMA ChainOfRoot ==
  ASSUME NEW C, NEW f, Rooted(C, f)
  PROVE  Chain(C, f, RootClaim) = {RootClaim}
<1>1. \A x \in {RootClaim} \cap C : f[x] \in {RootClaim}
  BY DEF Rooted
<1>2. \A x \in C : f[x] \in C
  BY DEF Rooted
<1>3. RootClaim \in C
  BY DEF Rooted
<1>4. Chain(C, f, RootClaim) \subseteq {RootClaim}
  BY <1>1, <1>2, <1>3, ChainLeast
<1> QED
  BY <1>3, <1>4, ChainSelf

(* No claim is above itself. *)
LEMMA ChainAcyclic ==
  ASSUME NEW C, NEW f, Rooted(C, f), NEW c \in C, c # RootClaim
  PROVE  c \notin Chain(C, f, f[c])
<1> SUFFICES ASSUME c \in Chain(C, f, f[c]) PROVE FALSE
  OBVIOUS
<1> DEFINE U == {x \in C : c \in Chain(C, f, x)}
<1>1. \A x \in C : f[x] \in C
  BY DEF Rooted
<1>2. \A x \in U \cap C : f[x] \in U
  <2>1. ASSUME NEW x \in U PROVE c \in Chain(C, f, f[x])
    <3>1. CASE x = c
      BY <3>1
    <3>2. CASE x # c
      <4>1. Chain(C, f, x) = {x} \cup Chain(C, f, f[x])
        BY <1>1, ChainStep
      <4> QED
        BY <3>2, <4>1
    <3> QED
      BY <3>1, <3>2
  <2> QED
    BY <1>1, <2>1
<1>3. c \in U
  BY ChainSelf
<1>4. Chain(C, f, c) \subseteq U
  <2> HIDE DEF U
  <2> QED
    BY <1>1, <1>2, <1>3, ChainLeast
<1>5. RootClaim \in U
  BY <1>4 DEF Rooted
<1>6. c \in Chain(C, f, RootClaim)
  BY <1>5
<1> QED
  BY <1>6, ChainOfRoot

(* Two claims are not above each other. *)
LEMMA ChainAntisymmetric ==
  ASSUME NEW C, NEW f, Rooted(C, f), NEW c \in C, NEW d \in C,
         c \in Chain(C, f, d), d \in Chain(C, f, c)
  PROVE  c = d
<1> SUFFICES ASSUME c # d PROVE FALSE
  OBVIOUS
<1>1. \A x \in C : f[x] \in C
  BY DEF Rooted
<1>2. CASE c = RootClaim
  BY <1>2, ChainOfRoot
<1>3. CASE c # RootClaim
  <2>1. Chain(C, f, c) = {c} \cup Chain(C, f, f[c])
    BY <1>1, ChainStep
  <2>2. d \in Chain(C, f, f[c])
    BY <2>1
  <2>3. Chain(C, f, d) \subseteq Chain(C, f, f[c])
    BY <1>1, <2>2, ChainBelow
  <2> QED
    BY <1>3, <2>3, ChainAcyclic
<1> QED
  BY <1>2, <1>3

-----------------------------------------------------------------------------
(* The grant tree without R. *)

Survivor(C, f, R, c) ==
  LET left == Chain(C, f, c) \ R
  IN CHOOSE a \in left : \A b \in left : b \in Chain(C, f, a)

(* Above every claim there is a nearest one that is not in R. *)
LEMMA SurvivorExists ==
  ASSUME NEW C, NEW f, Rooted(C, f), NEW R, RootClaim \notin R, NEW c \in C
  PROVE  /\ Survivor(C, f, R, c) \in Chain(C, f, c) \ R
         /\ \A b \in Chain(C, f, c) \ R : b \in Chain(C, f, Survivor(C, f, R, c))
<1> DEFINE Q(x) == \E a \in Chain(C, f, x) \ R : \A b \in Chain(C, f, x) \ R : b \in Chain(C, f, a)
<1> DEFINE U == {x \in C : ~Q(x)}
<1>0. \A x \in C : f[x] \in C
  BY DEF Rooted
<1>1. Q(RootClaim)
  BY ChainOfRoot
<1>2. ASSUME NEW x \in C, Q(f[x]) PROVE Q(x)
  <2>1. Chain(C, f, x) = {x} \cup Chain(C, f, f[x])
    BY <1>0, ChainStep
  <2>2. CASE x \in R
    <3>1. Chain(C, f, x) \ R = Chain(C, f, f[x]) \ R
      BY <2>1, <2>2
    <3> QED
      BY <1>2, <3>1
  <2>3. CASE x \notin R
    <3>1. x \in Chain(C, f, x) \ R
      BY <2>1, <2>3
    <3> QED
      BY <3>1
  <2> QED
    BY <2>2, <2>3
<1>3. Q(c)
  <2>1. SUFFICES ASSUME ~Q(c) PROVE FALSE
    OBVIOUS
  <2>2. c \in U /\ RootClaim \notin U /\ \A x \in U \cap C : f[x] \in U
    BY <1>0, <1>1, <1>2, <2>1
  <2>3. Chain(C, f, c) \subseteq U
    <3> HIDE DEF U
    <3> QED
      BY <1>0, <2>2, ChainLeast
  <2> QED
    BY <2>2, <2>3 DEF Rooted
<1> QED
  BY <1>3 DEF Survivor

(* A claim that stays is its own nearest; one that goes has its grantor's. *)
LEMMA SurvivorStep ==
  ASSUME NEW C, NEW f, Rooted(C, f), NEW R, RootClaim \notin R, NEW c \in C
  PROVE  /\ c \notin R => Survivor(C, f, R, c) = c
         /\ c \in R => Survivor(C, f, R, c) = Survivor(C, f, R, f[c])
<1> DEFINE a == Survivor(C, f, R, c)
<1>1. \A x \in C : f[x] \in C
  BY DEF Rooted
<1>2. /\ a \in Chain(C, f, c) \ R
      /\ \A b \in Chain(C, f, c) \ R : b \in Chain(C, f, a)
  BY SurvivorExists
<1>3. ASSUME c \notin R PROVE a = c
  <2>1. a \in C /\ c \in Chain(C, f, a) /\ a \in Chain(C, f, c)
    BY <1>2, <1>3, ChainSelf DEF Chain
  <2> HIDE DEF a
  <2> QED
    BY <2>1, ChainAntisymmetric
<1>4. ASSUME c \in R PROVE Survivor(C, f, R, c) = Survivor(C, f, R, f[c])
  <2>1. Chain(C, f, c) \ R = Chain(C, f, f[c]) \ R
    BY <1>1, <1>4, ChainStep
  <2> QED
    BY <2>1 DEF Survivor
<1> QED
  BY <1>3, <1>4

(* What hung from R hangs from its nearest survivor: the rest is a tree. *)
LEMMA TreeWithout ==
  ASSUME NEW C, NEW f, Rooted(C, f), NEW R, RootClaim \notin R,
         NEW g, \A c \in C \ R : g[c] = Survivor(C, f, R, f[c])
  PROVE  /\ Rooted(C \ R, g)
         /\ \A c \in C \ R : g[c] \in Chain(C, f, f[c])
<1>1. \A x \in C : f[x] \in C
  BY DEF Rooted
<1>2. ASSUME NEW c \in C \ R PROVE g[c] \in Chain(C, f, f[c]) /\ g[c] \in C \ R
  BY <1>1, SurvivorExists DEF Chain
<1>3. g[RootClaim] = RootClaim
  BY SurvivorStep DEF Rooted
<1>4. ASSUME NEW c \in C \ R PROVE RootClaim \in Chain(C \ R, g, c)
  <2> SUFFICES ASSUME NEW U \in SUBSET ((C \ R) \ {RootClaim}), c \in U, \A x \in U : g[x] \in U
               PROVE  FALSE
    BY DEF Chain, Rooted
  <2> DEFINE W == {x \in C : Survivor(C, f, R, x) \in U}
  <2>1. c \in W
    BY SurvivorStep
  <2>2. ASSUME NEW x \in W PROVE f[x] \in W
    <3>1. CASE x \in R
      BY <1>1, <3>1, SurvivorStep
    <3>2. CASE x \notin R
      <4>1. x \in U
        BY <3>2, SurvivorStep
      <4> QED
        BY <1>1, <3>2, <4>1
    <3> QED
      BY <3>1, <3>2
  <2>3. Chain(C, f, c) \subseteq W
    <3> HIDE DEF W
    <3> QED
      BY <1>1, <2>1, <2>2, ChainLeast
  <2>4. RootClaim \in W
    BY <2>3 DEF Rooted
  <2> QED
    BY <2>4, SurvivorStep DEF Rooted
<1> QED
  BY <1>2, <1>3, <1>4 DEF Rooted

(* A new claim n is above none of those there are. *)
LEMMA ChainWith ==
  ASSUME NEW C, NEW f, Rooted(C, f), NEW n, n \notin C, NEW a \in C,
         NEW g, g[n] = a, \A x \in C : g[x] = f[x], NEW c \in C
  PROVE  Chain(C \cup {n}, g, c) = Chain(C, f, c)
<1> DEFINE D == C \cup {n}
<1>a. \A x \in C : f[x] \in C
  BY DEF Rooted
<1>b. \A x \in D : g[x] \in D
  BY <1>a
<1>1. c \in D
  OBVIOUS
<1>2. \A x \in Chain(C, f, c) \cap D : g[x] \in Chain(C, f, c)
  BY <1>a, ChainUp DEF Chain
<1>3. Chain(D, g, c) \subseteq Chain(C, f, c)
  <2> HIDE DEF D
  <2> QED
    BY <1>b, <1>1, <1>2, ChainSelf, ChainLeast
<1>4. \A x \in Chain(D, g, c) \cap C : f[x] \in Chain(D, g, c)
  <2> HIDE DEF D
  <2> QED
    BY <1>b, <1>1, ChainUp
<1>5. c \in Chain(D, g, c)
  <2> HIDE DEF D
  <2> QED
    BY <1>1, ChainSelf
<1>6. Chain(C, f, c) \subseteq Chain(D, g, c)
  <2> HIDE DEF D
  <2> QED
    BY <1>a, <1>4, <1>5, ChainLeast
<1> QED
  BY <1>3, <1>6

(* It is below its grantor. *)
LEMMA ChainOfNew ==
  ASSUME NEW C, NEW f, Rooted(C, f), NEW n, n \notin C, NEW a \in C,
         NEW g, g[n] = a, \A x \in C : g[x] = f[x]
  PROVE  Chain(C \cup {n}, g, n) = {n} \cup Chain(C, f, a)
<1> DEFINE D == C \cup {n}
<1>1. \A x \in D : g[x] \in D
  BY DEF Rooted
<1>2. n \in D /\ g[n] = a
  OBVIOUS
<1>3. Chain(D, g, n) = {n} \cup Chain(D, g, g[n])
  <2> HIDE DEF D
  <2> QED
    BY <1>1, <1>2, ChainStep
<1>4. Chain(D, g, a) = Chain(C, f, a)
  BY ChainWith
<1> QED
  BY <1>2, <1>3, <1>4

(* The claims with a new one are a tree. *)
LEMMA RootedWith ==
  ASSUME NEW C, NEW f, Rooted(C, f), NEW n, n \notin C, NEW a \in C,
         NEW g, g[n] = a, \A x \in C : g[x] = f[x]
  PROVE  Rooted(C \cup {n}, g)
<1> DEFINE D == C \cup {n}
<1>1. RootClaim \in D /\ g[RootClaim] = RootClaim /\ \A c \in D : g[c] \in D
  BY DEF Rooted
<1>2. \A c \in C : RootClaim \in Chain(D, g, c)
  <2> SUFFICES ASSUME NEW c \in C PROVE RootClaim \in Chain(D, g, c)
    OBVIOUS
  <2>1. Chain(D, g, c) = Chain(C, f, c)
    BY ChainWith
  <2> QED
    BY <2>1 DEF Rooted
<1>3. RootClaim \in Chain(D, g, n)
  BY ChainOfNew DEF Rooted
<1> HIDE DEF D
<1>4. \A c \in D : RootClaim \in Chain(D, g, c)
  BY <1>2, <1>3 DEF D
<1> QED
  BY <1>1, <1>4 DEF Rooted, D

-----------------------------------------------------------------------------
(* Paths. *)

(* Enclosing is transitive, and everything is within the root. *)
LEMMA Within ==
  ASSUME NEW p \in Path, NEW q \in Path, NEW r \in Path
  PROVE  /\ IsWithin(p, p)
         /\ IsWithin(p, RootPath)
         /\ IsWithin(p, q) /\ IsWithin(q, r) => IsWithin(p, r)
         /\ IsWithin(p, q) /\ IsWithin(p, r) /\ Len(q) <= Len(r) => IsWithin(r, q)
         /\ IsWithin(p, q) /\ IsWithin(p, r) /\ Len(q) = Len(r) => q = r
<1>1. p \in Seq(Segment) /\ q \in Seq(Segment) /\ r \in Seq(Segment)
  BY PathsWellFormed
<1>2. Len(p) \in Nat /\ Len(q) \in Nat /\ Len(r) \in Nat
  BY <1>1
<1>3. IsWithin(p, p) /\ IsWithin(p, RootPath)
  BY <1>2 DEF IsWithin, RootPath
<1>4. IsWithin(p, q) /\ IsWithin(q, r) => IsWithin(p, r)
  BY <1>2 DEF IsWithin
<1>5. IsWithin(p, q) /\ IsWithin(p, r) /\ Len(q) <= Len(r) => IsWithin(r, q)
  BY <1>2 DEF IsWithin
<1>6. IsWithin(p, q) /\ IsWithin(p, r) /\ Len(q) = Len(r) => q = r
  <2> SUFFICES ASSUME IsWithin(p, q), IsWithin(p, r), Len(q) = Len(r) PROVE q = r
    OBVIOUS
  <2>1. \A i \in 1..Len(q) : q[i] = r[i]
    BY <1>2 DEF IsWithin
  <2> QED
    BY <1>1, <2>1, SeqEqual
<1> QED
  BY <1>3, <1>4, <1>5, <1>6

-----------------------------------------------------------------------------
(* The claims. *)

ClaimsHang ==
  /\ claims \subseteq Claim
  /\ from \in [Claim -> Claim]
  /\ Rooted(claims, from)
  /\ \A c \in claims \ {RootClaim} : from[c] # c /\ IsWithin(c.path, from[c].path)

(* A path is held by one session, and by the operator only at the root. *)
OneHolder ==
  /\ IsFiniteSet(claims)
  /\ \A c \in claims : c.holder = Operator => c = RootClaim
  /\ \A c, d \in claims : c.holder \in Session /\ d.holder \in Session /\ c.path = d.path => c = d

(* Leases are of live claims that have one, policies of live claims. *)
Attachments ==
  /\ lapsed \subseteq claims \ {RootClaim}
  /\ policies \subseteq Policy
  /\ PoliciesLive

ClaimsInv == ClaimsHang /\ OneHolder /\ Attachments

(* The waitlist and the promotion are typed. *)
WaitsTyped ==
  /\ waits \in Seq(Wait)
  /\ fresh \subseteq Keys
  /\ phase \in {"idle", "promoting", "breaking"}
  /\ todo \in Seq(Session \X Path)
  /\ progressed \in BOOLEAN

(* Chains of the claims there are, before a step and after it. *)
LEMMA ChainsAre ==
  /\ \A c : GrantChain(c) = Chain(claims, from, c)
  /\ \A c : GrantChain(c)' = Chain(claims', from', c)
BY DEF GrantChain, Chain

LEMMA SurvivorsAre == \A c, R : NearestSurvivor(c, R) = Survivor(claims, from, R, from[c])
BY DEF NearestSurvivor, Survivor, GrantChain, Chain

(* What a grant is, whoever makes it. *)
Grants(s, p, a) ==
  /\ ~AlreadyHeld(s, p)
  /\ Blockers(s, p) = {}
  /\ a \in claims
  /\ IsAuthority(a, s, p)
  /\ GrantFrom(a, s, p)
  /\ UNCHANGED <<lapsed, policies>>

(* A step grants a claim, releases some, or leaves the claims as they are. *)
Stays ==
  /\ UNCHANGED <<claims, from>>
  /\ \/ UNCHANGED lapsed
     \/ lapsed' \subseteq claims \ {RootClaim}
  /\ \/ policies' \subseteq policies
     \/ \E c \in claims, p \in Path, effect \in {"allow", "deny"} :
          /\ IsWithin(p, c.path)
          /\ policies' = policies \cup {[claim |-> c, subtree |-> p, effect |-> effect]}

LEMMA RootStays ==
  ASSUME ClaimsInv, NEW c \in claims \ {RootClaim}
  PROVE  SubClaims(c) \subseteq claims \ {RootClaim}
BY ChainsAre, ChainOfRoot DEF ClaimsInv, ClaimsHang, SubClaims

LEMMA StepKinds ==
  ASSUME ClaimsInv, WaitsTyped, [Next]_vars
  PROVE  \/ Stays
         \/ \E s \in Session, p \in Path, a \in claims : Grants(s, p, a)
         \/ \E R \in SUBSET (claims \ {RootClaim}) : Release(R)
<1>0. \A i \in DOMAIN waits : waits[i].session \in Session /\ waits[i].path \in Path
  <2>1. \A i \in DOMAIN waits : waits[i] \in Wait
    BY DEF WaitsTyped
  <2> QED
    BY <2>1 DEF Wait
<1>1. ASSUME NEW s \in Session, NEW p \in Path, RequestGranted(s, p) \/ Grant(s, p)
      PROVE  \E a \in claims : Grants(s, p, a)
  BY <1>1 DEF RequestGranted, Grant, Grants
<1>2. ASSUME NEW s \in Session, NEW p \in Path, RequestWaits(s, p) PROVE Stays
  BY <1>2 DEF RequestWaits, Stays
<1>3. ASSUME NEW s \in Session, EndSession(s)
      PROVE  \E R \in SUBSET (claims \ {RootClaim}) : Release(R)
  <2>1. {c \in claims : c.holder = s} \in SUBSET (claims \ {RootClaim})
    BY OperatorIsNoSession DEF RootClaim
  <2> QED
    BY <1>3, <2>1 DEF EndSession
<1>4. ASSUME NEW i \in DOMAIN waits, AnswerGrants(i) \/ PromoteGrants(i)
      PROVE  \E s \in Session, p \in Path, a \in claims : Grants(s, p, a)
  BY <1>0, <1>4 DEF AnswerGrants, PromoteGrants, Grants
<1>5. ASSUME NEW i \in DOMAIN waits,
             \/ AnswerAuthorizes(i) \/ WithdrawWait(i) \/ PromoteRemoves(i)
             \/ PromoteSyncs(i) \/ BreakDeadlock(i)
      PROVE  Stays
  BY <1>5 DEF AnswerAuthorizes, WithdrawWait, PromoteRemoves, PromoteSyncs, BreakDeadlock, Stays
<1>6. ASSUME NEW c \in claims, YieldClaim(c) \/ ForceReleaseCascading(c)
      PROVE  \E R \in SUBSET (claims \ {RootClaim}) : Release(R)
  <2>1. CASE YieldClaim(c)
    BY <2>1 DEF YieldClaim
  <2>2. CASE ForceReleaseCascading(c)
    BY <2>2, RootStays DEF ForceReleaseCascading
  <2> QED
    BY <1>6, <2>1, <2>2
<1>7. ASSUME NEW c \in claims, NEW p \in Path, NEW effect \in {"allow", "deny"},
             DeclarePolicy(c, p, effect)
      PROVE  Stays
  BY <1>7 DEF DeclarePolicy, Stays
<1>8. ASSUME NEW q \in policies, WithdrawPolicy(q) PROVE Stays
  BY <1>8 DEF WithdrawPolicy, Stays
<1>9. CASE Sweep
  BY <1>9 DEF Sweep, ClaimsInv, Attachments
<1>10. CASE Tick
  <2>1. PICK L \in SUBSET (claims \ {RootClaim}) : lapsed' = lapsed \cup L
    BY <1>10 DEF Tick
  <2> QED
    BY <1>10, <2>1 DEF Tick, Stays, ClaimsInv, Attachments
<1>11. CASE PassEnds \/ PromotionEnds \/ UNCHANGED vars
  BY <1>11 DEF PassEnds, PromotionEnds, vars, Stays
<1> QED
  BY <1>1, <1>2, <1>3, <1>4, <1>5, <1>6, <1>7, <1>8, <1>9, <1>10, <1>11
     DEF Next, SessionStep, WaitStep, ClaimStep, PromotionStep

(* Granting keeps the claims in order. *)
LEMMA GrantKeeps ==
  ASSUME ClaimsInv, NEW s \in Session, NEW p \in Path, NEW a \in claims, Grants(s, p, a)
  PROVE  ClaimsInv'
<1> DEFINE n == ClaimOf(s, p)
<1>1. /\ claims' = claims \cup {n} /\ from' = [from EXCEPT ![n] = a]
      /\ UNCHANGED <<lapsed, policies>>
  BY DEF Grants, GrantFrom
<1>2. n \in Claim /\ n.holder = s /\ n.path = p /\ n # RootClaim /\ a \in Claim /\ s # Operator
  BY OperatorIsNoSession DEF ClaimOf, Claim, RootClaim, ClaimsInv, ClaimsHang
<1>3. n \notin claims
  BY <1>2, Within DEF Grants, AlreadyHeld
<1>4. IsWithin(p, a.path)
  BY DEF Grants, IsAuthority, DeepestIn
<1> HIDE DEF n
<1>5. from'[n] = a /\ \A c \in claims : from'[c] = from[c]
  BY <1>1, <1>2, <1>3 DEF ClaimsInv, ClaimsHang
<1>6. ClaimsHang'
  <2>1. Rooted(claims', from')
    <3>1. Rooted(claims, from)
      BY DEF ClaimsInv, ClaimsHang
    <3>2. Rooted(claims \cup {n}, from')
      BY <1>3, <1>5, <3>1, RootedWith
    <3> QED
      BY <1>1, <3>2
  <2>2. claims' \subseteq Claim /\ from' \in [Claim -> Claim]
    BY <1>1, <1>2 DEF ClaimsInv, ClaimsHang
  <2>3. \A c \in claims' \ {RootClaim} : from'[c] # c /\ IsWithin(c.path, from'[c].path)
    BY <1>1, <1>2, <1>3, <1>4, <1>5 DEF ClaimsInv, ClaimsHang
  <2> QED
    BY <2>1, <2>2, <2>3 DEF ClaimsHang
<1>7. OneHolder'
  <2>1. IsFiniteSet(claims')
    BY <1>1, FS_AddElement DEF ClaimsInv, OneHolder
  <2>2. ASSUME NEW c \in claims, c.holder \in Session, c.path = p PROVE FALSE
    <3>1. IsWithin(c.path, p)
      BY <2>2, Within
    <3>2. c.holder = s
      BY <2>2, <3>1 DEF Grants, Blockers
    <3> QED
      BY <2>2, <3>1, <3>2 DEF Grants, AlreadyHeld
  <2> QED
    BY <1>1, <1>2, <2>1, <2>2 DEF ClaimsInv, OneHolder
<1>8. Attachments'
  BY <1>1 DEF ClaimsInv, Attachments, PoliciesLive
<1> QED
  BY <1>6, <1>7, <1>8 DEF ClaimsInv

(* So does releasing. *)
LEMMA ReleaseKeeps ==
  ASSUME ClaimsInv, NEW R \in SUBSET (claims \ {RootClaim}), Release(R)
  PROVE  ClaimsInv'
<1>1. /\ claims' = claims \ R /\ lapsed' = lapsed \ R
      /\ from' = [c \in Claim |->
                    IF c \in claims \ R THEN Survivor(claims, from, R, from[c]) ELSE RootClaim]
      /\ policies' = {q \in policies : q.claim \notin R}
  BY SurvivorsAre DEF Release
<1>2. Rooted(claims, from) /\ claims \subseteq Claim
  BY DEF ClaimsInv, ClaimsHang
<1>3. /\ Rooted(claims', from')
      /\ \A c \in claims' : from'[c] \in Chain(claims, from, from[c])
  <2>1. \A c \in claims \ R : from'[c] = Survivor(claims, from, R, from[c])
    BY <1>1, <1>2
  <2> QED
    BY <1>1, <1>2, <2>1, TreeWithout
<1>4. ASSUME NEW c \in claims' \ {RootClaim}
      PROVE  from'[c] # c /\ IsWithin(c.path, from'[c].path)
  <2>1. c \in claims
    BY <1>1
  <2>2. from'[c] # c
    BY <1>2, <1>3, <2>1, ChainAcyclic
  <2> DEFINE U == {x \in claims : IsWithin(c.path, x.path)}
  <2>3. \A x \in claims : x.path \in Path /\ from[x] \in claims
    BY <1>2 DEF Claim, Rooted
  <2>4. ASSUME NEW x \in U PROVE from[x] \in U
    <3>1. CASE x = RootClaim
      BY <1>2, <3>1 DEF Rooted
    <3>2. CASE x # RootClaim
      <4>1. IsWithin(x.path, from[x].path)
        BY <3>2 DEF ClaimsInv, ClaimsHang
      <4>2. IsWithin(c.path, x.path) /\ c.path \in Path /\ x.path \in Path /\ from[x].path \in Path
        BY <2>1, <2>3
      <4> QED
        BY <2>3, <4>1, <4>2, Within
    <3> QED
      BY <3>1, <3>2
  <2>5. from[c] \in U
    BY <2>1, <2>3 DEF ClaimsInv, ClaimsHang
  <2>6. Chain(claims, from, from[c]) \subseteq U
    <3> HIDE DEF U
    <3> QED
      BY <2>3, <2>1, <2>4, <2>5, ChainLeast
  <2> QED
    BY <1>3, <2>2, <2>6
<1>5. ClaimsHang'
  <2>1. from' \in [Claim -> Claim]
    <3>1. RootClaim \in Claim
      BY <1>2 DEF Rooted
    <3>2. \A c \in claims \ R : from'[c] \in Claim
      BY <1>1, <1>2, <1>3 DEF Rooted
    <3> QED
      BY <1>1, <3>1, <3>2
  <2> QED
    BY <1>1, <1>2, <1>3, <1>4, <2>1 DEF ClaimsHang
<1>6. OneHolder'
  BY <1>1, FS_Subset DEF ClaimsInv, OneHolder
<1>7. Attachments'
  BY <1>1 DEF ClaimsInv, Attachments, PoliciesLive
<1> QED
  BY <1>5, <1>6, <1>7 DEF ClaimsInv

(* And every other step. *)
LEMMA StaysKeeps ==
  ASSUME ClaimsInv, Stays
  PROVE  ClaimsInv'
<1>1. ClaimsHang' /\ OneHolder'
  BY DEF Stays, ClaimsInv, ClaimsHang, OneHolder
<1>2. Attachments'
  <2>1. lapsed' \subseteq claims' \ {RootClaim}
    BY DEF Stays, ClaimsInv, Attachments
  <2>2. CASE policies' \subseteq policies
    BY <2>1, <2>2 DEF Stays, ClaimsInv, Attachments, PoliciesLive
  <2>3. ASSUME NEW c \in claims, NEW p \in Path, NEW effect \in {"allow", "deny"},
               IsWithin(p, c.path),
               policies' = policies \cup {[claim |-> c, subtree |-> p, effect |-> effect]}
        PROVE  Attachments'
    <3> DEFINE q == [claim |-> c, subtree |-> p, effect |-> effect]
    <3>1. q \in Policy /\ q.claim = c /\ q.subtree = p
      BY DEF Policy, ClaimsInv, ClaimsHang
    <3> HIDE DEF q
    <3>2. policies' = policies \cup {q}
      BY <2>3 DEF q
    <3> QED
      BY <2>1, <2>3, <3>1, <3>2 DEF Stays, ClaimsInv, Attachments, PoliciesLive
  <2> QED
    BY <2>2, <2>3 DEF Stays
<1> QED
  BY <1>1, <1>2 DEF ClaimsInv

LEMMA ClaimsKeep ==
  ASSUME ClaimsInv, WaitsTyped, [Next]_vars
  PROVE  ClaimsInv'
BY StepKinds, GrantKeeps, ReleaseKeeps, StaysKeeps

(* At first there is the operator's root. *)
LEMMA ClaimsAtFirst == Init => ClaimsInv
<1> SUFFICES ASSUME Init PROVE ClaimsInv
  OBVIOUS
<1>1. RootClaim \in Claim
  BY PathsWellFormed DEF RootClaim, Claim
<1>2. ClaimsHang
  <2>1. claims = {RootClaim} /\ from = [c \in Claim |-> RootClaim]
    BY DEF Init
  <2>2. Rooted(claims, from)
    BY <1>1, <2>1, ChainSelf DEF Rooted
  <2> QED
    BY <1>1, <2>1, <2>2 DEF ClaimsHang
<1>3. OneHolder
  BY FS_Singleton, OperatorIsNoSession DEF Init, OneHolder, RootClaim
<1>4. Attachments
  BY DEF Init, Attachments, PoliciesLive
<1> QED
  BY <1>2, <1>3, <1>4 DEF ClaimsInv

-----------------------------------------------------------------------------
(* The waitlist. *)

(* A place taken and a place given up in a sequence. *)
LEMMA InsertIs ==
  ASSUME NEW S, NEW q \in Seq(S), NEW i \in 1..(Len(q) + 1), NEW e \in S
  PROVE  /\ InsertAt(q, i, e) \in Seq(S)
         /\ Len(InsertAt(q, i, e)) = Len(q) + 1
         /\ \A j \in 1..(Len(q) + 1) :
              InsertAt(q, i, e)[j] = IF j < i THEN q[j] ELSE IF j = i THEN e ELSE q[j - 1]
<1> DEFINE front == SubSeq(q, 1, i - 1)
           back == SubSeq(q, i, Len(q))
<1>0. Len(q) \in Nat /\ i \in Int /\ 1 <= i /\ i <= Len(q) + 1 /\ \A j \in 1..Len(q) : q[j] \in S
  OBVIOUS
<1>1. front \in Seq(S) /\ Len(front) = i - 1 /\ \A j \in 1..(i - 1) : front[j] = q[j]
  <2>1. \A j \in 1..(i - 1) : q[j] \in S
    BY <1>0
  <2> QED
    BY <1>0, <2>1, SubSeqProperties
<1>2. back \in Seq(S) /\ Len(back) = Len(q) - i + 1
      /\ \A j \in 1..(Len(q) - i + 1) : back[j] = q[i + j - 1]
  <2>1. \A j \in i..Len(q) : q[j] \in S
    BY <1>0
  <2> QED
    BY <1>0, <2>1, SubSeqProperties
<1>3. <<e>> \in Seq(S) /\ Len(<<e>>) = 1 /\ <<e>>[1] = e
  OBVIOUS
<1> HIDE DEF front, back
<1>4. /\ front \o <<e>> \in Seq(S) /\ Len(front \o <<e>>) = i
      /\ \A j \in 1..i : (front \o <<e>>)[j] = IF j < i THEN q[j] ELSE e
  <2>1. /\ front \o <<e>> \in Seq(S) /\ Len(front \o <<e>>) = Len(front) + Len(<<e>>)
        /\ \A j \in 1..(Len(front) + Len(<<e>>)) :
             (front \o <<e>>)[j] = IF j <= Len(front) THEN front[j] ELSE <<e>>[j - Len(front)]
    BY <1>1, <1>3, ConcatProperties
  <2> QED
    BY <1>0, <1>1, <1>3, <2>1
<1>5. /\ (front \o <<e>>) \o back \in Seq(S)
      /\ Len((front \o <<e>>) \o back) = Len(q) + 1
      /\ \A j \in 1..(Len(q) + 1) : ((front \o <<e>>) \o back)[j] =
           IF j <= i THEN (front \o <<e>>)[j] ELSE back[j - i]
  BY <1>0, <1>2, <1>4, ConcatProperties, SMTT(30)
<1>6. \A j \in 1..(Len(q) + 1) : j > i => back[j - i] = q[j - 1]
  BY <1>0, <1>2
<1>7. InsertAt(q, i, e) = (front \o <<e>>) \o back
  BY DEF InsertAt, front, back
<1>8. ASSUME NEW j \in 1..(Len(q) + 1)
      PROVE  ((front \o <<e>>) \o back)[j] =
               IF j < i THEN q[j] ELSE IF j = i THEN e ELSE q[j - 1]
  <2>1. CASE j > i
    BY <1>0, <1>5, <1>6, <2>1
  <2>2. CASE j <= i
    <3>1. j \in 1..i
      BY <2>2
    <3> QED
      BY <1>4, <1>5, <2>2, <3>1
  <2>3. j > i \/ j <= i
    BY <1>0
  <2> QED
    BY <2>1, <2>2, <2>3
<1> QED
  BY <1>5, <1>7, <1>8

LEMMA RemoveIs ==
  ASSUME NEW S, NEW q \in Seq(S), NEW i \in 1..Len(q)
  PROVE  /\ RemoveAt(q, i) \in Seq(S)
         /\ Len(RemoveAt(q, i)) = Len(q) - 1
         /\ \A j \in 1..(Len(q) - 1) : RemoveAt(q, i)[j] = IF j < i THEN q[j] ELSE q[j + 1]
<1> DEFINE front == SubSeq(q, 1, i - 1)
           back == SubSeq(q, i + 1, Len(q))
<1>0. Len(q) \in Nat /\ i \in Int /\ 1 <= i /\ i <= Len(q) /\ \A j \in 1..Len(q) : q[j] \in S
  OBVIOUS
<1>1. front \in Seq(S) /\ Len(front) = i - 1 /\ \A j \in 1..(i - 1) : front[j] = q[j]
  <2>1. \A j \in 1..(i - 1) : q[j] \in S
    BY <1>0
  <2> QED
    BY <1>0, <2>1, SubSeqProperties
<1>2. back \in Seq(S) /\ Len(back) = Len(q) - i
      /\ \A j \in 1..(Len(q) - i) : back[j] = q[i + j]
  <2>1. \A j \in (i + 1)..Len(q) : q[j] \in S
    BY <1>0
  <2> QED
    BY <1>0, <2>1, SubSeqProperties
<1> HIDE DEF front, back
<1>3. /\ front \o back \in Seq(S) /\ Len(front \o back) = Len(q) - 1
      /\ \A j \in 1..(Len(q) - 1) : (front \o back)[j] =
           IF j <= i - 1 THEN front[j] ELSE back[j - (i - 1)]
  <2>1. /\ front \o back \in Seq(S) /\ Len(front \o back) = Len(front) + Len(back)
        /\ \A j \in 1..(Len(front) + Len(back)) :
             (front \o back)[j] = IF j <= Len(front) THEN front[j] ELSE back[j - Len(front)]
    BY <1>1, <1>2, ConcatProperties
  <2>2. Len(front) + Len(back) = Len(q) - 1
    BY <1>0, <1>1, <1>2
  <2> QED
    BY <1>1, <2>1, <2>2
<1>4. \A j \in 1..(Len(q) - 1) : j >= i => back[j - (i - 1)] = q[j + 1]
  BY <1>0, <1>2
<1>5. RemoveAt(q, i) = front \o back
  BY DEF RemoveAt, front, back
<1> QED
  BY <1>0, <1>1, <1>3, <1>4, <1>5

(* Every session waits for a path once. *)
OneWaitEach(q) == \A i, j \in DOMAIN q : KeyOf(q[i]) = KeyOf(q[j]) => i = j

(* What becomes of the waitlist: nothing, a new row, one less, a row brought *)
(* up to date, or the rows of others.                                        *)
Joined(w) ==
  /\ w \in Wait
  /\ KeyOf(w) \notin Keys
  /\ JoinWaits(w)
Updated(i, w) ==
  /\ w \in Wait
  /\ KeyOf(w) = KeyOf(waits[i])
  /\ waits' = [waits EXCEPT ![i] = w]
  /\ fresh' = fresh
Thinned ==
  \E s \in Session :
  \E kept \in InTheirOrder({i \in DOMAIN waits : waits[i].session # s}) :
    /\ waits' = [n \in DOMAIN kept |-> waits[kept[n]]]
    /\ fresh' = {k \in fresh : k[1] # s}

(* A key is a session's and a path's. *)
LEMMA KeysAre == \A w \in Wait : KeyOf(w) \in Session \X Path
BY DEF Wait, KeyOf

(* The rows after a step of each kind. *)
LEMMA RowsJoined ==
  ASSUME waits \in Seq(Wait), OneWaitEach(waits), NEW w, Joined(w)
  PROVE  /\ waits' \in Seq(Wait) /\ OneWaitEach(waits')
         /\ ToSet(waits') = ToSet(waits) \cup {w}
         /\ \A j \in DOMAIN waits' : waits'[j] = w \/ \E i \in DOMAIN waits : waits'[j] = waits[i]
         /\ Keys' = Keys \cup {KeyOf(w)}
         /\ fresh' = fresh \cup {KeyOf(w)}
<1>1. PICK i \in 1..(Len(waits) + 1) : waits' = InsertAt(waits, i, w)
  BY DEF Joined, JoinWaits
<1>2. /\ Len(waits) \in Nat /\ DOMAIN waits = 1..Len(waits)
      /\ \A j \in 1..Len(waits) : KeyOf(waits[j]) # KeyOf(w)
  BY DEF Joined, Keys
<1>3. /\ waits' \in Seq(Wait) /\ Len(waits') = Len(waits) + 1
      /\ \A j \in 1..(Len(waits) + 1) :
           waits'[j] = IF j < i THEN waits[j] ELSE IF j = i THEN w ELSE waits[j - 1]
  <2>1. w \in Wait
    BY DEF Joined
  <2> QED
    BY <1>1, <2>1, InsertIs, SMTT(30)
<1>4. DOMAIN waits' = 1..(Len(waits) + 1)
  BY <1>3
<1>5. OneWaitEach(waits')
  <2> SUFFICES ASSUME NEW j \in 1..(Len(waits) + 1), NEW k \in 1..(Len(waits) + 1),
                      KeyOf(waits'[j]) = KeyOf(waits'[k])
               PROVE  j = k
    BY <1>4 DEF OneWaitEach
  <2>1. j = i <=> k = i
    BY <1>2, <1>3
  <2>2. CASE j = i
    BY <2>1, <2>2
  <2>3. CASE j # i
    <3> DEFINE at(n) == IF n < i THEN n ELSE n - 1
    <3>1. /\ waits'[j] = waits[at(j)] /\ waits'[k] = waits[at(k)]
          /\ at(j) \in 1..Len(waits) /\ at(k) \in 1..Len(waits)
      BY <1>2, <1>3, <2>1, <2>3
    <3>2. at(j) = at(k)
      <4> HIDE DEF at
      <4> QED
        BY <1>2, <3>1 DEF OneWaitEach
    <3> QED
      BY <2>1, <2>3, <3>2
  <2> QED
    BY <2>2, <2>3
<1>6. \A j \in 1..Len(waits) : \E k \in 1..(Len(waits) + 1) : waits'[k] = waits[j]
  <2> TAKE j \in 1..Len(waits)
  <2>1. CASE j < i
    BY <1>2, <1>3, <2>1
  <2>2. CASE j >= i
    <3>1. j + 1 \in 1..(Len(waits) + 1) /\ waits'[j + 1] = waits[j]
      BY <1>2, <1>3, <2>2
    <3> QED
      BY <3>1
  <2> QED
    BY <1>2, <2>1, <2>2
<1>7. \A j \in 1..(Len(waits) + 1) : waits'[j] = w \/ \E k \in 1..Len(waits) : waits'[j] = waits[k]
  <2> TAKE j \in 1..(Len(waits) + 1)
  <2>1. CASE j < i
    <3>1. j \in 1..Len(waits) /\ waits'[j] = waits[j]
      BY <1>2, <1>3, <2>1
    <3> QED
      BY <3>1
  <2>2. CASE j > i
    <3>1. j - 1 \in 1..Len(waits) /\ waits'[j] = waits[j - 1]
      BY <1>2, <1>3, <2>2
    <3> QED
      BY <3>1
  <2> QED
    BY <1>2, <1>3, <2>1, <2>2
<1>8. waits'[i] = w
  BY <1>2, <1>3
<1>9. ToSet(waits') = ToSet(waits) \cup {w}
  <2>1. ToSet(waits) = {waits[j] : j \in 1..Len(waits)}
    BY <1>2 DEF ToSet
  <2>2. ToSet(waits') = {waits'[j] : j \in 1..(Len(waits) + 1)}
    BY <1>4 DEF ToSet
  <2> QED
    BY <1>6, <1>7, <1>8, <2>1, <2>2
<1>10. Keys' = Keys \cup {KeyOf(w)}
  <2>1. Keys = {KeyOf(waits[j]) : j \in 1..Len(waits)}
    BY <1>2 DEF Keys
  <2>2. Keys' = {KeyOf(waits'[j]) : j \in 1..(Len(waits) + 1)}
    BY <1>4 DEF Keys
  <2> QED
    BY <1>6, <1>7, <1>8, <2>1, <2>2
<1> QED
  BY <1>2, <1>3, <1>4, <1>5, <1>7, <1>9, <1>10 DEF Joined, JoinWaits

LEMMA RowsRemoved ==
  ASSUME waits \in Seq(Wait), OneWaitEach(waits), NEW i \in DOMAIN waits, WithoutWait(i)
  PROVE  /\ waits' \in Seq(Wait) /\ OneWaitEach(waits')
         /\ \A j \in DOMAIN waits' : \E k \in DOMAIN waits \ {i} : waits'[j] = waits[k]
         /\ Keys' = Keys \ {KeyOf(waits[i])}
         /\ fresh' = fresh \ {KeyOf(waits[i])}
         /\ \A j, k \in DOMAIN waits' : j < k =>
              \E m, n \in DOMAIN waits : m < n /\ waits'[j] = waits[m] /\ waits'[k] = waits[n]
<1>1. Len(waits) \in Nat /\ DOMAIN waits = 1..Len(waits) /\ i \in 1..Len(waits)
  OBVIOUS
<1>2. /\ waits' \in Seq(Wait) /\ Len(waits') = Len(waits) - 1
      /\ \A j \in 1..(Len(waits) - 1) : waits'[j] = IF j < i THEN waits[j] ELSE waits[j + 1]
  BY <1>1, RemoveIs DEF WithoutWait
<1>3. DOMAIN waits' = 1..(Len(waits) - 1)
  BY <1>2
<1>4. \A j, k \in 1..(Len(waits) - 1) : j < k =>
        \E m, n \in 1..Len(waits) : m < n /\ waits'[j] = waits[m] /\ waits'[k] = waits[n]
  BY <1>1, <1>2
<1>5. OneWaitEach(waits')
  <2> SUFFICES ASSUME NEW j \in 1..(Len(waits) - 1), NEW k \in 1..(Len(waits) - 1),
                      KeyOf(waits'[j]) = KeyOf(waits'[k])
               PROVE  j = k
    BY <1>3 DEF OneWaitEach
  <2> DEFINE at(n) == IF n < i THEN n ELSE n + 1
  <2>1. /\ waits'[j] = waits[at(j)] /\ waits'[k] = waits[at(k)]
        /\ at(j) \in 1..Len(waits) /\ at(k) \in 1..Len(waits)
    BY <1>1, <1>2
  <2>2. at(j) = at(k)
    <3> HIDE DEF at
    <3> QED
      BY <1>1, <2>1 DEF OneWaitEach
  <2> QED
    BY <1>1, <2>2
<1>6. \A j \in 1..(Len(waits) - 1) : \E k \in (1..Len(waits)) \ {i} : waits'[j] = waits[k]
  <2> TAKE j \in 1..(Len(waits) - 1)
  <2>1. CASE j < i
    <3>1. j \in (1..Len(waits)) \ {i} /\ waits'[j] = waits[j]
      BY <1>1, <1>2, <2>1
    <3> QED
      BY <3>1
  <2>2. CASE j >= i
    <3>1. j + 1 \in (1..Len(waits)) \ {i} /\ waits'[j] = waits[j + 1]
      BY <1>1, <1>2, <2>2
    <3> QED
      BY <3>1
  <2> QED
    BY <1>1, <2>1, <2>2
<1>7. \A k \in (1..Len(waits)) \ {i} : \E j \in 1..(Len(waits) - 1) : waits'[j] = waits[k]
  <2> TAKE k \in (1..Len(waits)) \ {i}
  <2>1. CASE k < i
    <3>1. k \in 1..(Len(waits) - 1) /\ waits'[k] = waits[k]
      BY <1>1, <1>2, <2>1
    <3> QED
      BY <3>1
  <2>2. CASE k > i
    <3>1. k - 1 \in 1..(Len(waits) - 1) /\ waits'[k - 1] = waits[k]
      BY <1>1, <1>2, <2>2
    <3> QED
      BY <3>1
  <2> QED
    BY <1>1, <2>1, <2>2
<1>8. Keys' = Keys \ {KeyOf(waits[i])}
  <2>1. \A k \in (1..Len(waits)) \ {i} : KeyOf(waits[k]) # KeyOf(waits[i])
    BY <1>1 DEF OneWaitEach
  <2>2. Keys = {KeyOf(waits[j]) : j \in 1..Len(waits)}
    BY <1>1 DEF Keys
  <2>3. Keys' = {KeyOf(waits'[j]) : j \in 1..(Len(waits) - 1)}
    BY <1>3 DEF Keys
  <2>4. \A k \in Keys' : k \in Keys \ {KeyOf(waits[i])}
    BY <1>6, <2>1, <2>2, <2>3
  <2>5. \A k \in Keys \ {KeyOf(waits[i])} : k \in Keys'
    BY <1>7, <2>2, <2>3
  <2> QED
    BY <2>4, <2>5
<1>9. \A j \in DOMAIN waits' : \E k \in DOMAIN waits \ {i} : waits'[j] = waits[k]
  BY <1>1, <1>3, <1>6
<1>10. ASSUME NEW j \in DOMAIN waits', NEW k \in DOMAIN waits', j < k
       PROVE  \E m, n \in DOMAIN waits : m < n /\ waits'[j] = waits[m] /\ waits'[k] = waits[n]
  <2>1. j \in 1..(Len(waits) - 1) /\ k \in 1..(Len(waits) - 1)
    BY <1>3
  <2>2. \E m, n \in 1..Len(waits) : m < n /\ waits'[j] = waits[m] /\ waits'[k] = waits[n]
    BY <1>4, <1>10, <2>1
  <2> QED
    BY <1>1, <2>2
<1> QED
  BY <1>2, <1>5, <1>8, <1>9, <1>10 DEF WithoutWait

LEMMA RowsUpdated ==
  ASSUME waits \in Seq(Wait), OneWaitEach(waits), NEW i \in DOMAIN waits, NEW w, Updated(i, w)
  PROVE  /\ waits' \in Seq(Wait) /\ OneWaitEach(waits')
         /\ DOMAIN waits' = DOMAIN waits
         /\ waits'[i] = w /\ \A j \in DOMAIN waits \ {i} : waits'[j] = waits[j]
         /\ \A j \in DOMAIN waits : KeyOf(waits'[j]) = KeyOf(waits[j])
         /\ Keys' = Keys
<1>1. /\ DOMAIN waits' = DOMAIN waits /\ waits'[i] = w
      /\ \A j \in DOMAIN waits \ {i} : waits'[j] = waits[j]
  BY DEF Updated
<1>2. waits' \in Seq(Wait)
  BY DEF Updated
<1>3. \A j \in DOMAIN waits : KeyOf(waits'[j]) = KeyOf(waits[j])
  BY <1>1 DEF Updated
<1> QED
  BY <1>1, <1>2, <1>3 DEF OneWaitEach, Keys

LEMMA RowsThinned ==
  ASSUME waits \in Seq(Wait), OneWaitEach(waits), fresh \subseteq Keys, Thinned
  PROVE  waits' \in Seq(Wait) /\ OneWaitEach(waits') /\ fresh' \subseteq Keys'
<1>0. PICK s \in Session : \E kept \in InTheirOrder({i \in DOMAIN waits : waits[i].session # s}) :
        /\ waits' = [n \in DOMAIN kept |-> waits[kept[n]]]
        /\ fresh' = {k \in fresh : k[1] # s}
  BY DEF Thinned
<1>1. PICK kept \in InTheirOrder({i \in DOMAIN waits : waits[i].session # s}) :
        /\ waits' = [n \in DOMAIN kept |-> waits[kept[n]]]
        /\ fresh' = {k \in fresh : k[1] # s}
  BY <1>0
<1> DEFINE I == {i \in DOMAIN waits : waits[i].session # s}
<1>2. IsFiniteSet(I)
  <2>1. IsFiniteSet(DOMAIN waits)
    BY FS_Interval
  <2> QED
    BY <2>1, FS_Subset
<1>3. Cardinality(I) \in Nat
  BY <1>2, FS_CardinalityType
<1>4. /\ kept \in [1..Cardinality(I) -> I] /\ I = {kept[n] : n \in DOMAIN kept}
      /\ \A m, n \in DOMAIN kept : m < n => kept[m] < kept[n]
  BY DEF InTheirOrder
<1>5. DOMAIN kept = 1..Cardinality(I) /\ \A n \in DOMAIN kept : kept[n] \in DOMAIN waits
  BY <1>4
<1> HIDE DEF I
<1>6. DOMAIN waits' = DOMAIN kept /\ \A n \in DOMAIN kept : waits'[n] = waits[kept[n]]
  BY <1>1
<1>7. waits' \in Seq(Wait)
  <2>1. \A n \in 1..Cardinality(I) : waits[kept[n]] \in Wait
    BY <1>5
  <2>2. waits' \in [1..Cardinality(I) -> Wait]
    BY <1>1, <1>5, <2>1
  <2> QED
    BY <1>3, <2>2, SeqDef
<1>8. OneWaitEach(waits')
  <2> SUFFICES ASSUME NEW m \in DOMAIN kept, NEW n \in DOMAIN kept,
                      KeyOf(waits[kept[m]]) = KeyOf(waits[kept[n]])
               PROVE  m = n
    BY <1>6 DEF OneWaitEach
  <2>1. kept[m] = kept[n]
    BY <1>5 DEF OneWaitEach
  <2>2. m \in Int /\ n \in Int /\ kept[m] \in Int /\ kept[n] \in Int
    BY <1>3, <1>5
  <2>3. ~(m < n) /\ ~(n < m)
    BY <1>4, <2>1, <2>2
  <2> QED
    BY <2>2, <2>3
<1>9. ASSUME NEW k \in fresh' PROVE k \in Keys'
  <2>1. k \in fresh /\ k[1] # s
    BY <1>1
  <2>2. PICK i \in DOMAIN waits : k = KeyOf(waits[i])
    BY <2>1 DEF Keys
  <2>3. i \in I
    BY <2>1, <2>2 DEF KeyOf, I
  <2>4. PICK n \in DOMAIN kept : kept[n] = i
    BY <1>4, <2>3
  <2> QED
    BY <1>6, <2>2, <2>4 DEF Keys
<1> QED
  BY <1>7, <1>8, <1>9

(* What a pass has yet to visit is in the order of the waitlist. *)
InLine ==
  \A m, n \in DOMAIN todo : m < n =>
    \A i, j \in DOMAIN waits : KeyOf(waits[i]) = todo[m] /\ KeyOf(waits[j]) = todo[n] => i < j

WaitsInv ==
  /\ WaitsTyped
  /\ OneWaitEach(waits)
  /\ phase # "promoting" => todo = <<>>
  /\ InLine

(* Every wait is of a session, for a path. *)
LEMMA WaitsAre ==
  ASSUME WaitsTyped, NEW i \in DOMAIN waits
  PROVE  /\ waits[i] \in Wait
         /\ waits[i].session \in Session /\ waits[i].path \in Path
         /\ waits[i].blockers \subseteq Claim /\ waits[i].grantor \in Claim
         /\ waits[i].authorized \in BOOLEAN
<1>1. waits[i] \in Wait
  BY DEF WaitsTyped
<1> QED
  BY <1>1 DEF Wait

(* A wait that joins the list is typed and waits for something new. *)
LEMMA JoinsAdds ==
  ASSUME ClaimsInv, NEW s \in Session, NEW p \in Path, RequestWaits(s, p)
  PROVE  \E a \in claims :
           LET w == [session |-> s, path |-> p, blockers |-> Blockers(s, p),
                     grantor |-> a, authorized |-> Allowed(a, p)]
           IN /\ Joined(w)
              /\ IsAuthority(a, s, p) /\ ~Denied(a, p)
              /\ ~(w.blockers = {} /\ w.authorized)
              /\ ~ClosesCycle(w, ToSet(waits))
<1>1. PICK a \in claims :
        LET w == [session |-> s, path |-> p, blockers |-> Blockers(s, p),
                  grantor |-> a, authorized |-> Allowed(a, p)]
        IN /\ IsAuthority(a, s, p) /\ ~Denied(a, p)
           /\ ~(w.blockers = {} /\ w.authorized)
           /\ ~ClosesCycle(w, ToSet(waits))
           /\ JoinWaits(w)
  BY DEF RequestWaits, Joins
<1> DEFINE w == [session |-> s, path |-> p, blockers |-> Blockers(s, p),
                 grantor |-> a, authorized |-> Allowed(a, p)]
<1>2. Blockers(s, p) \subseteq Claim /\ a \in Claim
  BY DEF Blockers, ClaimsInv, ClaimsHang
<1>3. Allowed(a, p) \in BOOLEAN
  BY DEF Allowed
<1>4. w \in Wait
  BY <1>2, <1>3 DEF Wait
<1>5. KeyOf(w) \notin Keys
  BY DEF RequestWaits, KeyOf
<1> QED
  BY <1>1, <1>4, <1>5 DEF Joined

(* A row that is brought up to date stays the row of its session and path. *)
LEMMA UpdateIs ==
  ASSUME ClaimsInv, WaitsTyped, NEW i \in DOMAIN waits, NEW a \in claims, NEW t \in BOOLEAN,
         NEW B \in SUBSET claims
  PROVE  LET w == [waits[i] EXCEPT !.blockers = B, !.grantor = a, !.authorized = t]
         IN /\ w \in Wait /\ KeyOf(w) = KeyOf(waits[i])
            /\ w.session = waits[i].session /\ w.path = waits[i].path
            /\ w.blockers = B /\ w.grantor = a /\ w.authorized = t
<1>1. waits[i] \in Wait
  BY WaitsAre
<1>2. B \subseteq Claim /\ a \in Claim
  BY DEF ClaimsInv, ClaimsHang
<1> QED
  BY <1>1, <1>2 DEF Wait, KeyOf

LEMMA AuthorizesUpdates ==
  ASSUME ClaimsInv, WaitsTyped, NEW i \in DOMAIN waits, AnswerAuthorizes(i)
  PROVE  \E a \in claims, w \in Wait :
           /\ Updated(i, w)
           /\ w.session = waits[i].session /\ w.path = waits[i].path
           /\ w.blockers = Blockers(w.session, w.path) /\ w.blockers # {}
           /\ w.grantor = a /\ w.authorized
           /\ ~AlreadyHeld(w.session, w.path)
           /\ IsAuthority(a, w.session, w.path) /\ ~Denied(a, w.path)
<1> DEFINE B == Blockers(waits[i].session, waits[i].path)
<1>1. PICK a \in claims :
        /\ IsAuthority(a, waits[i].session, waits[i].path) /\ ~Denied(a, waits[i].path)
        /\ waits' = [waits EXCEPT ![i].blockers = B, ![i].grantor = a, ![i].authorized = TRUE]
  BY DEF AnswerAuthorizes
<1>2. B \in SUBSET claims
  BY DEF Blockers
<1> DEFINE w == [waits[i] EXCEPT !.blockers = B, !.grantor = a, !.authorized = TRUE]
<1>3. waits' = [waits EXCEPT ![i] = w]
  BY <1>1
<1>4. /\ w \in Wait /\ KeyOf(w) = KeyOf(waits[i])
      /\ w.session = waits[i].session /\ w.path = waits[i].path
      /\ w.blockers = B /\ w.grantor = a /\ w.authorized = TRUE
  BY <1>2, UpdateIs
<1>5. fresh' = fresh /\ B # {} /\ ~AlreadyHeld(waits[i].session, waits[i].path)
  BY DEF AnswerAuthorizes
<1> HIDE DEF w
<1> QED
  BY <1>1, <1>3, <1>4, <1>5 DEF Updated

LEMMA SyncUpdates ==
  ASSUME ClaimsInv, WaitsTyped, NEW i \in DOMAIN waits, PromoteSyncs(i)
  PROVE  \E a \in claims, w \in Wait :
           /\ Updated(i, w)
           /\ w.session = waits[i].session /\ w.path = waits[i].path
           /\ w.blockers = Blockers(w.session, w.path)
           /\ w.grantor = a
           /\ w.authorized <=> waits[i].authorized \/ Allowed(a, w.path)
           /\ ~AlreadyHeld(w.session, w.path)
           /\ IsAuthority(a, w.session, w.path) /\ ~Denied(a, w.path)
           /\ ~(w.blockers = {} /\ w.authorized)
           /\ NextWait(w # waits[i])
<1> DEFINE B == Blockers(waits[i].session, waits[i].path)
           T(a) == waits[i].authorized \/ Allowed(a, waits[i].path)
           S(a) == [waits[i] EXCEPT !.blockers = B, !.grantor = a, !.authorized = T(a)]
<1>1. PICK a \in claims :
        /\ IsAuthority(a, waits[i].session, waits[i].path)
        /\ ~Denied(a, waits[i].path)
        /\ ~(B = {} /\ T(a))
        /\ waits' = [waits EXCEPT ![i] = S(a)]
        /\ NextWait(S(a) # waits[i])
  BY DEF PromoteSyncs, SyncProgresses
<1>2. B \in SUBSET claims
  BY DEF Blockers
<1>3. T(a) \in BOOLEAN
  OBVIOUS
<1>4. /\ S(a) \in Wait /\ KeyOf(S(a)) = KeyOf(waits[i])
      /\ S(a).session = waits[i].session /\ S(a).path = waits[i].path
      /\ S(a).blockers = B /\ S(a).grantor = a /\ S(a).authorized = T(a)
  <2>1. ASSUME NEW t \in BOOLEAN
        PROVE  LET w == [waits[i] EXCEPT !.blockers = B, !.grantor = a, !.authorized = t]
               IN /\ w \in Wait /\ KeyOf(w) = KeyOf(waits[i])
                  /\ w.session = waits[i].session /\ w.path = waits[i].path
                  /\ w.blockers = B /\ w.grantor = a /\ w.authorized = t
    BY <1>2, WaitsAre DEF Wait, KeyOf, ClaimsInv, ClaimsHang
  <2> HIDE DEF T
  <2> QED
    BY <1>3, <2>1
<1>5. fresh' = fresh /\ ~AlreadyHeld(waits[i].session, waits[i].path)
  BY DEF PromoteSyncs
<1> HIDE DEF S
<1> QED
  BY <1>1, <1>4, <1>5 DEF Updated

(* Every step does one of these things to the waitlist. *)
LEMMA RowKinds ==
  ASSUME ClaimsInv, WaitsInv, [Next]_vars
  PROVE  \/ waits' = waits /\ fresh' \subseteq fresh
         \/ \E w \in Wait : Joined(w)
         \/ \E i \in DOMAIN waits : WithoutWait(i)
         \/ \E i \in DOMAIN waits, w \in Wait : Updated(i, w)
         \/ Thinned
<1>1. ASSUME NEW s \in Session, NEW p \in Path, RequestGranted(s, p) \/ Grant(s, p)
      PROVE  waits' = waits /\ fresh' \subseteq fresh
  BY <1>1 DEF RequestGranted, Grant
<1>2. ASSUME NEW s \in Session, NEW p \in Path, RequestWaits(s, p)
      PROVE  \E w \in Wait : Joined(w)
  BY <1>2, JoinsAdds DEF Joined
<1>3. ASSUME NEW s \in Session, EndSession(s) PROVE Thinned
  BY <1>3 DEF EndSession, Thinned
<1>4. ASSUME NEW i \in DOMAIN waits,
             \/ AnswerGrants(i) \/ WithdrawWait(i) \/ PromoteRemoves(i) \/ PromoteGrants(i)
             \/ BreakDeadlock(i)
      PROVE  WithoutWait(i)
  BY <1>4 DEF AnswerGrants, WithdrawWait, PromoteRemoves, PromoteGrants, BreakDeadlock
<1>5. ASSUME NEW i \in DOMAIN waits, AnswerAuthorizes(i) \/ PromoteSyncs(i)
      PROVE  \E w \in Wait : Updated(i, w)
  BY <1>5, AuthorizesUpdates, SyncUpdates DEF WaitsInv
<1>6. ASSUME NEW c \in claims,
             \/ YieldClaim(c) \/ ForceReleaseCascading(c)
             \/ \E p \in Path, effect \in {"allow", "deny"} : DeclarePolicy(c, p, effect)
      PROVE  waits' = waits /\ fresh' \subseteq fresh
  BY <1>6 DEF YieldClaim, ForceReleaseCascading, DeclarePolicy
<1>7. ASSUME \/ \E q \in policies : WithdrawPolicy(q)
             \/ Sweep \/ Tick \/ PassEnds \/ PromotionEnds \/ UNCHANGED vars
      PROVE  waits' = waits /\ fresh' \subseteq fresh
  BY <1>7 DEF WithdrawPolicy, Sweep, Tick, PassEnds, PromotionEnds, vars
<1> QED
  BY <1>1, <1>2, <1>3, <1>4, <1>5, <1>6, <1>7
     DEF Next, SessionStep, WaitStep, ClaimStep, PromotionStep

(* The rows stay typed and one for each. *)
LEMMA RowsKeep ==
  ASSUME ClaimsInv, WaitsInv, [Next]_vars
  PROVE  waits' \in Seq(Wait) /\ OneWaitEach(waits') /\ fresh' \subseteq Keys'
<1>0. waits \in Seq(Wait) /\ OneWaitEach(waits) /\ fresh \subseteq Keys
  BY DEF WaitsInv, WaitsTyped
<1>1. CASE waits' = waits /\ fresh' \subseteq fresh
  BY <1>0, <1>1 DEF Keys
<1>2. CASE \E w \in Wait : Joined(w)
  BY <1>0, <1>2, RowsJoined
<1>3. CASE \E i \in DOMAIN waits : WithoutWait(i)
  BY <1>0, <1>3, RowsRemoved
<1>4. CASE \E i \in DOMAIN waits, w \in Wait : Updated(i, w)
  BY <1>0, <1>4, RowsUpdated DEF Updated
<1>5. CASE Thinned
  BY <1>0, <1>5, RowsThinned
<1> QED
  BY <1>1, <1>2, <1>3, <1>4, <1>5, RowKinds

(* Every step does one of these things to the promotion. *)
LEMMA PassKinds ==
  ASSUME ClaimsInv, WaitsInv, [Next]_vars
  PROVE  \/ UNCHANGED promotion /\ phase # "promoting"
         \/ UNCHANGED vars
         \/ PromoteWaiters
         \/ \E i \in DOMAIN waits, b \in BOOLEAN :
              /\ Visited(i) /\ NextWait(b)
              /\ WithoutWait(i) \/ \E w \in Wait : Updated(i, w)
         \/ phase' \in {"idle", "breaking"} /\ UNCHANGED <<todo, progressed>> /\ todo = <<>>
<1>1. ASSUME NEW s \in Session, NEW p \in Path,
             RequestGranted(s, p) \/ Grant(s, p) \/ RequestWaits(s, p)
      PROVE  PromoteWaiters \/ (UNCHANGED promotion /\ phase # "promoting")
  BY <1>1 DEF RequestGranted, Grant, RequestWaits, Decides, Idle
<1>2. ASSUME NEW s \in Session, EndSession(s) PROVE PromoteWaiters
  BY <1>2 DEF EndSession
<1>3. ASSUME NEW i \in DOMAIN waits, AnswerGrants(i) \/ WithdrawWait(i) \/ BreakDeadlock(i)
      PROVE  PromoteWaiters \/ (UNCHANGED promotion /\ phase # "promoting")
  BY <1>3 DEF AnswerGrants, WithdrawWait, BreakDeadlock, Decides, Idle
<1>4. ASSUME NEW i \in DOMAIN waits, AnswerAuthorizes(i)
      PROVE  phase' \in {"idle", "breaking"} /\ UNCHANGED <<todo, progressed>> /\ todo = <<>>
  BY <1>4 DEF AnswerAuthorizes, Decides, Idle, WaitsInv
<1>5. ASSUME NEW i \in DOMAIN waits, PromoteRemoves(i) \/ PromoteGrants(i)
      PROVE  Visited(i) /\ NextWait(TRUE) /\ WithoutWait(i)
  BY <1>5 DEF PromoteRemoves, PromoteGrants
<1>6. ASSUME NEW i \in DOMAIN waits, PromoteSyncs(i)
      PROVE  \E b \in BOOLEAN : Visited(i) /\ NextWait(b) /\ \E w \in Wait : Updated(i, w)
  <2>1. Visited(i)
    BY <1>6 DEF PromoteSyncs
  <2>2. PICK w \in Wait : Updated(i, w) /\ NextWait(w # waits[i])
    BY <1>6, SyncUpdates DEF WaitsInv
  <2>3. (w # waits[i]) \in BOOLEAN
    OBVIOUS
  <2> QED
    BY <2>1, <2>2, <2>3
<1>7. ASSUME NEW c \in claims,
             \/ YieldClaim(c) \/ ForceReleaseCascading(c)
             \/ \E p \in Path, effect \in {"allow", "deny"} : DeclarePolicy(c, p, effect)
      PROVE  PromoteWaiters
  BY <1>7 DEF YieldClaim, ForceReleaseCascading, DeclarePolicy
<1>8. ASSUME (\E q \in policies : WithdrawPolicy(q)) \/ Tick
      PROVE  UNCHANGED promotion /\ phase # "promoting"
  BY <1>8 DEF WithdrawPolicy, Tick, Decides, Idle
<1>9. ASSUME Sweep PROVE PromoteWaiters
  BY <1>9 DEF Sweep
<1>10. ASSUME PassEnds
       PROVE  \/ PromoteWaiters
              \/ phase' \in {"idle", "breaking"} /\ UNCHANGED <<todo, progressed>> /\ todo = <<>>
  BY <1>10 DEF PassEnds
<1>11. ASSUME PromotionEnds
       PROVE  phase' \in {"idle", "breaking"} /\ UNCHANGED <<todo, progressed>> /\ todo = <<>>
  BY <1>11 DEF PromotionEnds, WaitsInv
<1> QED
  BY <1>1, <1>2, <1>3, <1>4, <1>5, <1>6, <1>7, <1>8, <1>9, <1>10, <1>11
     DEF Next, SessionStep, WaitStep, ClaimStep, PromotionStep

LEMMA WaitsKeep ==
  ASSUME ClaimsInv, WaitsInv, [Next]_vars
  PROVE  WaitsInv'
<1>0. waits' \in Seq(Wait) /\ OneWaitEach(waits') /\ fresh' \subseteq Keys'
  BY RowsKeep
<1>u. /\ waits \in Seq(Wait) /\ OneWaitEach(waits) /\ todo \in Seq(Session \X Path)
      /\ phase \in {"idle", "promoting", "breaking"} /\ progressed \in BOOLEAN
      /\ phase # "promoting" => todo = <<>>
  BY DEF WaitsInv, WaitsTyped
<1>1. CASE UNCHANGED promotion /\ phase # "promoting"
  <2>1. todo' = <<>> /\ phase' = phase /\ progressed' = progressed
    BY <1>1, <1>u DEF promotion
  <2>2. InLine'
    BY <2>1 DEF InLine
  <2> QED
    BY <1>0, <1>1, <1>u, <2>1, <2>2 DEF WaitsInv, WaitsTyped
<1>2. CASE UNCHANGED vars
  BY <1>2 DEF vars, promotion, WaitsInv, WaitsTyped, InLine, Keys
<1>3. CASE PromoteWaiters
  <2>1. phase' = "promoting" /\ progressed' = FALSE /\ todo' = [i \in DOMAIN waits' |-> KeyOf(waits'[i])]
    BY <1>3 DEF PromoteWaiters, InOrder
  <2>2. \A i \in DOMAIN waits' : waits'[i] \in Wait
    BY <1>0
  <2>3. todo' \in [1..Len(waits') -> Session \X Path]
    BY <1>0, <2>1, <2>2, KeysAre
  <2>4. todo' \in Seq(Session \X Path)
    BY <1>0, <2>3, SeqDef
  <2>5. InLine'
    <3> SUFFICES ASSUME NEW m \in DOMAIN waits', NEW n \in DOMAIN waits', m < n,
                        NEW i \in DOMAIN waits', NEW j \in DOMAIN waits',
                        KeyOf(waits'[i]) = todo'[m], KeyOf(waits'[j]) = todo'[n]
                 PROVE  i < j
      BY <2>1 DEF InLine
    <3>1. i = m /\ j = n
      BY <1>0, <2>1 DEF OneWaitEach
    <3> QED
      BY <3>1
  <2> QED
    BY <1>0, <2>1, <2>4, <2>5 DEF WaitsInv, WaitsTyped
<1>4. ASSUME NEW i \in DOMAIN waits, NEW b \in BOOLEAN, Visited(i), NextWait(b),
             WithoutWait(i) \/ \E w \in Wait : Updated(i, w)
      PROVE  WaitsInv'
  <2>1. /\ todo # <<>> /\ todo' = Tail(todo) /\ progressed' = (progressed \/ b)
        /\ phase = "promoting" /\ phase' = phase
    BY <1>4 DEF Visited, NextWait
  <2>2. /\ todo' \in Seq(Session \X Path) /\ Len(todo') = Len(todo) - 1 /\ Len(todo) \in Nat
        /\ \A n \in 1..(Len(todo) - 1) : todo'[n] = todo[n + 1]
    BY <1>u, <2>1, HeadTailProperties
  <2>3. progressed' \in BOOLEAN
    BY <2>1
  <2>4. \A j, k \in DOMAIN waits' : j < k =>
          \E m, n \in DOMAIN waits :
            m < n /\ KeyOf(waits'[j]) = KeyOf(waits[m]) /\ KeyOf(waits'[k]) = KeyOf(waits[n])
    <3>1. CASE WithoutWait(i)
      BY <1>u, <3>1, RowsRemoved
    <3>2. CASE \E w \in Wait : Updated(i, w)
      BY <1>u, <3>2, RowsUpdated
    <3> QED
      BY <1>4, <3>1, <3>2
  <2>5. InLine'
    <3> SUFFICES ASSUME NEW m \in DOMAIN todo', NEW n \in DOMAIN todo', m < n,
                        NEW j \in DOMAIN waits', NEW k \in DOMAIN waits',
                        KeyOf(waits'[j]) = todo'[m], KeyOf(waits'[k]) = todo'[n]
                 PROVE  j < k
      BY DEF InLine
    <3>1. /\ m \in 1..(Len(todo) - 1) /\ n \in 1..(Len(todo) - 1)
          /\ m + 1 \in DOMAIN todo /\ n + 1 \in DOMAIN todo /\ m + 1 < n + 1
          /\ todo'[m] = todo[m + 1] /\ todo'[n] = todo[n + 1]
      <4>1. DOMAIN todo' = 1..(Len(todo) - 1) /\ DOMAIN todo = 1..Len(todo)
        BY <1>u, <2>2
      <4>2. m \in 1..(Len(todo) - 1) /\ n \in 1..(Len(todo) - 1)
        BY <4>1
      <4> QED
        BY <2>2, <4>1, <4>2
    <3>2. j \in Int /\ k \in Int
      BY <1>0
    <3>3. SUFFICES ASSUME ~(j < k) PROVE FALSE
      BY <3>2
    <3>4. CASE j = k
      <4>1. todo[m + 1] = todo[n + 1]
        BY <3>1, <3>4
      <4>2. \E l \in DOMAIN waits : KeyOf(waits[l]) = KeyOf(waits'[j])
        <5>1. CASE WithoutWait(i)
          BY <1>u, <5>1, RowsRemoved
        <5>2. CASE \E w \in Wait : Updated(i, w)
          BY <1>u, <5>2, RowsUpdated
        <5> QED
          BY <1>4, <5>1, <5>2
      <4>3. PICK l \in DOMAIN waits : KeyOf(waits[l]) = KeyOf(waits'[j])
        BY <4>2
      <4>4. l < l /\ l \in Int
        BY <1>u, <3>1, <4>1, <4>3 DEF WaitsInv, InLine
      <4> QED
        BY <4>4
    <3>5. CASE k < j
      <4>1. PICK x \in DOMAIN waits, y \in DOMAIN waits :
              x < y /\ KeyOf(waits'[k]) = KeyOf(waits[x]) /\ KeyOf(waits'[j]) = KeyOf(waits[y])
        BY <2>4, <3>5
      <4>2. y < x
        BY <3>1, <4>1 DEF WaitsInv, InLine
      <4>3. x \in Int /\ y \in Int
        BY <1>u
      <4> QED
        BY <4>1, <4>2, <4>3
    <3> QED
      BY <3>2, <3>3, <3>4, <3>5
  <2> QED
    BY <1>0, <1>u, <2>1, <2>2, <2>3, <2>5 DEF WaitsInv, WaitsTyped
<1>5. CASE phase' \in {"idle", "breaking"} /\ UNCHANGED <<todo, progressed>> /\ todo = <<>>
  <2>1. InLine'
    BY <1>5 DEF InLine
  <2> QED
    BY <1>0, <1>5, <1>u, <2>1 DEF WaitsInv, WaitsTyped
<1> QED
  BY <1>1, <1>2, <1>3, <1>4, <1>5, PassKinds

-----------------------------------------------------------------------------
(* Authorities. *)

(* Of the claims that cover a path, one is the deepest. *)
LEMMA OneAuthority ==
  ASSUME ClaimsInv, NEW s \in Session, NEW p \in Path, NEW a, NEW b,
         IsAuthority(a, s, p), IsAuthority(b, s, p)
  PROVE  a = b
<1>1. /\ a \in claims /\ b \in claims
      /\ IsWithin(p, a.path) /\ IsWithin(p, b.path)
      /\ ~Outranks(a, b) /\ ~Outranks(b, a)
  BY DEF IsAuthority, DeepestIn
<1>2. /\ a.path \in Path /\ b.path \in Path /\ a.path \in Seq(Segment) /\ b.path \in Seq(Segment)
      /\ a.holder \in Session \cup {Operator} /\ b.holder \in Session \cup {Operator}
  BY <1>1, PathsWellFormed DEF ClaimsInv, ClaimsHang, Claim
<1>3. Len(a.path) = Len(b.path)
  <2>1. Len(a.path) \in Nat /\ Len(b.path) \in Nat
    BY <1>2
  <2> QED
    BY <1>1, <2>1 DEF Outranks
<1>4. a.path = b.path
  BY <1>1, <1>2, <1>3, Within
<1>5. ASSUME NEW c \in claims, c # RootClaim
      PROVE  Cardinality(GrantChain(c)) > Cardinality(GrantChain(RootClaim))
  <2>1. GrantChain(RootClaim) = {RootClaim} /\ c \in GrantChain(c) /\ RootClaim \in GrantChain(c)
    BY ChainsAre, ChainOfRoot, ChainSelf DEF ClaimsInv, ClaimsHang, Rooted
  <2>2. IsFiniteSet(GrantChain(c))
    <3>1. GrantChain(c) \in SUBSET claims
      BY DEF GrantChain
    <3> QED
      BY <3>1, FS_Subset DEF ClaimsInv, OneHolder
  <2>3. /\ {RootClaim} \in SUBSET GrantChain(c) /\ {RootClaim} # GrantChain(c)
    BY <1>5, <2>1
  <2>4. /\ IsFiniteSet({RootClaim})
        /\ Cardinality({RootClaim}) <= Cardinality(GrantChain(c))
        /\ Cardinality({RootClaim}) # Cardinality(GrantChain(c))
    BY <2>2, <2>3, FS_Subset
  <2>5. Cardinality({RootClaim}) \in Nat /\ Cardinality(GrantChain(c)) \in Nat
    BY <2>2, <2>4, FS_CardinalityType
  <2> QED
    BY <2>1, <2>4, <2>5
<1>6. ~(a = RootClaim /\ b # RootClaim) /\ ~(b = RootClaim /\ a # RootClaim)
  BY <1>1, <1>3, <1>5 DEF Outranks
<1>7. CASE a.holder = Operator \/ b.holder = Operator
  BY <1>1, <1>6, <1>7 DEF ClaimsInv, OneHolder
<1>8. CASE a.holder \in Session /\ b.holder \in Session
  BY <1>1, <1>4, <1>8 DEF ClaimsInv, OneHolder
<1> QED
  BY <1>2, <1>7, <1>8

(* A row that says what the claims imply. *)
InSync(w) ==
  /\ ~AlreadyHeld(w.session, w.path)
  /\ w.blockers = Blockers(w.session, w.path)
  /\ IsAuthority(w.grantor, w.session, w.path)
  /\ ~Denied(w.grantor, w.path)
  /\ w.authorized => w.blockers # {}
  /\ Allowed(w.grantor, w.path) => w.authorized

(* Such a row has nothing to be granted. *)
LEMMA SyncIsNotGrantable ==
  ASSUME ClaimsInv, NEW w \in Wait, InSync(w)
  PROVE  ~Grantable(w)
<1>1. w.session \in Session /\ w.path \in Path
  BY DEF Wait
<1>2. \A a : IsAuthority(a, w.session, w.path) => a = w.grantor
  BY <1>1, OneAuthority DEF InSync
<1> QED
  BY <1>2 DEF InSync, Grantable

(* What is granted and in sync follows from the claims and the policies. *)
LEMMA SyncFollows ==
  ASSUME UNCHANGED <<claims, from, policies>>
  PROVE  \A w : /\ InSync(w)' <=> InSync(w)
                /\ Grantable(w)' <=> Grantable(w)
BY DEF InSync, Grantable, AlreadyHeld, Blockers, IsAuthority, DeepestIn, Outranks, GrantChain,
       Denied, Allowed, InForce

(* A grant makes nothing else grantable: it takes paths, and its holder allows *)
(* what its grantor allowed.                                                   *)
LEMMA GrantsFreeNothing ==
  ASSUME ClaimsInv, NEW s \in Session, NEW p \in Path, NEW a \in claims, Grants(s, p, a),
         NEW w \in Wait, Grantable(w)'
  PROVE  Grantable(w)
<1> DEFINE n == ClaimOf(s, p)
           q == w.path
           t == w.session
<1>1. /\ claims' = claims \cup {n} /\ from' = [from EXCEPT ![n] = a]
      /\ UNCHANGED <<lapsed, policies>>
  BY DEF Grants, GrantFrom
<1>2. n \in Claim /\ n.path = p /\ q \in Path /\ t \in Session
  BY DEF ClaimOf, Claim, Wait
<1>3. n \notin claims
  BY <1>2, Within DEF Grants, AlreadyHeld, ClaimOf
<1>4. claims \subseteq Claim /\ \A c \in claims : c.path \in Path
  BY DEF ClaimsInv, ClaimsHang, Claim
<1>5. IsAuthority(a, s, p) /\ Blockers(s, p) = {}
  BY DEF Grants
<1> HIDE DEF n
<1>6. from'[n] = a /\ \A c \in claims : from'[c] = from[c]
  BY <1>1, <1>2, <1>3 DEF ClaimsInv, ClaimsHang
<1>7. /\ \A c \in claims : GrantChain(c)' = GrantChain(c)
      /\ GrantChain(n)' = {n} \cup GrantChain(a)
  <2>0. Rooted(claims, from) /\ a \in claims
    BY DEF ClaimsInv, ClaimsHang
  <2>1. /\ \A c \in claims : Chain(claims \cup {n}, from', c) = Chain(claims, from, c)
        /\ Chain(claims \cup {n}, from', n) = {n} \cup Chain(claims, from, a)
    <3>1. \A c \in claims : Chain(claims \cup {n}, from', c) = Chain(claims, from, c)
      BY <1>3, <1>6, <2>0, ChainWith
    <3>2. Chain(claims \cup {n}, from', n) = {n} \cup Chain(claims, from, a)
      BY <1>3, <1>6, <2>0, ChainOfNew
    <3> QED
      BY <3>1, <3>2
  <2>2. \A c : GrantChain(c)' = Chain(claims \cup {n}, from', c)
    BY <1>1, ChainsAre
  <2> QED
    BY <2>1, <2>2, ChainsAre
<1>8. Blockers(t, q) = {} /\ Blockers(t, q)' = {}
  BY <1>1 DEF Grantable, Blockers
<1>9. PICK b \in claims' :
        /\ IsAuthority(b, t, q)' /\ Denied(b, q)' = FALSE
        /\ w.authorized \/ Allowed(b, q)'
  BY DEF Grantable, Denied
<1>10. /\ IsWithin(q, b.path)
       /\ \A c \in claims : IsWithin(q, c.path) => ~Outranks(c, b)'
  BY <1>1, <1>8, <1>9 DEF IsAuthority, DeepestIn
<1>11. CASE b \in claims
  <2>1. IsAuthority(b, t, q)
    BY <1>7, <1>8, <1>10, <1>11 DEF IsAuthority, DeepestIn, Outranks
  <2>2. InForce(b, q)' = InForce(b, q)
    BY <1>1, <1>7, <1>11 DEF InForce
  <2>3. ~Denied(b, q) /\ (w.authorized \/ Allowed(b, q))
    BY <1>9, <2>2 DEF Denied, Allowed
  <2> QED
    BY <1>8, <1>11, <2>1, <2>3 DEF Grantable
<1>12. CASE b = n
  <2>1. IsWithin(q, p) /\ IsWithin(p, a.path)
    BY <1>2, <1>5, <1>10, <1>12 DEF IsAuthority, DeepestIn
  <2>2. IsWithin(q, a.path)
    BY <1>2, <1>4, <2>1, Within
  <2>3. ASSUME NEW c \in claims, IsWithin(q, c.path) PROVE ~Outranks(c, a)
    <3>1. Len(c.path) \in Nat /\ Len(p) \in Nat
      BY <1>4, PathsWellFormed
    <3>2. Len(c.path) <= Len(p)
      BY <1>2, <1>10, <1>12, <2>3, <3>1 DEF Outranks
    <3>3. IsWithin(p, c.path)
      BY <1>2, <1>4, <2>1, <2>3, <3>2, Within
    <3> QED
      BY <1>5, <3>3 DEF IsAuthority, DeepestIn
  <2>4. IsAuthority(a, t, q)
    BY <1>8, <2>2, <2>3 DEF IsAuthority, DeepestIn
  <2>5. InForce(n, q)' = InForce(a, q)
    <3>1. \A x \in policies : x.claim # n
      BY <1>3 DEF ClaimsInv, Attachments, PoliciesLive
    <3> QED
      BY <1>1, <1>7, <3>1 DEF InForce
  <2>6. ~Denied(a, q) /\ (w.authorized \/ Allowed(a, q))
    BY <1>9, <1>12, <2>5 DEF Denied, Allowed
  <2> QED
    BY <1>8, <2>4, <2>6 DEF Grantable
<1> QED
  BY <1>1, <1>11, <1>12

-----------------------------------------------------------------------------
(* A promotion. *)

(* Outside a promotion every row is in sync; in one, what a pass has visited *)
(* has nothing to be granted, and is in sync if nothing changed.             *)
PassInv ==
  /\ phase # "promoting" => \A w \in ToSet(waits) : InSync(w)
  /\ phase = "promoting" => \A w \in ToSet(waits) :
       \/ KeyOf(w) \in ToSet(todo)
       \/ ~Grantable(w) /\ (~progressed => InSync(w))

IndInv == ClaimsInv /\ WaitsInv /\ PassInv

(* A fresh pass has everything to visit. *)
LEMMA PassBegins ==
  ASSUME waits' \in Seq(Wait), PromoteWaiters
  PROVE  PassInv'
<1>1. phase' = "promoting" /\ todo' = [i \in DOMAIN waits' |-> KeyOf(waits'[i])]
  BY DEF PromoteWaiters, InOrder
<1>2. \A w \in ToSet(waits') : KeyOf(w) \in ToSet(todo')
  BY <1>1 DEF ToSet
<1> QED
  BY <1>1, <1>2 DEF PassInv

(* Visiting one wait leaves the others to visit. *)
LEMMA PassGoesOn ==
  ASSUME WaitsInv, NEW i \in DOMAIN waits, Visited(i), NEW b \in BOOLEAN, NextWait(b)
  PROVE  /\ phase = "promoting" /\ phase' = "promoting" /\ progressed' = (progressed \/ b)
         /\ \A k \in ToSet(todo) : k = KeyOf(waits[i]) \/ k \in ToSet(todo')
<1>1. /\ phase = "promoting" /\ phase' = "promoting" /\ progressed' = (progressed \/ b)
      /\ todo # <<>> /\ todo' = Tail(todo) /\ KeyOf(waits[i]) = Head(todo)
  BY DEF Visited, NextWait
<1>2. todo \in Seq(Session \X Path)
  BY DEF WaitsInv, WaitsTyped
<1>3. /\ Len(todo) \in Nat /\ Len(todo') = Len(todo) - 1 /\ Head(todo) = todo[1]
      /\ \A n \in 1..(Len(todo) - 1) : todo'[n] = todo[n + 1]
      /\ todo' \in Seq(Session \X Path)
  BY <1>1, <1>2, HeadTailProperties
<1>4. ASSUME NEW n \in 1..Len(todo), n # 1 PROVE todo[n] \in ToSet(todo')
  <2>1. n - 1 \in 1..(Len(todo) - 1) /\ n - 1 \in DOMAIN todo' /\ todo'[n - 1] = todo[n]
    BY <1>3, <1>4
  <2> QED
    BY <2>1 DEF ToSet
<1>5. ASSUME NEW k \in ToSet(todo), k # KeyOf(waits[i]) PROVE k \in ToSet(todo')
  <2>1. PICK n \in 1..Len(todo) : k = todo[n]
    BY <1>2 DEF ToSet
  <2> QED
    BY <1>1, <1>3, <1>4, <1>5, <2>1
<1> QED
  BY <1>1, <1>5

(* The rows that are left after one went, or was brought up to date. *)
LEMMA OthersStay ==
  ASSUME WaitsInv, NEW i \in DOMAIN waits
  PROVE  /\ WithoutWait(i) =>
              \A w \in ToSet(waits') : w \in ToSet(waits) /\ KeyOf(w) # KeyOf(waits[i])
         /\ \A v \in Wait : Updated(i, v) =>
              \A w \in ToSet(waits') :
                w = v \/ (w \in ToSet(waits) /\ KeyOf(w) # KeyOf(waits[i]))
<1>0. waits \in Seq(Wait) /\ OneWaitEach(waits)
  BY DEF WaitsInv, WaitsTyped
<1>1. ASSUME WithoutWait(i), NEW w \in ToSet(waits')
      PROVE  w \in ToSet(waits) /\ KeyOf(w) # KeyOf(waits[i])
  <2>1. PICK j \in DOMAIN waits' : w = waits'[j]
    BY <1>1 DEF ToSet
  <2>2. PICK k \in DOMAIN waits \ {i} : w = waits[k]
    BY <1>0, <1>1, <2>1, RowsRemoved
  <2> QED
    BY <1>0, <2>2 DEF OneWaitEach, ToSet
<1>2. ASSUME NEW v \in Wait, Updated(i, v), NEW w \in ToSet(waits')
      PROVE  w = v \/ (w \in ToSet(waits) /\ KeyOf(w) # KeyOf(waits[i]))
  <2>1. PICK j \in DOMAIN waits : w = waits'[j]
    BY <1>0, <1>2, RowsUpdated DEF ToSet
  <2>2. j = i \/ w = waits[j]
    BY <1>0, <1>2, <2>1, RowsUpdated
  <2>3. j = i => w = v
    BY <1>0, <1>2, <2>1, RowsUpdated
  <2> QED
    BY <1>0, <2>2, <2>3 DEF OneWaitEach, ToSet
<1> QED
  BY <1>1, <1>2

(* Every row is a wait. *)
LEMMA RowsAre == waits \in Seq(Wait) => ToSet(waits) \subseteq Wait
BY DEF ToSet

(* Every step of a promotion and of the operations between keeps this. *)
LEMMA PassKeeps ==
  ASSUME IndInv, [Next]_vars
  PROVE  PassInv'
<1>0. /\ ClaimsInv /\ WaitsInv /\ PassInv /\ WaitsInv'
      /\ waits \in Seq(Wait) /\ OneWaitEach(waits) /\ ToSet(waits) \subseteq Wait
      /\ phase \in {"idle", "promoting", "breaking"} /\ progressed \in BOOLEAN
      /\ \A i \in DOMAIN waits : waits[i] \in ToSet(waits)
  BY WaitsKeep, RowsAre DEF IndInv, WaitsInv, WaitsTyped, ToSet
<1>1. ASSUME PromoteWaiters PROVE PassInv'
  BY <1>0, <1>1, PassBegins DEF WaitsInv, WaitsTyped
<1>2. ASSUME NEW s \in Session, NEW p \in Path, RequestWaits(s, p) PROVE PassInv'
  <2>1. PICK a \in claims :
          LET w == [session |-> s, path |-> p, blockers |-> Blockers(s, p),
                    grantor |-> a, authorized |-> Allowed(a, p)]
          IN /\ Joined(w)
             /\ IsAuthority(a, s, p) /\ ~Denied(a, p)
             /\ ~(w.blockers = {} /\ w.authorized)
    BY <1>0, <1>2, JoinsAdds
  <2> DEFINE w == [session |-> s, path |-> p, blockers |-> Blockers(s, p),
                   grantor |-> a, authorized |-> Allowed(a, p)]
  <2>2. /\ UNCHANGED <<claims, from, policies>> /\ phase' = phase /\ phase = "idle"
        /\ ~AlreadyHeld(s, p)
    BY <1>2 DEF RequestWaits, promotion, Decides, Idle
  <2>3. InSync(w)
    BY <2>1, <2>2 DEF InSync
  <2>4. w \in Wait /\ Joined(w)
    BY <2>1 DEF Joined
  <2> HIDE DEF w
  <2>5. ToSet(waits') = ToSet(waits) \cup {w}
    BY <1>0, <2>4, RowsJoined
  <2>6. \A v : InSync(v)' <=> InSync(v)
    BY <2>2, SyncFollows
  <2>7. \A v \in ToSet(waits') : InSync(v)'
    BY <1>0, <2>2, <2>3, <2>5, <2>6 DEF PassInv
  <2> QED
    BY <2>2, <2>7 DEF PassInv
<1>3. ASSUME NEW i \in DOMAIN waits, WithdrawWait(i) \/ BreakDeadlock(i) PROVE PassInv'
  <2>1. /\ UNCHANGED <<claims, from, policies>> /\ phase' = phase /\ phase # "promoting"
        /\ WithoutWait(i)
    BY <1>3 DEF WithdrawWait, BreakDeadlock, promotion, Decides, Idle
  <2>2. \A w \in ToSet(waits') : w \in ToSet(waits)
    BY <1>0, <2>1, OthersStay
  <2>3. \A v : InSync(v)' <=> InSync(v)
    BY <2>1, SyncFollows
  <2> QED
    BY <1>0, <2>1, <2>2, <2>3 DEF PassInv
<1>4. ASSUME NEW q \in policies, WithdrawPolicy(q) PROVE PassInv'
  <2>1. /\ UNCHANGED <<claims, from, waits>> /\ phase' = phase /\ phase = "idle"
        /\ policies' \subseteq policies
    BY <1>4 DEF WithdrawPolicy, promotion, Decides, Idle
  <2>2. ASSUME NEW w \in Wait, InSync(w) PROVE InSync(w)'
    <3>1. /\ AlreadyHeld(w.session, w.path)' <=> AlreadyHeld(w.session, w.path)
          /\ Blockers(w.session, w.path)' = Blockers(w.session, w.path)
          /\ IsAuthority(w.grantor, w.session, w.path)' <=> IsAuthority(w.grantor, w.session, w.path)
      BY <2>1 DEF AlreadyHeld, Blockers, IsAuthority, DeepestIn, Outranks, GrantChain
    <3>2. InForce(w.grantor, w.path)' \subseteq InForce(w.grantor, w.path)
      BY <2>1 DEF InForce, GrantChain
    <3>3. /\ Denied(w.grantor, w.path)' => Denied(w.grantor, w.path)
          /\ Allowed(w.grantor, w.path)' => Allowed(w.grantor, w.path) \/ Denied(w.grantor, w.path)
      BY <3>2 DEF Denied, Allowed
    <3> QED
      BY <2>2, <3>1, <3>3 DEF InSync
  <2> QED
    BY <1>0, <2>1, <2>2 DEF PassInv
<1>5. ASSUME Tick \/ PromotionEnds \/ UNCHANGED vars PROVE PassInv'
  <2>1. /\ UNCHANGED <<claims, from, policies, waits, progressed, todo>>
        /\ phase' = phase \/ (phase = "breaking" /\ phase' = "idle")
    BY <1>5 DEF Tick, PromotionEnds, vars, promotion
  <2>2. \A v : (InSync(v)' <=> InSync(v)) /\ (Grantable(v)' <=> Grantable(v))
    BY <2>1, SyncFollows
  <2> QED
    BY <1>0, <2>1, <2>2 DEF PassInv
<1>6. ASSUME NEW i \in DOMAIN waits, AnswerAuthorizes(i) PROVE PassInv'
  <2>1. PICK a \in claims, w \in Wait :
          /\ Updated(i, w)
          /\ w.blockers = Blockers(w.session, w.path) /\ w.blockers # {}
          /\ w.grantor = a /\ w.authorized
          /\ ~AlreadyHeld(w.session, w.path)
          /\ IsAuthority(a, w.session, w.path) /\ ~Denied(a, w.path)
    BY <1>0, <1>6, AuthorizesUpdates DEF WaitsInv
  <2>2. UNCHANGED <<claims, from, policies>> /\ phase = "idle" /\ phase' = "breaking"
    BY <1>6 DEF AnswerAuthorizes, Decides, Idle
  <2>3. InSync(w)
    BY <2>1 DEF InSync
  <2>4. \A v \in ToSet(waits') : v = w \/ v \in ToSet(waits)
    BY <1>0, <2>1, OthersStay
  <2>5. \A v : InSync(v)' <=> InSync(v)
    BY <2>2, SyncFollows
  <2> QED
    BY <1>0, <2>2, <2>3, <2>4, <2>5 DEF PassInv
<1>7. ASSUME NEW i \in DOMAIN waits, PromoteRemoves(i) PROVE PassInv'
  <2>1. /\ UNCHANGED <<claims, from, policies>> /\ WithoutWait(i) /\ Visited(i) /\ NextWait(TRUE)
    BY <1>7 DEF PromoteRemoves
  <2>2. /\ phase = "promoting" /\ phase' = "promoting" /\ progressed' = TRUE
        /\ \A k \in ToSet(todo) : k = KeyOf(waits[i]) \/ k \in ToSet(todo')
    BY <1>0, <2>1, PassGoesOn
  <2>3. \A w \in ToSet(waits') : w \in ToSet(waits) /\ KeyOf(w) # KeyOf(waits[i])
    BY <1>0, <2>1, OthersStay
  <2>4. \A v : Grantable(v)' <=> Grantable(v)
    BY <2>1, SyncFollows
  <2> QED
    BY <1>0, <2>2, <2>3, <2>4 DEF PassInv
<1>8. ASSUME NEW i \in DOMAIN waits, PromoteGrants(i) PROVE PassInv'
  <2>1. WithoutWait(i) /\ Visited(i) /\ NextWait(TRUE)
    BY <1>8 DEF PromoteGrants
  <2>2. /\ phase = "promoting" /\ phase' = "promoting" /\ progressed' = TRUE
        /\ \A k \in ToSet(todo) : k = KeyOf(waits[i]) \/ k \in ToSet(todo')
    BY <1>0, <2>1, PassGoesOn
  <2>3. \A w \in ToSet(waits') : w \in ToSet(waits) /\ KeyOf(w) # KeyOf(waits[i])
    BY <1>0, <2>1, OthersStay
  <2>4. waits[i].session \in Session /\ waits[i].path \in Path
    BY <1>0, WaitsAre DEF WaitsInv
  <2>5. \E a \in claims : Grants(waits[i].session, waits[i].path, a)
    BY <1>8 DEF PromoteGrants, Grants
  <2>6. \A v \in Wait : Grantable(v)' => Grantable(v)
    BY <1>0, <2>4, <2>5, GrantsFreeNothing
  <2> QED
    BY <1>0, <2>2, <2>3, <2>6 DEF PassInv
<1>9. ASSUME NEW i \in DOMAIN waits, PromoteSyncs(i) PROVE PassInv'
  <2>1. PICK a \in claims, w \in Wait :
          /\ Updated(i, w)
          /\ w.blockers = Blockers(w.session, w.path)
          /\ w.grantor = a
          /\ w.authorized <=> waits[i].authorized \/ Allowed(a, w.path)
          /\ ~AlreadyHeld(w.session, w.path)
          /\ IsAuthority(a, w.session, w.path) /\ ~Denied(a, w.path)
          /\ ~(w.blockers = {} /\ w.authorized)
          /\ NextWait(w # waits[i])
    BY <1>0, <1>9, SyncUpdates DEF WaitsInv
  <2>2. UNCHANGED <<claims, from, policies>> /\ Visited(i)
    BY <1>9 DEF PromoteSyncs
  <2>3. InSync(w)
    BY <2>1 DEF InSync
  <2>4. ~Grantable(w)
    BY <1>0, <2>3, SyncIsNotGrantable
  <2>5. /\ phase = "promoting" /\ phase' = "promoting"
        /\ progressed' = FALSE => progressed = FALSE
        /\ \A k \in ToSet(todo) : k = KeyOf(waits[i]) \/ k \in ToSet(todo')
    <3>1. (w # waits[i]) \in BOOLEAN
      OBVIOUS
    <3> QED
      BY <1>0, <2>1, <2>2, <3>1, PassGoesOn
  <2>6. \A v \in ToSet(waits') :
          v = w \/ (v \in ToSet(waits) /\ KeyOf(v) # KeyOf(waits[i]))
    BY <1>0, <2>1, OthersStay
  <2>7. \A v : (InSync(v)' <=> InSync(v)) /\ (Grantable(v)' <=> Grantable(v))
    BY <2>2, SyncFollows
  <2> QED
    BY <1>0, <2>3, <2>4, <2>5, <2>6, <2>7 DEF PassInv, WaitsInv, WaitsTyped
<1>10. ASSUME PassEnds PROVE PassInv'
  <2>1. CASE progressed
    BY <1>1, <1>10, <2>1 DEF PassEnds
  <2>2. CASE ~progressed
    <3>1. /\ UNCHANGED <<claims, from, policies, waits>> /\ phase = "promoting"
          /\ phase' = "breaking" /\ todo = <<>>
      BY <1>10, <2>2 DEF PassEnds
    <3>2. ToSet(todo) = {}
      BY <3>1 DEF ToSet
    <3>3. \A w \in ToSet(waits) : InSync(w)
      BY <1>0, <2>2, <3>1, <3>2 DEF PassInv
    <3>4. \A v : InSync(v)' <=> InSync(v)
      BY <3>1, SyncFollows
    <3> QED
      BY <3>1, <3>3, <3>4 DEF PassInv
  <2> QED
    BY <2>1, <2>2
<1>11. ASSUME NEW s \in Session, NEW p \in Path, RequestGranted(s, p) \/ Grant(s, p) PROVE PassInv'
  BY <1>1, <1>11 DEF RequestGranted, Grant
<1>12. ASSUME NEW i \in DOMAIN waits, AnswerGrants(i) PROVE PassInv'
  BY <1>1, <1>12 DEF AnswerGrants
<1>13. ASSUME NEW c \in claims,
              \/ YieldClaim(c) \/ ForceReleaseCascading(c)
              \/ \E p \in Path, effect \in {"allow", "deny"} : DeclarePolicy(c, p, effect)
       PROVE  PassInv'
  BY <1>1, <1>13 DEF YieldClaim, ForceReleaseCascading, DeclarePolicy
<1>14. ASSUME Sweep \/ \E s \in Session : EndSession(s) PROVE PassInv'
  BY <1>1, <1>14 DEF Sweep, EndSession
<1> QED
  BY <1>2, <1>3, <1>4, <1>5, <1>6, <1>7, <1>8, <1>9, <1>10, <1>11, <1>12, <1>13, <1>14
     DEF Next, SessionStep, WaitStep, ClaimStep, PromotionStep

-----------------------------------------------------------------------------
(* What holds in every state. *)

LEMMA AtFirst == Init => IndInv
<1> SUFFICES ASSUME Init PROVE IndInv
  OBVIOUS
<1>1. /\ waits = <<>> /\ fresh = {} /\ phase = "idle" /\ todo = <<>> /\ progressed = FALSE
  BY DEF Init
<1>2. WaitsInv
  <2>1. WaitsTyped
    <3>1. waits \in Seq(Wait)
      BY <1>1
    <3>2. todo \in Seq(Session \X Path)
      BY <1>1
    <3>3. fresh \subseteq Keys
      BY <1>1
    <3> QED
      BY <1>1, <3>1, <3>2, <3>3 DEF WaitsTyped
  <2>2. OneWaitEach(waits) /\ InLine
    BY <1>1 DEF OneWaitEach, InLine
  <2> QED
    BY <1>1, <2>1, <2>2 DEF WaitsInv
<1>3. ToSet(waits) = {}
  BY <1>1 DEF ToSet
<1>4. PassInv
  BY <1>1, <1>3 DEF PassInv
<1> QED
  BY <1>2, <1>4, ClaimsAtFirst DEF IndInv

LEMMA AtEveryStep == IndInv /\ [Next]_vars => IndInv'
BY ClaimsKeep, WaitsKeep, PassKeeps DEF IndInv, WaitsInv

LEMMA Invariant == Spec => []IndInv
BY AtFirst, AtEveryStep, PTL DEF Spec

(* Every variable has its type, in every reachable state.                      *)
THEOREM TypeCorrect == Spec => []TypeOK
<1>1. IndInv => TypeOK
  BY DEF IndInv, ClaimsInv, ClaimsHang, Rooted, Attachments, WaitsInv, WaitsTyped, TypeOK
<1> QED
  BY <1>1, Invariant, PTL

(* One writer per path (principle 4): no two sessions pass the write check of  *)
(* a path at the same moment, before a lapsed lease is swept or after it.      *)
THEOREM OneWriter == Spec => []SingleWriter
<1>1. ASSUME IndInv PROVE SingleWriter
  <2> SUFFICES ASSUME NEW p \in Path, NEW s \in Session, NEW t \in Session,
                      MayWrite(s, p), MayWrite(t, p)
               PROVE  s = t
    BY DEF SingleWriter
  <2>0. ClaimsInv
    BY <1>1 DEF IndInv
  <2>1. PICK c \in claims : c.holder = s /\ DeepestIn(claims \ lapsed, c, p)
    BY DEF MayWrite
  <2>2. PICK d \in claims : d.holder = t /\ DeepestIn(claims \ lapsed, d, p)
    BY DEF MayWrite
  <2>3. /\ IsWithin(p, c.path) /\ IsWithin(p, d.path)
        /\ ~Outranks(c, d) /\ ~Outranks(d, c)
    BY <2>1, <2>2 DEF DeepestIn
  <2>4. c.path \in Path /\ d.path \in Path
    BY <2>0 DEF ClaimsInv, ClaimsHang, Claim
  <2>5. Len(c.path) \in Nat /\ Len(d.path) \in Nat
    BY <2>4, PathsWellFormed
  <2>6. Len(c.path) = Len(d.path)
    BY <2>3, <2>5 DEF Outranks
  <2>7. c.path = d.path
    BY <2>3, <2>4, <2>6, Within
  <2> QED
    BY <2>0, <2>1, <2>2, <2>7 DEF ClaimsInv, OneHolder
<1> QED
  BY <1>1, Invariant, PTL

(* A claim's grantor is another live claim that encloses it, and the           *)
(* operator's root grant ends every chain, whatever was released on the way.   *)
THEOREM GrantsStayWithin == Spec => []GrantExtent
<1>1. ASSUME IndInv PROVE GrantExtent
  <2>1. ClaimsHang
    BY <1>1 DEF IndInv, ClaimsInv
  <2>2. \A c \in claims : from[c] \in claims /\ RootClaim \in GrantChain(c)
    BY <2>1, ChainsAre DEF ClaimsHang, Rooted
  <2> QED
    BY <2>1, <2>2 DEF ClaimsHang, GrantExtent
<1> QED
  BY <1>1, Invariant, PTL

(* No policy outlives the claim that declared it or reaches beyond it.         *)
THEOREM PoliciesGoWithTheirClaims == Spec => []PoliciesLive
<1>1. IndInv => PoliciesLive
  BY DEF IndInv, ClaimsInv, Attachments
<1> QED
  BY <1>1, Invariant, PTL

(* Between calls every row of the waitlist says what the claims and policies   *)
(* imply, and none could be granted, denied or dropped.                        *)
THEOREM RowsSayWhatIs == Spec => []WaitsInSync
<1>1. ASSUME IndInv PROVE WaitsInSync
  <2> SUFFICES ASSUME Idle, NEW i \in DOMAIN waits PROVE InSync(waits[i])
    BY DEF WaitsInSync, InSync
  <2>1. waits[i] \in ToSet(waits)
    BY DEF ToSet
  <2> QED
    BY <1>1, <2>1 DEF IndInv, PassInv, Idle
<1> QED
  BY <1>1, Invariant, PTL

(* Where a handler decides, nothing that waits could be granted. *)
LEMMA NothingGrantable ==
  ASSUME IndInv, Idle
  PROVE  \A w \in ToSet(waits) : ~Grantable(w)
<1>1. ToSet(waits) \subseteq Wait
  BY RowsAre DEF IndInv, WaitsInv, WaitsTyped
<1> QED
  BY <1>1, SyncIsNotGrantable DEF IndInv, PassInv, Idle

(* Every older wait was visited before the one a pass grants. *)
LEMMA OlderWereVisited ==
  ASSUME IndInv, NEW i \in DOMAIN waits, Visited(i), NEW j \in DOMAIN waits, j < i
  PROVE  ~Grantable(waits[j])
<1>1. /\ WaitsInv /\ PassInv /\ phase = "promoting" /\ todo # <<>>
      /\ KeyOf(waits[i]) = Head(todo)
  BY DEF IndInv, Visited
<1>2. /\ waits \in Seq(Wait) /\ todo \in Seq(Session \X Path) /\ OneWaitEach(waits)
  BY <1>1 DEF WaitsInv, WaitsTyped
<1>3. /\ DOMAIN todo = 1..Len(todo) /\ Len(todo) \in Nat /\ 1 \in DOMAIN todo
      /\ KeyOf(waits[i]) = todo[1]
  BY <1>1, <1>2
<1>4. KeyOf(waits[j]) \notin ToSet(todo)
  <2> SUFFICES ASSUME NEW n \in DOMAIN todo, KeyOf(waits[j]) = todo[n] PROVE FALSE
    BY DEF ToSet
  <2>1. i \in Nat /\ j \in Nat /\ n \in Nat /\ n >= 1
    BY <1>2, <1>3
  <2>2. CASE n = 1
    BY <1>2, <1>3, <2>1, <2>2 DEF OneWaitEach
  <2>3. CASE 1 < n
    <3>1. i < j
      BY <1>1, <1>3, <2>3 DEF WaitsInv, InLine
    <3> QED
      BY <2>1, <3>1
  <2> QED
    BY <2>1, <2>2, <2>3
<1>5. waits[j] \in ToSet(waits)
  BY DEF ToSet
<1> QED
  BY <1>1, <1>4, <1>5 DEF PassInv

(* First come, first served: a claim is never granted past an older wait on a  *)
(* conflicting path that could have been granted itself.                       *)
THEOREM OldestFirst == Spec => FirstComeFirstServed
<1>1. ASSUME IndInv, [Next]_vars
      PROVE  [\A c \in claims' \ claims : \A w \in OlderThan(c) :
                PathsConflict(w.path, c.path) /\ w.session # c.holder => ~Grantable(w)]_vars
  <2>1. SUFFICES ASSUME NEW c \in claims' \ claims, NEW w \in OlderThan(c)
                 PROVE  ~Grantable(w)
    OBVIOUS
  <2>2. w \in ToSet(waits)
    BY DEF OlderThan, ToSet
  <2>3. CASE Idle
    BY <1>1, <2>2, <2>3, NothingGrantable
  <2>4. ASSUME ~Idle PROVE \E i \in DOMAIN waits : PromoteGrants(i)
    <3>1. ~Stays /\ ~\E R \in SUBSET (claims \ {RootClaim}) : Release(R)
      BY DEF Stays, Release
    <3>2. ~ \E s \in Session : SessionStep(s)
      BY <2>4 DEF SessionStep, RequestGranted, RequestWaits, Grant, EndSession, Decides
    <3>3. ~ \E i \in DOMAIN waits : WaitStep(i)
      BY <2>4 DEF WaitStep, AnswerGrants, AnswerAuthorizes, WithdrawWait, Decides
    <3>4. ~ \E k \in claims : ClaimStep(k)
      BY <2>4 DEF ClaimStep, YieldClaim, ForceReleaseCascading, DeclarePolicy, Decides
    <3>5. ~ \E q \in policies : WithdrawPolicy(q)
      BY <2>4 DEF WithdrawPolicy, Decides
    <3>6. ~Sweep /\ ~Tick
      BY <2>4 DEF Sweep, Tick
    <3>7. claims' # claims
      OBVIOUS
    <3>8. ~UNCHANGED vars
      BY <3>7 DEF vars
    <3>9. PromotionStep
      BY <1>1, <3>2, <3>3, <3>4, <3>5, <3>6, <3>8 DEF Next
    <3> QED
      BY <3>7, <3>9 DEF PromotionStep, PromoteRemoves, PromoteSyncs, BreakDeadlock, PassEnds,
                        PromotionEnds
  <2>5. CASE ~Idle
    <3>1. PICK i \in DOMAIN waits : PromoteGrants(i)
      BY <2>4, <2>5
    <3>2. waits \in Seq(Wait) /\ claims' = claims \cup {ClaimOf(waits[i].session, waits[i].path)}
      BY <1>1, <3>1 DEF PromoteGrants, GrantFrom, IndInv, WaitsInv, WaitsTyped
    <3>3. <<c.holder, c.path>> = KeyOf(waits[i])
      BY <3>2 DEF ClaimOf, KeyOf
    <3>4. PICK j \in DOMAIN waits : /\ w = waits[j]
                                    /\ \A k \in 1..j : KeyOf(waits[k]) # KeyOf(waits[i])
      BY <3>3 DEF OlderThan
    <3>5. i \in Nat /\ j \in Nat /\ 1 <= i /\ 1 <= j /\ i \notin 1..j
      BY <3>2, <3>4
    <3>6. j < i
      BY <3>5
    <3>7. Visited(i)
      BY <3>1 DEF PromoteGrants
    <3> QED
      BY <1>1, <3>4, <3>6, <3>7, OlderWereVisited
  <2> QED
    BY <2>3, <2>5
<1> QED
  BY <1>1, Invariant, PTL DEF Spec, FirstComeFirstServed

-----------------------------------------------------------------------------
(* Waiting in circles. *)

(* A session waits for sessions. *)
LEMMA AwaitsSessions ==
  ASSUME ClaimsInv, NEW w \in Wait
  PROVE  w.session \in Session /\ Awaits(w) \subseteq Session
<1>1. \A c \in claims : c.holder \in Session \cup {Operator}
  BY DEF ClaimsInv, ClaimsHang, Claim
<1> QED
  BY <1>1 DEF Awaits, Wait

(* What is reached holds where it begins and whom its sessions wait for, *)
(* and is the least such set.                                            *)
LEMMA ReachedSelf ==
  ASSUME NEW S \in SUBSET Session, NEW W
  PROVE  S \subseteq Reached(S, W)
BY DEF Reached

LEMMA ReachedStep ==
  ASSUME ClaimsInv, NEW S \in SUBSET Session, NEW W \in SUBSET Wait,
         NEW w \in W, w.session \in Reached(S, W)
  PROVE  Awaits(w) \subseteq Reached(S, W)
<1> SUFFICES ASSUME NEW t \in Awaits(w), NEW U \in SUBSET (Session \ {t}), S \subseteq U,
                    \A v \in W : v.session \in U => Awaits(v) \subseteq U
             PROVE  FALSE
  BY AwaitsSessions DEF Reached
<1>1. w.session \notin U
  OBVIOUS
<1>2. U \in SUBSET (Session \ {w.session})
  BY <1>1
<1> QED
  BY <1>2 DEF Reached

LEMMA ReachedLeast ==
  ASSUME ClaimsInv, NEW S \in SUBSET Session, NEW W \in SUBSET Wait,
         NEW U, S \subseteq U, \A v \in W : v.session \in U => Awaits(v) \subseteq U
  PROVE  Reached(S, W) \subseteq U
<1> SUFFICES ASSUME NEW t \in Reached(S, W), t \notin U PROVE FALSE
  OBVIOUS
<1>1. U \cap Session \in SUBSET (Session \ {t}) /\ S \subseteq U \cap Session
  OBVIOUS
<1>2. \A v \in W : v.session \in U \cap Session => Awaits(v) \subseteq U \cap Session
  BY AwaitsSessions
<1> QED
  BY <1>1, <1>2 DEF Reached

(* More waits reach more. *)
LEMMA ReachedMonotone ==
  ASSUME ClaimsInv, NEW S \in SUBSET Session, NEW V \in SUBSET Wait, NEW W \in SUBSET V
  PROVE  Reached(S, W) \subseteq Reached(S, V)
<1>1. S \subseteq Reached(S, V)
  BY ReachedSelf
<1>2. \A v \in W : v.session \in Reached(S, V) => Awaits(v) \subseteq Reached(S, V)
  BY ReachedStep
<1> QED
  BY <1>1, <1>2, ReachedLeast

Acyclic(W) == \A w \in W : ~ClosesCycle(w, W)

LEMMA FewerAreAcyclic ==
  ASSUME ClaimsInv, NEW V \in SUBSET Wait, Acyclic(V), NEW W \in SUBSET V
  PROVE  Acyclic(W)
BY AwaitsSessions, ReachedMonotone DEF Acyclic, ClosesCycle

(* A wait that closes no cycle when it joins leaves none. *)
LEMMA JoiningClosesNone ==
  ASSUME ClaimsInv, NEW W \in SUBSET Wait, Acyclic(W), NEW w \in Wait, ~ClosesCycle(w, W)
  PROVE  Acyclic(W \cup {w})
<1> DEFINE V == W \cup {w}
           Q == Reached(Awaits(w), W)
<1>1. /\ V \in SUBSET Wait /\ w.session \notin Q
      /\ \A v \in V : Awaits(v) \in SUBSET Session
  BY AwaitsSessions DEF ClosesCycle
<1>2. Awaits(w) \subseteq Q
  BY <1>1, ReachedSelf
<1>3. \A v \in W : v.session \in Q => Awaits(v) \subseteq Q
  BY <1>1, ReachedStep
<1>4. ~ClosesCycle(w, V)
  <2>1. Reached(Awaits(w), V) \subseteq Q
    <3>1. \A v \in V : v.session \in Q => Awaits(v) \subseteq Q
      BY <1>1, <1>3
    <3> HIDE DEF V, Q
    <3>2. w \in V
      BY DEF V
    <3> QED
      BY <1>1, <1>2, <3>1, <3>2, ReachedLeast
  <2> QED
    BY <1>1, <2>1 DEF ClosesCycle
<1>5. ASSUME NEW v \in W PROVE ~ClosesCycle(v, V)
  <2> DEFINE P == Reached(Awaits(v), W)
  <2>1. v.session \notin P /\ Awaits(v) \in SUBSET Session
    BY <1>1 DEF Acyclic, ClosesCycle
  <2>2. Awaits(v) \subseteq P
    BY <2>1, ReachedSelf
  <2>3. \A x \in W : x.session \in P => Awaits(x) \subseteq P
    BY <2>1, ReachedStep
  <2>4. CASE w.session \notin P
    <3>1. Reached(Awaits(v), V) \subseteq P
      <4>1. \A x \in V : x.session \in P => Awaits(x) \subseteq P
        BY <2>3, <2>4
      <4> HIDE DEF V, P
      <4> QED
        BY <1>1, <2>1, <2>2, <4>1, ReachedLeast
    <3> QED
      BY <2>1, <3>1 DEF ClosesCycle
  <2>5. CASE w.session \in P
    <3>1. v.session \notin Q
      <4>1. SUFFICES ASSUME v.session \in Q PROVE FALSE
        OBVIOUS
      <4>2. Awaits(v) \subseteq Q
        BY <1>3, <4>1
      <4>3. P \subseteq Q
        <5> HIDE DEF Q
        <5> QED
          BY <1>3, <2>1, <4>2, ReachedLeast
      <4> QED
        BY <1>1, <2>5, <4>3
    <3>2. Reached(Awaits(v), V) \subseteq P \cup Q
      <4>1. \A x \in V : x.session \in P \cup Q => Awaits(x) \subseteq P \cup Q
        BY <1>2, <1>3, <2>3
      <4> HIDE DEF V, P, Q
      <4> QED
        BY <1>1, <2>1, <2>2, <4>1, ReachedLeast
    <3> QED
      BY <2>1, <3>1, <3>2 DEF ClosesCycle
  <2> QED
    BY <2>4, <2>5
<1> QED
  BY <1>4, <1>5 DEF Acyclic

(* When no wait is the newest of a cycle, there is no cycle. *)
LEMMA NoNewestNoCycle ==
  ASSUME ClaimsInv, waits \in Seq(Wait), \A i \in DOMAIN waits : ~NewestInCycle(i)
  PROVE  Acyclic(ToSet(waits))
<1> DEFINE Oldest(n) == {waits[j] : j \in 1..n}
           T == {n \in 0..Len(waits) : ~Acyclic(Oldest(n))}
<1>0. Len(waits) \in Nat /\ DOMAIN waits = 1..Len(waits)
  OBVIOUS
<1>1. ToSet(waits) = Oldest(Len(waits))
  BY <1>0 DEF ToSet
<1>2. T = {}
  <2>1. SUFFICES ASSUME T # {} PROVE FALSE
    OBVIOUS
  <2>2. T \subseteq Nat
    BY <1>0
  <2>3. PICK n \in T : \A m \in T : ~(<<m, n>> \in OpToRel(<, Nat))
    <3> HIDE DEF T
    <3> QED
      BY <2>1, <2>2, WFMin, NatLessThanWellFounded
  <2>4. n \in Nat /\ n <= Len(waits) /\ ~Acyclic(Oldest(n))
    BY <1>0
  <2>5. n # 0
    BY <2>4 DEF Acyclic
  <2>6. n - 1 \in Nat /\ n \in DOMAIN waits /\ n - 1 \in 0..Len(waits) /\ n - 1 < n
    BY <1>0, <2>4, <2>5
  <2>7. Acyclic(Oldest(n - 1))
    <3>1. <<n - 1, n>> \in OpToRel(<, Nat)
      BY <2>4, <2>6 DEF OpToRel
    <3> QED
      BY <2>3, <2>6, <3>1
  <2>8. /\ Oldest(n) = Oldest(n - 1) \cup {waits[n]}
        /\ waits[n] \in Wait /\ Oldest(n) \in SUBSET Wait /\ Oldest(n - 1) \in SUBSET Wait
    BY <1>0, <2>4, <2>5, <2>6
  <2> HIDE DEF Oldest
  <2>9. ~ClosesCycle(waits[n], Oldest(n - 1))
    <3>1. ~ClosesCycle(waits[n], Oldest(n))
      BY <2>6 DEF NewestInCycle, Oldest
    <3>2. Oldest(n - 1) \in SUBSET Oldest(n) /\ Awaits(waits[n]) \in SUBSET Session
      BY <2>8, AwaitsSessions
    <3> QED
      BY <2>8, <3>1, <3>2, ReachedMonotone DEF ClosesCycle
  <2> QED
    BY <2>4, <2>7, <2>8, <2>9, JoiningClosesNone
<1>3. \A n \in 0..Len(waits) : Acyclic(Oldest(n))
  <2> HIDE DEF Oldest
  <2> QED
    BY <1>2
<1>4. Len(waits) \in 0..Len(waits)
  BY <1>0
<1> QED
  BY <1>1, <1>3, <1>4

(* Who waits for whom follows from the claims. *)
LEMMA CyclesFollow ==
  ASSUME UNCHANGED claims
  PROVE  \A w, W : ClosesCycle(w, W)' <=> ClosesCycle(w, W)
BY DEF ClosesCycle, Reached, Awaits

LEMMA IdleKinds ==
  ASSUME ClaimsInv, WaitsInv, [Next]_vars, phase' = "idle"
  PROVE  /\ UNCHANGED claims
         /\ \/ Idle /\ waits' = waits
            \/ Idle /\ \E i \in DOMAIN waits : WithoutWait(i)
            \/ Idle /\ \E w \in Wait : Joined(w) /\ ~ClosesCycle(w, ToSet(waits))
            \/ PromotionEnds
<1>1. ASSUME NEW s \in Session, NEW p \in Path, RequestGranted(s, p) \/ Grant(s, p) PROVE FALSE
  BY <1>1 DEF RequestGranted, Grant, PromoteWaiters
<1>2. ASSUME NEW s \in Session, NEW p \in Path, RequestWaits(s, p)
      PROVE  /\ UNCHANGED claims /\ Idle
             /\ \E w \in Wait : Joined(w) /\ ~ClosesCycle(w, ToSet(waits))
  BY <1>2, JoinsAdds DEF RequestWaits, Joined, Decides
<1>3. ASSUME NEW s \in Session, EndSession(s) PROVE FALSE
  BY <1>3 DEF EndSession, PromoteWaiters
<1>4. ASSUME NEW i \in DOMAIN waits, WithdrawWait(i)
      PROVE  UNCHANGED claims /\ Idle /\ WithoutWait(i)
  BY <1>4 DEF WithdrawWait, Decides
<1>5. ASSUME NEW i \in DOMAIN waits, AnswerGrants(i) \/ AnswerAuthorizes(i) PROVE FALSE
  BY <1>5 DEF AnswerGrants, AnswerAuthorizes, PromoteWaiters
<1>6. ASSUME NEW c \in claims, ClaimStep(c) PROVE FALSE
  BY <1>6 DEF ClaimStep, YieldClaim, ForceReleaseCascading, DeclarePolicy, PromoteWaiters
<1>7. ASSUME NEW q \in policies, WithdrawPolicy(q)
      PROVE  UNCHANGED claims /\ Idle /\ waits' = waits
  BY <1>7 DEF WithdrawPolicy, Decides
<1>8. ~Sweep
  BY DEF Sweep, PromoteWaiters
<1>9. ASSUME Tick PROVE UNCHANGED claims /\ Idle /\ waits' = waits
  BY <1>9 DEF Tick
<1>10. ASSUME NEW i \in DOMAIN waits,
              PromoteRemoves(i) \/ PromoteGrants(i) \/ PromoteSyncs(i) \/ BreakDeadlock(i)
       PROVE  FALSE
  BY <1>10 DEF PromoteRemoves, PromoteGrants, PromoteSyncs, BreakDeadlock, Visited, NextWait,
               promotion
<1>11. ~PassEnds
  BY DEF PassEnds, PromoteWaiters
<1>12. ASSUME PromotionEnds PROVE UNCHANGED claims
  BY <1>12 DEF PromotionEnds
<1>13. ASSUME UNCHANGED vars PROVE UNCHANGED claims /\ Idle /\ waits' = waits
  BY <1>13 DEF vars, promotion, Idle
<1> QED
  BY <1>1, <1>2, <1>3, <1>4, <1>5, <1>6, <1>7, <1>8, <1>9, <1>10, <1>11, <1>12, <1>13
     DEF Next, SessionStep, WaitStep, PromotionStep

NobodyInACircle == Idle => Acyclic(ToSet(waits))

LEMMA CirclesStayAway == IndInv /\ NobodyInACircle /\ [Next]_vars => NobodyInACircle'
<1> SUFFICES ASSUME IndInv, NobodyInACircle, [Next]_vars, phase' = "idle"
             PROVE  Acyclic(ToSet(waits))'
  BY DEF NobodyInACircle, Idle
<1>0. /\ ClaimsInv /\ WaitsInv /\ waits \in Seq(Wait) /\ OneWaitEach(waits)
      /\ ToSet(waits) \in SUBSET Wait
  BY RowsAre DEF IndInv, WaitsInv, WaitsTyped
<1>1. UNCHANGED claims
  BY <1>0, IdleKinds
<1>2. \A W : Acyclic(W)' <=> Acyclic(W)
  BY <1>1, CyclesFollow DEF Acyclic
<1>3. SUFFICES Acyclic(ToSet(waits'))
  <2>1. \A W : W = ToSet(waits') => (Acyclic(ToSet(waits))' <=> Acyclic(W)')
    BY DEF Acyclic
  <2> QED
    BY <1>2, <2>1
<1>4. CASE Idle /\ waits' = waits
  BY <1>4 DEF NobodyInACircle
<1>5. ASSUME Idle, NEW i \in DOMAIN waits, WithoutWait(i) PROVE Acyclic(ToSet(waits'))
  <2>1. ToSet(waits') \in SUBSET ToSet(waits)
    BY <1>0, <1>5, OthersStay
  <2> QED
    BY <1>0, <1>5, <2>1, FewerAreAcyclic DEF NobodyInACircle
<1>6. ASSUME Idle, NEW w \in Wait, Joined(w), ~ClosesCycle(w, ToSet(waits))
      PROVE  Acyclic(ToSet(waits'))
  <2>1. ToSet(waits') = ToSet(waits) \cup {w}
    BY <1>0, <1>6, RowsJoined
  <2> QED
    BY <1>0, <1>6, <2>1, JoiningClosesNone DEF NobodyInACircle
<1>7. CASE PromotionEnds
  <2>1. Acyclic(ToSet(waits)) /\ waits' = waits
    BY <1>0, <1>7, NoNewestNoCycle DEF PromotionEnds
  <2> QED
    BY <2>1
<1> QED
  BY <1>0, <1>4, <1>5, <1>6, <1>7, IdleKinds

(* Nobody waits in a circle between calls, whether a request, an answer, a      *)
(* promotion or a withdrawal came before: what joins closes no cycle, and a     *)
(* promotion refuses the newest wait of each one that answers closed.           *)
THEOREM NobodyWaitsInACircle == Spec => []NoDeadlock
<1>1. Init => NobodyInACircle
  <2>1. Init => ToSet(waits) = {}
    BY DEF Init, ToSet
  <2> QED
    BY <2>1 DEF NobodyInACircle, Acyclic
<1>2. NobodyInACircle => NoDeadlock
  BY DEF NobodyInACircle, Acyclic, NoDeadlock, ToSet
<1> QED
  BY <1>1, <1>2, CirclesStayAway, Invariant, PTL DEF Spec
=============================================================================
