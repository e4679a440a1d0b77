------------------------------- MODULE Claims -------------------------------
(***************************************************************************)
(* Path claims of one workspace: the claim manager                         *)
(* packages/core/src/claims/manager.ts (with model.ts, paths.ts, policy.ts *)
(* and deadlock.ts), driven by apps/server/src/claims/service.ts over the  *)
(* rows of packages/db/src/claim-store.ts.                                 *)
(*                                                                         *)
(* A session asks to write under a path.  Another session's claim at or    *)
(* under that path blocks it; the holder of the deepest claim that         *)
(* encloses the path must allow it, by a standing policy or an answer.     *)
(* What cannot be granted waits, first come first served.  Every change of *)
(* claims or policies ends with a promotion: passes over the waitlist      *)
(* until one changes nothing, then wait-for cycles are broken.             *)
(*                                                                         *)
(* A handler sweeps lapsed leases, decides, and promotes in one synchronous*)
(* call.  Here the sweep, the decision and each wait a promotion visits    *)
(* are steps, and nothing else is enabled between them (phase): a decision *)
(* needs swept claims, and an operation that only sweeps (inspect,         *)
(* checkWrite, the gate, a recorded write) is the step Sweep.              *)
(***************************************************************************)
EXTENDS Integers, Sequences, FiniteSets, SequencesExt

CONSTANTS
  Session,       \* sessions of the workstream
  Operator,      \* the human, holder of the root claim
  Segment,       \* names a path is made of
  Path,          \* paths anyone asks for, as sequences of segments
  MaxWaits,      \* bound: places in the waitlist
  MaxPolicies    \* bound: standing policies

RootPath == <<>>

ASSUME OperatorIsNoSession == Operator \notin Session
ASSUME PathsWellFormed == Path \subseteq Seq(Segment) /\ RootPath \in Path
ASSUME BoundsAreNaturals == MaxWaits \in Nat /\ MaxPolicies \in Nat

(* A claim is known by its holder and its path: asking again for a path one    *)
(* holds finds the claim that is there.                                        *)
Claim     == [holder : Session \cup {Operator}, path : Path]
RootClaim == [holder |-> Operator, path |-> RootPath]
Policy    == [claim : Claim, subtree : Path, effect : {"allow", "deny"}]

VARIABLES
  claims,      \* live claims
  from,        \* the claim each was granted from; RootClaim where there is none
  lapsed,      \* claims whose lease has run out and that nothing has swept yet
  waits,       \* the waitlist, oldest first
  fresh,       \* keys of the waits that joined within the current second
  policies,    \* standing policies of live claims
  phase,       \* "idle", "promoting" or "breaking"
  todo,        \* promotion: keys of the waits this pass has yet to visit
  progressed   \* promotion: whether this pass changed anything

promotion == <<phase, todo, progressed>>
vars      == <<claims, from, lapsed, waits, fresh, policies, promotion>>

-----------------------------------------------------------------------------
(* Paths *)

IsWithin(inner, outer) ==
  /\ Len(outer) <= Len(inner)
  /\ \A i \in 1..Len(outer) : outer[i] = inner[i]

PathsConflict(p, q) == IsWithin(p, q) \/ IsWithin(q, p)

-----------------------------------------------------------------------------
(* Who holds, blocks and grants *)

ClaimOf(s, p) == [holder |-> s, path |-> p]

Blockers(s, p) == {c \in claims : /\ c.holder \in Session \ {s}
                                  /\ IsWithin(c.path, p)}

AlreadyHeld(s, p) == \E c \in claims : c.holder = s /\ IsWithin(p, c.path)

(* A claim and everything it was subdivided from, up to the root: the claims  *)
(* that no set with c and with the grantors of its members can leave out.     *)
GrantChain(c) ==
  {d \in claims : \A U \in SUBSET (claims \ {d}) : c \in U => \E x \in U : from[x] \notin U}

Outranks(c, d) ==
  \/ Len(c.path) > Len(d.path)
  \/ /\ Len(c.path) = Len(d.path)
     /\ Cardinality(GrantChain(c)) > Cardinality(GrantChain(d))

(* The deepest claim that covers p, among those in S. *)
DeepestIn(S, a, p) ==
  /\ a \in S
  /\ IsWithin(p, a.path)
  /\ \A c \in S : IsWithin(p, c.path) => ~Outranks(c, a)

IsAuthority(a, s, p) == DeepestIn(claims \ Blockers(s, p), a, p)

(* Policies of the whole grant chain bind; a deny anywhere wins. *)
InForce(a, p)  == {q \in policies : q.claim \in GrantChain(a) /\ IsWithin(p, q.subtree)}
Denied(a, p)   == \E q \in InForce(a, p) : q.effect = "deny"
Allowed(a, p)  == InForce(a, p) # {} /\ ~Denied(a, p)

(* Who may write p now: whoever holds the deepest claim on it that has not     *)
(* lapsed.                                                                     *)
MayWrite(s, p) == \E c \in claims : c.holder = s /\ DeepestIn(claims \ lapsed, c, p)

-----------------------------------------------------------------------------
(* The waitlist *)

KeyOf(w)   == <<w.session, w.path>>
Keys       == {KeyOf(waits[i]) : i \in DOMAIN waits}
(* Mutant: a promotion visits the newest wait first. *)
NewestFirst(q) == [i \in DOMAIN q |-> KeyOf(q[Len(q) + 1 - i])]
InOrder(q) == [i \in DOMAIN q |-> KeyOf(q[i])]

(* A new wait is behind every wait of an earlier second; ids order the others. *)
JoinWaits(w) ==
  /\ Len(waits) < MaxWaits
  /\ \E i \in 1..(Len(waits) + 1) :
       /\ \A j \in i..Len(waits) : KeyOf(waits[j]) \in fresh
       /\ waits' = InsertAt(waits, i, w)
  /\ fresh' = fresh \cup {KeyOf(w)}

WithoutWait(i) ==
  /\ waits' = RemoveAt(waits, i)
  /\ fresh' = fresh \ {KeyOf(waits[i])}

(* The places in I, first to last. *)
InTheirOrder(I) ==
  {f \in [1..Cardinality(I) -> I] : /\ I = {f[n] : n \in DOMAIN f}
                                    /\ \A m, n \in DOMAIN f : m < n => f[m] < f[n]}

(* Whom a wait waits for: holders of what blocks it, and its grantor while     *)
(* nobody has authorized it.  The operator is no node of the graph.            *)
Awaits(w) ==
  LET on == w.blockers \cup (IF w.authorized THEN {} ELSE {w.grantor})
  IN {c.holder : c \in on \cap claims} \ {w.session, Operator}

(* Sessions reached from those in S along the waits in W: those that no set   *)
(* with S and with whom its members wait for can leave out.                   *)
Reached(S, W) ==
  {t \in Session : \A U \in SUBSET (Session \ {t}) :
     S \subseteq U => \E w \in W : w.session \in U /\ ~(Awaits(w) \subseteq U)}

ClosesCycle(w, W) == w.session \in Reached(Awaits(w), W)

(* The newest wait of some standing cycle. *)
NewestInCycle(i) == ClosesCycle(waits[i], {waits[j] : j \in 1..i})

-----------------------------------------------------------------------------
(* Grants and releases *)

Idle   == phase = "idle"
(* Where a handler decides: leases were swept first. *)
Decides == Idle /\ lapsed = {}

(* Every wait that is left is visited, the oldest first. *)
PromoteWaiters ==
  /\ phase' = "promoting"
  /\ todo' = InOrder(waits')
  /\ progressed' = FALSE

GrantFrom(a, s, p) ==
  /\ claims' = claims \cup {ClaimOf(s, p)}
  /\ from' = [from EXCEPT ![ClaimOf(s, p)] = a]

(* The grant tree without R: what hung from R hangs from the nearest claim     *)
(* above that survives.  The policies of R go with it.                         *)
NearestSurvivor(c, R) ==
  LET left == GrantChain(from[c]) \ R
  IN CHOOSE a \in left : \A b \in left : b \in GrantChain(a)

(* Mutant: what hung from R keeps pointing at it. *)
ReleaseWithoutReattaching(R) ==
  /\ claims' = claims \ R
  /\ lapsed' = lapsed \ R
  /\ from' = [c \in Claim |-> IF c \in claims \ R THEN from[c] ELSE RootClaim]
  /\ policies' = {q \in policies : q.claim \notin R}

(* Mutant: policies stay behind. *)
ReleaseKeepsPolicies(R) ==
  /\ claims' = claims \ R
  /\ lapsed' = lapsed \ R
  /\ from' = [c \in Claim |-> IF c \in claims \ R THEN NearestSurvivor(c, R) ELSE RootClaim]
  /\ UNCHANGED policies

Release(R) ==
  /\ claims' = claims \ R
  /\ lapsed' = lapsed \ R
  /\ from' = [c \in Claim |-> IF c \in claims \ R THEN NearestSurvivor(c, R) ELSE RootClaim]
  /\ policies' = {q \in policies : q.claim \notin R}

SubClaims(c) == {d \in claims : c \in GrantChain(d)}

-----------------------------------------------------------------------------
(* Operations of sessions and of the operator *)

(* A request that is free and allowed is granted at once. *)
RequestGranted(s, p) ==
  /\ Decides
  /\ ~AlreadyHeld(s, p)
  /\ Blockers(s, p) = {}
  /\ \E a \in claims : /\ IsAuthority(a, s, p)
                       /\ Allowed(a, p)
                       /\ GrantFrom(a, s, p)
  /\ UNCHANGED <<lapsed, waits, fresh, policies>>
  /\ PromoteWaiters

Joins(s, p) ==
  \E a \in claims :
    LET w == [session |-> s, path |-> p, blockers |-> Blockers(s, p),
              grantor |-> a, authorized |-> Allowed(a, p)]
    IN /\ IsAuthority(a, s, p)
       /\ ~Denied(a, p)
       /\ ~(w.blockers = {} /\ w.authorized)
       /\ ~ClosesCycle(w, ToSet(waits))
       /\ JoinWaits(w)

(* Otherwise it waits, unless it is denied, waits already, or waiting would    *)
(* close a cycle.                                                              *)
RequestWaits(s, p) ==
  /\ Decides
  /\ ~AlreadyHeld(s, p)
  /\ <<s, p>> \notin Keys
  /\ Joins(s, p)
  /\ UNCHANGED <<claims, from, lapsed, policies, promotion>>

(* Mutant: the operator's grant asks for no free path. *)
GrantOver(s, p) ==
  /\ Decides
  /\ ~AlreadyHeld(s, p)
  /\ \E a \in claims : IsAuthority(a, s, p) /\ GrantFrom(a, s, p)
  /\ UNCHANGED <<lapsed, waits, fresh, policies>>
  /\ PromoteWaiters

(* Mutant: the new claim is not promoted against. *)
GrantAlone(s, p) ==
  /\ Decides
  /\ ~AlreadyHeld(s, p)
  /\ Blockers(s, p) = {}
  /\ \E a \in claims : IsAuthority(a, s, p) /\ GrantFrom(a, s, p)
  /\ UNCHANGED <<lapsed, waits, fresh, policies, promotion>>

(* The operator's grant overrides policies, never a live holder.  The root      *)
(* claim of a workstream's first session is such a grant.                      *)
Grant(s, p) ==
  /\ Decides
  /\ ~AlreadyHeld(s, p)
  /\ Blockers(s, p) = {}
  /\ \E a \in claims : IsAuthority(a, s, p) /\ GrantFrom(a, s, p)
  /\ UNCHANGED <<lapsed, waits, fresh, policies>>
  /\ PromoteWaiters

(* The grantor or the operator says yes to a wait: it is granted, or keeps its *)
(* place, authorized, while the path is held.                                  *)
AnswerGrants(i) ==
  LET w == waits[i]
  IN /\ Decides
     /\ ~w.authorized
     /\ ~AlreadyHeld(w.session, w.path)
     /\ Blockers(w.session, w.path) = {}
     /\ \E a \in claims : /\ IsAuthority(a, w.session, w.path)
                          /\ ~Denied(a, w.path)
                          /\ GrantFrom(a, w.session, w.path)
     /\ WithoutWait(i)
     /\ PromoteWaiters
     /\ UNCHANGED <<lapsed, policies>>

AnswerAuthorizes(i) ==
  LET w == waits[i]
      B == Blockers(w.session, w.path)
  IN /\ Decides
     /\ ~w.authorized
     /\ ~AlreadyHeld(w.session, w.path)
     /\ B # {}
     /\ \E a \in claims :
          /\ IsAuthority(a, w.session, w.path)
          /\ ~Denied(a, w.path)
          /\ waits' = [waits EXCEPT ![i].blockers = B, ![i].grantor = a,
                                    ![i].authorized = TRUE]
     /\ phase' = "breaking"
     /\ UNCHANGED <<claims, from, lapsed, fresh, policies, todo, progressed>>

(* A denied answer, or a withdrawal: the wait leaves and nothing is promoted.  *)
WithdrawWait(i) ==
  /\ Decides
  /\ WithoutWait(i)
  /\ UNCHANGED <<claims, from, lapsed, policies, promotion>>

(* Mutant: the root claim can be yielded. *)
YieldAnything(c) ==
  /\ Decides
  /\ c \in claims
  /\ Release({c})
  /\ UNCHANGED <<waits, fresh>>
  /\ PromoteWaiters

(* A holder yields, or the operator releases the claim. *)
YieldClaim(c) ==
  /\ Decides
  /\ c \in claims \ {RootClaim}
  /\ Release({c})
  /\ UNCHANGED <<waits, fresh>>
  /\ PromoteWaiters

(* ... or everything that was subdivided from it as well. *)
ForceReleaseCascading(c) ==
  /\ Decides
  /\ c \in claims \ {RootClaim}
  /\ Release(SubClaims(c))
  /\ UNCHANGED <<waits, fresh>>
  /\ PromoteWaiters

DeclarePolicy(c, p, effect) ==
  /\ Decides
  /\ c \in claims
  /\ IsWithin(p, c.path)
  /\ Cardinality(policies) < MaxPolicies
  /\ policies' = policies \cup {[claim |-> c, subtree |-> p, effect |-> effect]}
  /\ UNCHANGED <<claims, from, lapsed, waits, fresh>>
  /\ PromoteWaiters

(* Nothing is promoted: no wait is there that a policy denied. *)
WithdrawPolicy(q) ==
  /\ Decides
  /\ policies' = policies \ {q}
  /\ UNCHANGED <<claims, from, lapsed, waits, fresh, promotion>>

(* Everything the session held is released, and its places in the waitlist.    *)
EndSession(s) ==
  /\ Decides
  /\ Release({c \in claims : c.holder = s})
  /\ \E kept \in InTheirOrder({i \in DOMAIN waits : waits[i].session # s}) :
       waits' = [n \in DOMAIN kept |-> waits[kept[n]]]
  /\ fresh' = {k \in fresh : k[1] # s}
  /\ PromoteWaiters

(* Mutant: the sweep releases and promotes nobody. *)
SweepAlone ==
  /\ Idle
  /\ lapsed # {}
  /\ Release(lapsed)
  /\ UNCHANGED <<waits, fresh, promotion>>

(* Lapsed leases are swept, by any operation and by every read. *)
Sweep ==
  /\ Idle
  /\ lapsed # {}
  /\ Release(lapsed)
  /\ UNCHANGED <<waits, fresh>>
  /\ PromoteWaiters

(* A second passes, and any leases not renewed in time run out with it.        *)
Tick ==
  /\ Idle
  /\ fresh' = {}
  /\ lapsed' \in {lapsed \cup L : L \in SUBSET (claims \ {RootClaim})}
  /\ <<fresh', lapsed'>> # <<fresh, lapsed>>
  /\ UNCHANGED <<claims, from, waits, policies, promotion>>

-----------------------------------------------------------------------------
(* Promotion *)

(* The wait the pass visits next. *)
Visited(i) ==
  /\ phase = "promoting"
  /\ todo # <<>>
  /\ KeyOf(waits[i]) = Head(todo)

NextWait(changed) ==
  /\ todo' = Tail(todo)
  /\ progressed' = (progressed \/ changed)
  /\ UNCHANGED phase

(* Held meanwhile, or denied by a policy: the wait is over. *)
PromoteRemoves(i) ==
  LET w == waits[i]
  IN /\ Visited(i)
     /\ \/ AlreadyHeld(w.session, w.path)
        \/ \E a \in claims : IsAuthority(a, w.session, w.path) /\ Denied(a, w.path)
     /\ WithoutWait(i)
     /\ NextWait(TRUE)
     /\ UNCHANGED <<claims, from, lapsed, policies>>

PromoteGrants(i) ==
  LET w == waits[i]
  IN /\ Visited(i)
     /\ ~AlreadyHeld(w.session, w.path)
     /\ Blockers(w.session, w.path) = {}
     /\ \E a \in claims : /\ IsAuthority(a, w.session, w.path)
                          /\ ~Denied(a, w.path)
                          /\ w.authorized \/ Allowed(a, w.path)
                          /\ GrantFrom(a, w.session, w.path)
     /\ WithoutWait(i)
     /\ NextWait(TRUE)
     /\ UNCHANGED <<lapsed, policies>>

(* Mutant: every visit counts as progress. *)
SyncAlwaysProgresses(w, synced) == TRUE
SyncProgresses(w, synced) == synced # w

(* Still waiting: the row says for whom, and whether it is authorized. *)
PromoteSyncs(i) ==
  LET w == waits[i]
      B == Blockers(w.session, w.path)
  IN /\ Visited(i)
     /\ ~AlreadyHeld(w.session, w.path)
     /\ \E a \in claims :
          LET authorized == w.authorized \/ Allowed(a, w.path)
              synced == [w EXCEPT !.blockers = B, !.grantor = a, !.authorized = authorized]
          IN /\ IsAuthority(a, w.session, w.path)
             /\ ~Denied(a, w.path)
             /\ ~(B = {} /\ authorized)
             /\ waits' = [waits EXCEPT ![i] = synced]
             /\ NextWait(SyncProgresses(w, synced))
     /\ UNCHANGED <<claims, from, lapsed, fresh, policies>>

(* A pass is over: another one if it changed anything. *)
PassEnds ==
  /\ phase = "promoting"
  /\ todo = <<>>
  /\ UNCHANGED <<claims, from, lapsed, waits, fresh, policies>>
  /\ IF progressed THEN PromoteWaiters
                   ELSE phase' = "breaking" /\ UNCHANGED <<todo, progressed>>

(* The newest wait of a standing cycle is refused. *)
BreakDeadlock(i) ==
  /\ phase = "breaking"
  /\ NewestInCycle(i)
  /\ WithoutWait(i)
  /\ UNCHANGED <<claims, from, lapsed, policies, promotion>>

(* Mutant: the handler returns before the graph is acyclic. *)
PromotionEndsEarly ==
  /\ phase = "breaking"
  /\ phase' = "idle"
  /\ UNCHANGED <<claims, from, lapsed, waits, fresh, policies, todo, progressed>>

PromotionEnds ==
  /\ phase = "breaking"
  /\ \A i \in DOMAIN waits : ~NewestInCycle(i)
  /\ phase' = "idle"
  /\ UNCHANGED <<claims, from, lapsed, waits, fresh, policies, todo, progressed>>

-----------------------------------------------------------------------------
Init ==
  /\ claims = {RootClaim}
  /\ from = [c \in Claim |-> RootClaim]
  /\ lapsed = {}
  /\ waits = <<>>
  /\ fresh = {}
  /\ policies = {}
  /\ phase = "idle"
  /\ todo = <<>>
  /\ progressed = FALSE

SessionStep(s) ==
  \/ \E p \in Path : RequestGranted(s, p) \/ RequestWaits(s, p) \/ Grant(s, p)
  \/ EndSession(s)

WaitStep(i) == AnswerGrants(i) \/ AnswerAuthorizes(i) \/ WithdrawWait(i)

ClaimStep(c) ==
  \/ YieldClaim(c) \/ ForceReleaseCascading(c)
  \/ \E p \in Path, effect \in {"allow", "deny"} : DeclarePolicy(c, p, effect)

PromotionStep ==
  \/ \E i \in DOMAIN waits :
       PromoteRemoves(i) \/ PromoteGrants(i) \/ PromoteSyncs(i) \/ BreakDeadlock(i)
  \/ PassEnds \/ PromotionEnds

Next ==
  \/ \E s \in Session : SessionStep(s)
  \/ \E i \in DOMAIN waits : WaitStep(i)
  \/ \E c \in claims : ClaimStep(c)
  \/ \E q \in policies : WithdrawPolicy(q)
  \/ Sweep \/ Tick
  \/ PromotionStep

Spec == Init /\ [][Next]_vars

(* A promotion runs to its end within one call. *)
FairSpec == Spec /\ WF_vars(PromotionStep)
(* The attention tick reads every workstream's waits, and that read sweeps. *)
TickingSpec == FairSpec /\ WF_vars(Sweep)

-----------------------------------------------------------------------------
(* Properties *)

Wait == [session : Session, path : Path, blockers : SUBSET Claim,
         grantor : Claim, authorized : BOOLEAN]

TypeOK ==
  /\ claims \subseteq Claim
  /\ RootClaim \in claims
  /\ from \in [Claim -> Claim]
  /\ lapsed \subseteq claims
  /\ waits \in Seq(Wait)
  /\ fresh \subseteq Keys
  /\ policies \subseteq Policy
  /\ phase \in {"idle", "promoting", "breaking"}
  /\ todo \in Seq(Session \X Path)
  /\ progressed \in BOOLEAN

(* One writer per path (principle 4): no two sessions hold the same path, and   *)
(* at no moment, swept or not, does more than one session pass the write check. *)
SingleWriter ==
  \A p \in Path : \A s, t \in Session : s # t => ~(MayWrite(s, p) /\ MayWrite(t, p))

(* No claim reaches beyond the one it was granted from, which is live, and the  *)
(* operator's root grant is at the end of every chain: the capability a chain   *)
(* holds was never created by it, whoever in it yields, lapses or is released.  *)
GrantExtent ==
  \A c \in claims \ {RootClaim} :
    /\ from[c] \in claims \ {c}
    /\ IsWithin(c.path, from[c].path)
    /\ RootClaim \in GrantChain(c)

(* Between calls every row of the waitlist says what the claims imply: who      *)
(* blocks it and who would grant it, neither granted nor denied nor overdue.    *)
WaitsInSync ==
  Idle => \A i \in DOMAIN waits :
    LET w == waits[i]
    IN /\ ~AlreadyHeld(w.session, w.path)
       /\ w.blockers = Blockers(w.session, w.path)
       /\ IsAuthority(w.grantor, w.session, w.path)
       /\ ~Denied(w.grantor, w.path)
       /\ w.authorized => w.blockers # {}
       /\ Allowed(w.grantor, w.path) => w.authorized

(* Between calls nobody waits in a circle, whether a request, an answer or a    *)
(* promotion closed it.                                                         *)
NoDeadlock ==
  Idle => \A i \in DOMAIN waits : ~ClosesCycle(waits[i], ToSet(waits))

(* No policy outlives the claim that declared it or reaches beyond it.          *)
PoliciesLive ==
  \A q \in policies : q.claim \in claims /\ IsWithin(q.subtree, q.claim.path)

(* A claim is never granted past an older wait on a conflicting path that could *)
(* have been granted itself: not to a newcomer, and not out of order.           *)
Grantable(w) ==
  /\ Blockers(w.session, w.path) = {}
  /\ \E a \in claims : /\ IsAuthority(a, w.session, w.path)
                       /\ ~Denied(a, w.path)
                       /\ w.authorized \/ Allowed(a, w.path)
OlderThan(c) ==
  {waits[j] : j \in {i \in DOMAIN waits :
     \A k \in 1..i : KeyOf(waits[k]) # <<c.holder, c.path>>}}
FirstComeFirstServed ==
  [][\A c \in claims' \ claims : \A w \in OlderThan(c) :
       PathsConflict(w.path, c.path) /\ w.session # c.holder => ~Grantable(w)]_vars

(* A wait that only lapsed leases hold up does not stay behind them: "a wedged  *)
(* holder always frees its paths eventually" (model.ts), with nobody asking.    *)
(* The leases go, and who could be served then was, or has a live holder ahead. *)
HeldUpByLapsed ==
  \E i \in DOMAIN waits : LET w == waits[i] IN
    w.authorized /\ w.blockers # {} /\ w.blockers \subseteq lapsed
ServedOrBlockedAnew ==
  /\ Idle /\ lapsed = {}
  /\ \A i \in DOMAIN waits : LET w == waits[i] IN
       w.authorized => Blockers(w.session, w.path) # {}
LapseServesTheWaiter == HeldUpByLapsed ~> ServedOrBlockedAnew

(* The passes of a promotion come to an end.                                    *)
PromotionsEnd == phase = "promoting" ~> phase = "idle"
=============================================================================
