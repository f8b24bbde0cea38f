------------------------- MODULE AssetRefreshProofs -------------------------
(***************************************************************************)
(* Proofs about the static files of the Ioxide engine: what the snapshot,  *)
(* its stamp and the walk in progress have to do with each other while the *)
(* disk changes under them, so that NeverStuck and BodyAsPromised hold for *)
(* every number of paths and requests and every bound.                     *)
(***************************************************************************)
EXTENDS AssetRefresh, FiniteSetTheorems, TLAPS

States == {"idle", "claim", "serve", "write", "body", "short"} \cup Reading

(* At most one request walks, it holds the flag, and nobody asks before    *)
(* the server is prepared.                                                 *)
OneWalker ==
    /\ \A r, q \in Requests : req[r].at \in Reading /\ req[q].at \in Reading => r = q
    /\ \A r \in Requests : req[r].at \in Reading => busy
    /\ server # "ready" => \A r \in Requests : req[r].at = "idle"

(* Nothing is dated after the last change of the disk. *)
Dated ==
    /\ \A f \in Files : file[f].written <= lastEdit
    /\ lastEdit <= clock /\ walk.newest <= lastEdit /\ stamp.newest <= lastEdit

(* The files there have been so far; the next one put in place is none of  *)
(* them.                                                                   *)
Made == 0..PathCount + edits

Known ==
    /\ \A p \in Paths : node[p] \in Made /\ snapshot[p].file \in Made
    /\ \A p \in Paths : snapshot[p].file = 0 => snapshot[p] = Nothing
    /\ \A r \in Requests : req[r].fd \in Made

(* While the disk is left alone the walk counts what has a name, and what  *)
(* it arrives at is recorded before the rebuild.                           *)
InWalk == server = "stamp" \/ \E r \in Requests : req[r].at \in {"walk", "compare", "reload"}

Counted ==
    /\ InWalk /\ ~walk.torn => walk.count = Cardinality(Named \ walk.left)
    /\ server = "stamp" /\ ~walk.torn => snapshot = Tree
    /\ \A r \in Requests : req[r].at \in {"compare", "reload"} => walk.left = {}
    /\ \A r \in Requests : req[r].at = "reload" => stamp = Stamped(walk)

(* What ties the snapshot to its stamp: every file that is no longer the   *)
(* one of the snapshot is gone or written after the stamp, and the stamp   *)
(* counts the snapshot's files.  A rebuild that had a change before it is  *)
(* ahead of its stamp, until the next change that is not undone.           *)
Held == {p \in Paths : snapshot[p].file # 0}
Newer(p) == node[p] # 0 /\ file[node[p]].written > stamp.newest
Rebuilding == \E r \in Requests : req[r].at = "reload"

OfOneMoment ==
    /\ stamp.count = Cardinality(Held)
    /\ \A p \in Paths : Entry(p) = snapshot[p] \/ node[p] = 0 \/ Newer(p)

Ahead == snapshot = Tree \/ \E p \in Paths : Newer(p)

Tied ==
    server = "ready" /\ ~Rebuilding =>
        /\ drift = "none" => OfOneMoment
        /\ drift = "ahead" => Ahead

(* What is promised is what the file has, unless it moved. *)
Kept(r) ==
    /\ req[r].sent <= req[r].length
    /\ req[r].at = "short" => req[r].moved
    /\ req[r].at = "write" /\ ~req[r].moved =>
         /\ Asset(r).file # 0
         /\ Asset(r).size = req[r].length
         /\ file[Asset(r).file].size = req[r].length
    /\ req[r].at = "body" => req[r].fd # 0
    /\ req[r].at = "body" /\ ~req[r].moved => file[req[r].fd].size = req[r].length

Promised == \A r \in Requests : Kept(r)

IInv == TypeOK /\ OneWalker /\ Dated /\ Known /\ Counted /\ Tied /\ Promised

----------------------------------------------------------------------------
(* Constants, sets, records. *)

LEMMA ConstantFacts ==
    /\ PathCount \in Nat \ {0} /\ MaxEdits \in Nat /\ MaxFaults \in Nat /\ MaxSize \in Nat \ {0}
    /\ Interval \in Nat \ {0} /\ MaxTime \in Nat /\ MaxTime > Interval
    /\ 1 \in Paths /\ 0 \notin Files /\ Paths \subseteq Files /\ IsFiniteSet(Paths)
    /\ 0 \in Times /\ 1 \in Times /\ 0 \in Sizes /\ MaxSize \in Sizes
<1>1. /\ PathCount \in Nat \ {0} /\ MaxEdits \in Nat /\ MaxFaults \in Nat /\ MaxSize \in Nat \ {0}
      /\ Interval \in Nat \ {0} /\ MaxTime \in Nat /\ MaxTime > Interval
  BY PathAssumption, TimeAssumption, BoundAssumption
<1>2. IsFiniteSet(Paths)
  <2>1. 1 \in Int /\ PathCount \in Int
    BY <1>1
  <2> QED
    BY <2>1, FS_Interval DEF Paths
<1> QED
  BY <1>1, <1>2 DEF Paths, Files, Times, Sizes

LEMMA NamedFacts ==
    ASSUME NEW S \in SUBSET Paths
    PROVE  IsFiniteSet(S) /\ Cardinality(S) \in Nat
BY ConstantFacts, FS_Subset, FS_CardinalityType

LEMMA LeastOf ==
    ASSUME NEW T \in SUBSET Nat, T # {}
    PROVE  \E x \in T : \A y \in T : x <= y
<1>1. PICK R : R = OpToRel(<, Nat)
  OBVIOUS
<1>2. IsWellFoundedOn(R, Nat)
  BY <1>1, NatLessThanWellFounded
<1>3. PICK x \in T : \A y \in T : ~ (<<y, x>> \in R)
  BY <1>2, WFMin
<1>4. \A z \in T, y \in T : <<y, z>> \in R <=> y < z
  BY <1>1 DEF OpToRel
<1>5. ASSUME NEW y \in T PROVE x <= y
  <2>1. ~(y < x)
    BY <1>3, <1>4
  <2> QED
    BY <2>1
<1> QED
  BY <1>5

(* A bounded set of natural numbers that has 0 has its maximum. *)
LEMMA MaxFacts ==
    ASSUME NEW S \in SUBSET Nat, 0 \in S, NEW n \in Nat, \A x \in S : x <= n
    PROVE  Max(S) \in S /\ \A x \in S : x <= Max(S)
<1> DEFINE Above == {b \in Nat : \A x \in S : x <= b}
<1>1. PICK m \in Above : \A b \in Above : m <= b
  <2>1. Above \subseteq Nat /\ n \in Above
    OBVIOUS
  <2> QED
    BY <2>1, LeastOf
<1>2. m \in S
  <2>1. SUFFICES ASSUME m \notin S PROVE FALSE
    OBVIOUS
  <2>2. m \in Nat /\ m # 0 /\ \A x \in S : x <= m /\ x # m
    BY <1>1, <2>1
  <2>3. m - 1 \in Above
    BY <2>2
  <2> QED
    BY <1>1, <2>2, <2>3
<1>3. m \in S /\ \A y \in S : m >= y
  BY <1>1, <1>2
<1>4. Max(S) \in S /\ \A y \in S : Max(S) >= y
  BY <1>3 DEF Max
<1> QED
  BY <1>4

----------------------------------------------------------------------------
(* Requests: what a step makes of one, and of the others. *)

LEMMA RequestFacts ==
    ASSUME TypeOK, NEW r \in Requests
    PROVE  /\ req[r] \in Request /\ req[r].at \in States /\ req[r].now \in Times
           /\ req[r].path \in Paths /\ req[r].length \in Nat /\ req[r].length <= MaxSize
           /\ req[r].sent \in Nat /\ req[r].fd \in {0} \cup Files /\ req[r].moved \in BOOLEAN
           /\ Asset(r) = snapshot[req[r].path]
<1>1. req[r] \in Request
  BY DEF TypeOK
<1> QED
  BY <1>1, ConstantFacts DEF Request, States, Asset

LEMMA BecomesFacts ==
    ASSUME TypeOK, NEW r \in Requests, NEW x \in Request, Becomes(r, x)
    PROVE  /\ req' \in [Requests -> Request] /\ req'[r] = x
           /\ \A q \in Requests : q # r => req'[q] = req[q]
BY DEF Becomes, TypeOK

LEMMA AtFacts ==
    ASSUME NEW q \in Request, NEW a \in States
    PROVE  /\ [q EXCEPT !.at = a] \in Request /\ [q EXCEPT !.at = a].at = a
           /\ [q EXCEPT !.at = a].length = q.length /\ [q EXCEPT !.at = a].fd = q.fd
           /\ [q EXCEPT !.at = a].sent = q.sent /\ [q EXCEPT !.at = a].moved = q.moved
           /\ [q EXCEPT !.at = a].path = q.path
BY DEF Request, States

LEMMA GoesToFacts ==
    ASSUME TypeOK, NEW r \in Requests, NEW a \in States, GoesTo(r, a)
    PROVE  /\ req' \in [Requests -> Request]
           /\ req'[r].at = a /\ req'[r].length = req[r].length /\ req'[r].fd = req[r].fd
           /\ req'[r].sent = req[r].sent
           /\ \A q \in Requests : q # r => req'[q] = req[q]
<1>1. req[r] \in Request
  BY RequestFacts
<1>2. PICK x : x = [req[r] EXCEPT !.at = a]
  OBVIOUS
<1>3. /\ x \in Request /\ x.at = a /\ x.length = req[r].length /\ x.fd = req[r].fd
      /\ x.sent = req[r].sent
  BY <1>1, <1>2, AtFacts
<1>4. Becomes(r, x)
  BY <1>2 DEF GoesTo
<1> QED
  BY <1>3, <1>4, BecomesFacts

LEMMA MovedFacts ==
    ASSUME TypeOK, NEW r \in Requests
    PROVE  /\ Moved(r) \in Request /\ Moved(r).at = req[r].at /\ Moved(r).fd = req[r].fd
           /\ Moved(r).length = req[r].length /\ Moved(r).sent = req[r].sent
           /\ Moved(r).path = req[r].path
           /\ req[r].moved => Moved(r).moved
           /\ req[r].at \in {"write", "body"} => Moved(r).moved
<1>1. req[r] \in Request
  BY RequestFacts
<1> QED
  BY <1>1 DEF Moved, Request

LEMMA IdleFacts ==
    /\ Idle \in Request /\ Idle.at = "idle" /\ Idle.length = 0 /\ Idle.fd = 0 /\ Idle.sent = 0
    /\ "idle" \in States
<1>1. 1 \in Paths /\ 0 \in Times /\ MaxSize \in Nat
  BY ConstantFacts
<1> QED
  BY <1>1 DEF Idle, Request, States

----------------------------------------------------------------------------
(* Frames: what a conjunct of the invariant needs from a step. *)

SameOthers(r) == \A q \in Requests : q # r => req'[q] = req[q]

LEMMA TypeFrame ==
    ASSUME TypeOK, UNCHANGED <<clock, disk, server, nextCheck, busy, faults>>,
           UNCHANGED <<cache, walk>>, req' \in [Requests -> Request]
    PROVE  TypeOK'
<1>1. Times' = Times /\ Files' = Files /\ Paths' = Paths /\ Request' = Request
  BY DEF Times, Files, Paths, Request
<1> QED
  BY <1>1 DEF TypeOK, disk, cache

LEMMA WalkerFrame ==
    ASSUME OneWalker, NEW r \in Requests, SameOthers(r), server = "ready", server' = server,
           \/ req'[r].at \notin Reading /\ busy' = busy
           \/ req'[r].at \notin Reading /\ req[r].at \in Reading
           \/ req'[r].at \in Reading /\ req[r].at \in Reading /\ busy' = busy
           \/ req'[r].at \in Reading /\ ~busy /\ busy'
    PROVE  OneWalker'
<1>1. \A q \in Requests : q # r => req'[q].at = req[q].at
  BY DEF SameOthers
<1>2. \A p, q \in Requests : req[p].at \in Reading /\ req[q].at \in Reading => p = q
  BY DEF OneWalker
<1>3. \A q \in Requests : req[q].at \in Reading => busy
  BY DEF OneWalker
<1>4. \A p, q \in Requests : req'[p].at \in Reading /\ req'[q].at \in Reading => p = q
  BY <1>1, <1>2, <1>3
<1>5. \A q \in Requests : req'[q].at \in Reading => busy'
  BY <1>1, <1>2, <1>3
<1> QED
  BY <1>4, <1>5 DEF OneWalker, Reading

LEMMA DatedFrame ==
    ASSUME Dated, UNCHANGED <<clock, file, lastEdit>>,
           walk'.newest <= lastEdit, stamp'.newest <= lastEdit
    PROVE  Dated'
BY DEF Dated, Files

LEMMA KnownFrame ==
    ASSUME Known, UNCHANGED <<node, snapshot, edits>>, \A r \in Requests : req'[r].fd \in Made
    PROVE  Known'
BY DEF Known, Made, Paths, Nothing

LEMMA CountedFrame ==
    ASSUME Counted, NEW r \in Requests, SameOthers(r), server = "ready", server' = server,
           UNCHANGED <<node, walk>>,
           req'[r].at \in {"walk", "compare", "reload"} =>
              req[r].at \in {"walk", "compare", "reload"},
           req'[r].at \in {"compare", "reload"} => walk.left = {},
           req'[r].at = "reload" => stamp' = Stamped(walk),
           \A q \in Requests : req[q].at = "reload" => stamp' = stamp
    PROVE  Counted'
<1>1. \A q \in Requests : q # r => req'[q].at = req[q].at
  BY DEF SameOthers
<1>2. InWalk' => InWalk
  BY <1>1 DEF InWalk
<1>3. Named' = Named /\ Stamped(walk)' = Stamped(walk)
  BY DEF Named, Paths, Stamped
<1>4. (InWalk /\ ~walk.torn => walk.count = Cardinality(Named \ walk.left))'
  BY <1>2, <1>3 DEF Counted
<1>5. \A q \in Requests : req'[q].at \in {"compare", "reload"} => walk'.left = {}
  BY <1>1 DEF Counted
<1>6. \A q \in Requests : req'[q].at = "reload" => stamp' = Stamped(walk)'
  BY <1>1, <1>3 DEF Counted
<1> QED
  BY <1>4, <1>5, <1>6 DEF Counted

LEMMA TiedFrame ==
    ASSUME Tied, UNCHANGED <<node, file, snapshot, stamp, server, drift>>,
           Rebuilding => Rebuilding'
    PROVE  Tied'
<1>1. OfOneMoment' = OfOneMoment /\ Ahead' = Ahead
  BY DEF OfOneMoment, Ahead, Held, Newer, Entry, Tree, Paths, Nothing
<1> QED
  BY <1>1 DEF Tied

LEMMA KeptSame ==
    ASSUME NEW q \in Requests, Kept(q), req'[q] = req[q], UNCHANGED <<snapshot, file>>
    PROVE  Kept(q)'
BY DEF Kept, Asset

LEMMA KeptElsewhere ==
    ASSUME NEW q \in Requests, req'[q].at \notin {"write", "body", "short"},
           req'[q].sent <= req'[q].length
    PROVE  Kept(q)'
BY DEF Kept

(* One request goes on without walking: what it is left with is all there  *)
(* is to see to.                                                           *)
LEMMA RequestStep ==
    ASSUME IInv, NEW r \in Requests, server = "ready",
           UNCHANGED <<clock, disk, faults, server, cache, nextCheck, walk, busy>>,
           req' \in [Requests -> Request], SameOthers(r),
           req[r].at \notin Reading, req'[r].at \notin Reading,
           req'[r].fd \in Made, Kept(r)'
    PROVE  IInv'
<1>1. /\ TypeOK /\ OneWalker /\ Dated /\ Known /\ Counted /\ Tied /\ Promised
      /\ UNCHANGED <<node, file, edits, lastEdit, snapshot, stamp, drift>>
  BY DEF IInv, disk, cache
<1>2. TypeOK'
  BY <1>1, TypeFrame
<1>3. OneWalker'
  BY <1>1, WalkerFrame
<1>4. Dated'
  <2>1. walk'.newest <= lastEdit /\ stamp'.newest <= lastEdit
    BY <1>1 DEF Dated
  <2> QED
    BY <1>1, <2>1, DatedFrame
<1>5. Known'
  <2>1. \A q \in Requests : req'[q].fd \in Made
    BY <1>1 DEF Known, SameOthers
  <2> QED
    BY <1>1, <2>1, KnownFrame
<1>6. Counted'
  <2>1. req'[r].at \notin {"walk", "compare", "reload"}
    BY DEF Reading
  <2> QED
    BY <1>1, <2>1, CountedFrame
<1>7. Tied'
  <2>1. Rebuilding => Rebuilding'
    BY DEF Rebuilding, SameOthers, Reading
  <2> QED
    BY <1>1, <2>1, TiedFrame
<1>8. Promised'
  <2>1. ASSUME NEW q \in Requests PROVE Kept(q)'
    <3>1. CASE q = r
      BY <3>1
    <3>2. CASE q # r
      BY <1>1, <3>2, KeptSame DEF Promised, SameOthers
    <3> QED
      BY <3>1, <3>2
  <2> QED
    BY <2>1 DEF Promised
<1> QED
  BY <1>2, <1>3, <1>4, <1>5, <1>6, <1>7, <1>8 DEF IInv

----------------------------------------------------------------------------
(* The steps of a request that do not walk. *)

LEMMA ReadyFacts ==
    ASSUME IInv, NEW r \in Requests, req[r].at # "idle" PROVE server = "ready"
BY DEF IInv, OneWalker

LEMMA NewRequest ==
    ASSUME NEW a \in States, NEW t \in Times, NEW p \in Paths, NEW n \in 0..MaxSize,
           NEW b \in BOOLEAN
    PROVE  [at |-> a, now |-> t, path |-> p, length |-> n, fd |-> 0, sent |-> 0, moved |-> b]
             \in Request
<1>1. 0 \in 0..MaxSize
  BY ConstantFacts
<1> QED
  BY <1>1 DEF Request, States

LEMMA ZeroMade == TypeOK => 0 \in Made /\ Made \subseteq {0} \cup Files
<1>1. ASSUME TypeOK PROVE 0 \in Made /\ Made \subseteq {0} \cup Files
  <2>1. edits \in Nat /\ edits <= MaxEdits /\ PathCount \in Nat /\ MaxEdits \in Nat
    BY <1>1, ConstantFacts DEF TypeOK
  <2> QED
    BY <2>1 DEF Made, Files
<1> QED
  BY <1>1

LEMMA ArriveStep == ASSUME IInv, NEW r \in Requests, Arrive(r) PROVE IInv'
<1>1. /\ TypeOK /\ server = "ready" /\ req[r].at \in {"idle", "short"}
      /\ UNCHANGED <<clock, disk, faults, server, cache, nextCheck, walk, busy>>
      /\ clock \in Times
  BY DEF IInv, Arrive, TypeOK
<1>2. PICK p \in Paths, a \in {"claim", "serve"} :
         Becomes(r, [Idle EXCEPT !.at = a, !.now = clock, !.path = p])
  BY DEF Arrive
<1>3. PICK x : x = [Idle EXCEPT !.at = a, !.now = clock, !.path = p]
  OBVIOUS
<1>4. x \in Request /\ x.at = a /\ x.length = 0 /\ x.fd = 0 /\ x.sent = 0
  <2>1. a \in States /\ 0 \in 0..MaxSize /\ FALSE \in BOOLEAN
    BY <1>2, ConstantFacts DEF States
  <2>2. x = [at |-> a, now |-> clock, path |-> p, length |-> 0, fd |-> 0, sent |-> 0, moved |-> FALSE]
    BY <1>3 DEF Idle
  <2>3. x \in Request
    BY <1>1, <1>2, <2>1, <2>2, NewRequest
  <2> QED
    BY <2>2, <2>3
<1>5. Becomes(r, x)
  BY <1>2, <1>3
<1>6. req' \in [Requests -> Request] /\ req'[r] = x /\ SameOthers(r)
  BY <1>1, <1>4, <1>5, BecomesFacts DEF SameOthers
<1>7. Kept(r)'
  <2>1. req'[r].at \notin {"write", "body", "short"} /\ req'[r].sent <= req'[r].length
    BY <1>2, <1>4, <1>6
  <2> QED
    BY <2>1, KeptElsewhere
<1>8. req[r].at \notin Reading /\ req'[r].at \notin Reading
  BY <1>1, <1>2, <1>4, <1>6 DEF Reading
<1>9. req'[r].fd \in Made
  BY <1>1, <1>4, <1>6, ZeroMade
<1> QED
  BY <1>1, <1>6, <1>7, <1>8, <1>9, RequestStep

LEMMA ClaimStep == ASSUME IInv, NEW r \in Requests, Claim(r) PROVE IInv'
<1>1. /\ TypeOK /\ OneWalker /\ Dated /\ Known /\ Counted /\ Tied /\ Promised
      /\ req[r].at = "claim" /\ busy \in BOOLEAN /\ busy'
      /\ UNCHANGED <<clock, disk, faults, server, cache, nextCheck, walk>>
      /\ UNCHANGED <<node, file, edits, lastEdit, snapshot, stamp, drift>>
  BY DEF IInv, Claim, TypeOK, disk, cache
<1>2. server = "ready"
  BY <1>1, ReadyFacts
<1>3. Kept(r)
  BY <1>1 DEF Promised
<1>4. CASE busy
  <2>1. GoesTo(r, "serve") /\ "serve" \in States
    BY <1>4 DEF Claim, States
  <2>2. /\ req' \in [Requests -> Request] /\ SameOthers(r) /\ req'[r].at = "serve"
        /\ req'[r].length = req[r].length /\ req'[r].fd = req[r].fd /\ req'[r].sent = req[r].sent
    BY <1>1, <2>1, GoesToFacts DEF SameOthers
  <2>3. busy' = busy
    BY <1>1, <1>4
  <2>4. Kept(r)'
    <3>1. req'[r].at \notin {"write", "body", "short"} /\ req'[r].sent <= req'[r].length
      BY <1>3, <2>2 DEF Kept
    <3> QED
      BY <3>1, KeptElsewhere
  <2>5. req[r].at \notin Reading /\ req'[r].at \notin Reading /\ req'[r].fd \in Made
    BY <1>1, <2>2 DEF Reading, Known
  <2> QED
    BY <1>1, <1>2, <2>2, <2>3, <2>4, <2>5, RequestStep
<1>5. CASE ~busy
  <2>1. GoesTo(r, "defer") /\ "defer" \in States
    BY <1>5 DEF Claim, States, Reading
  <2>2. /\ req' \in [Requests -> Request] /\ SameOthers(r) /\ req'[r].at = "defer"
        /\ req'[r].length = req[r].length /\ req'[r].fd = req[r].fd /\ req'[r].sent = req[r].sent
    BY <1>1, <2>1, GoesToFacts DEF SameOthers
  <2>3. TypeOK'
    <3>1. Times' = Times /\ Files' = Files /\ Paths' = Paths /\ Request' = Request
      BY DEF Times, Files, Paths, Request
    <3>2. busy' \in BOOLEAN
      BY DEF Claim
    <3> QED
      BY <1>1, <2>2, <3>1, <3>2 DEF TypeOK
  <2>4. OneWalker'
    <3>1. req'[r].at \in Reading /\ ~busy /\ busy'
      BY <1>1, <1>5, <2>2 DEF Reading
    <3> QED
      BY <1>1, <1>2, <2>2, <3>1, WalkerFrame
  <2>5. Dated'
    <3>1. walk'.newest <= lastEdit /\ stamp'.newest <= lastEdit
      BY <1>1 DEF Dated
    <3> QED
      BY <1>1, <3>1, DatedFrame
  <2>6. Known'
    <3>1. \A q \in Requests : req'[q].fd \in Made
      BY <1>1, <2>2 DEF Known, SameOthers
    <3> QED
      BY <1>1, <3>1, KnownFrame
  <2>7. Counted'
    BY <1>1, <1>2, <2>2, CountedFrame
  <2>8. Tied'
    <3>1. Rebuilding => Rebuilding'
      BY <1>1, <2>2 DEF Rebuilding, SameOthers
    <3> QED
      BY <1>1, <3>1, TiedFrame
  <2>9. Promised'
    <3>1. ASSUME NEW q \in Requests PROVE Kept(q)'
      <4>1. CASE q = r
        <5>1. req'[r].at \notin {"write", "body", "short"} /\ req'[r].sent <= req'[r].length
          BY <1>3, <2>2 DEF Kept
        <5> QED
          BY <4>1, <5>1, KeptElsewhere
      <4>2. CASE q # r
        BY <1>1, <2>2, <4>2, KeptSame DEF Promised, SameOthers
      <4> QED
        BY <4>1, <4>2
    <3> QED
      BY <3>1 DEF Promised
  <2> QED
    BY <2>3, <2>4, <2>5, <2>6, <2>7, <2>8, <2>9 DEF IInv
<1> QED
  BY <1>1, <1>4, <1>5

(* The rest of a request that has nothing promised *)
LEMMA IdleStep ==
    ASSUME IInv, NEW r \in Requests, req[r].at \notin Reading, server = "ready",
           UNCHANGED <<clock, disk, faults, server, cache, nextCheck, walk, busy>>,
           Becomes(r, Idle)
    PROVE  IInv'
<1>1. TypeOK
  BY DEF IInv
<1>2. req' \in [Requests -> Request] /\ SameOthers(r) /\ req'[r] = Idle
  BY <1>1, IdleFacts, BecomesFacts DEF SameOthers
<1>3. Kept(r)'
  <2>1. req'[r].at \notin {"write", "body", "short"} /\ req'[r].sent <= req'[r].length
    BY <1>2, IdleFacts
  <2> QED
    BY <2>1, KeptElsewhere
<1>4. req'[r].at \notin Reading /\ req'[r].fd \in Made
  BY <1>1, <1>2, IdleFacts, ZeroMade DEF Reading
<1> QED
  BY <1>2, <1>3, <1>4, RequestStep

LEMMA AssetFacts ==
    ASSUME IInv, NEW r \in Requests, Asset(r) # Nothing
    PROVE  Asset(r).file \in Made \ {0} /\ Asset(r).file \in Files /\ Asset(r).size \in 0..MaxSize
<1>1. TypeOK /\ Known /\ req[r].path \in Paths /\ Asset(r) = snapshot[req[r].path]
  BY RequestFacts DEF IInv
<1>2. Asset(r).file \in Made \ {0}
  BY <1>1 DEF Known
<1>3. Asset(r).size \in 0..MaxSize
  BY <1>1 DEF TypeOK
<1> QED
  BY <1>1, <1>2, <1>3, ZeroMade

LEMMA ResolveStep == ASSUME IInv, NEW r \in Requests, Resolve(r) PROVE IInv'
<1>1. /\ TypeOK /\ Known /\ req[r].at = "serve" /\ req[r].path \in Paths
      /\ UNCHANGED <<clock, disk, faults, server, cache, nextCheck, walk, busy>>
      /\ UNCHANGED <<file, snapshot, edits>>
  BY RequestFacts DEF IInv, Resolve, disk, cache
<1>2. server = "ready" /\ req[r].at \notin Reading
  BY <1>1, ReadyFacts DEF Reading
<1>3. CASE Becomes(r, Idle)
  BY <1>1, <1>2, <1>3, IdleStep
<1>4. CASE /\ Asset(r) # Nothing
           /\ Becomes(r, [Idle EXCEPT !.at = "write", !.path = req[r].path, !.length = Asset(r).size,
                                  !.moved = file[Asset(r).file].size # Asset(r).size])
  <2>1. /\ Asset(r).file # 0 /\ Asset(r).size \in 0..MaxSize
        /\ Asset(r) = snapshot[req[r].path] /\ MaxSize \in Nat
    BY <1>1, <1>4, AssetFacts, RequestFacts, ConstantFacts
  <2>2. PICK p \in Paths, n \in 0..MaxSize, b \in BOOLEAN :
           /\ p = req[r].path /\ n = Asset(r).size
           /\ b = (file[Asset(r).file].size # Asset(r).size)
    BY <1>1, <2>1
  <2>3. PICK x : x = [Idle EXCEPT !.at = "write", !.path = p, !.length = n, !.moved = b]
    OBVIOUS
  <2>4. /\ x \in Request /\ x.at = "write" /\ x.path = p /\ x.length = n /\ x.fd = 0
        /\ x.sent = 0 /\ x.moved = b
    <3>1. "write" \in States /\ 0 \in Times
      BY ConstantFacts DEF States
    <3>2. x = [at |-> "write", now |-> 0, path |-> p, length |-> n, fd |-> 0, sent |-> 0, moved |-> b]
      BY <2>3 DEF Idle
    <3>3. x \in Request
      BY <2>2, <3>1, <3>2, NewRequest
    <3> QED
      BY <3>2, <3>3
  <2>5. Becomes(r, x)
    BY <1>4, <2>2, <2>3
  <2>6. req' \in [Requests -> Request] /\ req'[r] = x /\ SameOthers(r)
    BY <1>1, <2>4, <2>5, BecomesFacts DEF SameOthers
  <2>7. Asset(r)' = Asset(r)
    BY <1>1, <2>2, <2>4, <2>6 DEF Asset
  <2>8. Kept(r)'
    <3>1. ~b => file[Asset(r).file].size = Asset(r).size
      BY <2>2
    <3>2. ~req'[r].moved =>
             Asset(r)'.file # 0 /\ Asset(r)'.size = n /\ file'[Asset(r)'.file].size = n
      BY <1>1, <2>1, <2>2, <2>4, <2>6, <2>7, <3>1
    <3>3. req'[r].at = "write" /\ req'[r].length = n /\ req'[r].sent = 0 /\ 0 <= n
      BY <2>2, <2>4, <2>6
    <3> QED
      BY <3>2, <3>3 DEF Kept
  <2>9. req'[r].at \notin Reading /\ req'[r].fd \in Made
    BY <1>1, <2>4, <2>6, ZeroMade DEF Reading
  <2> QED
    BY <1>1, <1>2, <2>6, <2>8, <2>9, RequestStep
<1> QED
  BY <1>3, <1>4 DEF Resolve

(* A response is only over short of its promise when something moved. *)
LEMMA EndedStep ==
    ASSUME IInv, NEW r \in Requests, req[r].at \in {"write", "body"},
           UNCHANGED <<clock, disk, faults, server, cache, nextCheck, walk, busy>>,
           Becomes(r, Ended(r)), req[r].sent = req[r].length \/ req[r].moved
    PROVE  IInv'
<1>1. TypeOK /\ req[r].moved \in BOOLEAN /\ server = "ready" /\ req[r].at \notin Reading
  BY ReadyFacts, RequestFacts DEF IInv, Reading
<1>2. CASE req[r].sent = req[r].length
  <2>1. Becomes(r, Idle)
    BY <1>2 DEF Ended
  <2> QED
    BY <1>1, <2>1, IdleStep
<1>3. CASE req[r].sent # req[r].length
  <2>1. PICK b \in BOOLEAN : b = req[r].moved
    BY <1>1
  <2>2. PICK x : x = [Idle EXCEPT !.at = "short", !.moved = b]
    OBVIOUS
  <2>3. x \in Request /\ x.at = "short" /\ x.length = 0 /\ x.fd = 0 /\ x.sent = 0 /\ x.moved = b
    <3>1. "short" \in States /\ 0 \in Times /\ 1 \in Paths /\ 0 \in 0..MaxSize
      BY ConstantFacts DEF States
    <3>2. x = [at |-> "short", now |-> 0, path |-> 1, length |-> 0, fd |-> 0, sent |-> 0, moved |-> b]
      BY <2>2 DEF Idle
    <3>3. x \in Request
      BY <3>1, <3>2, NewRequest
    <3> QED
      BY <3>2, <3>3
  <2>4. Ended(r) = x
    BY <1>3, <2>1, <2>2 DEF Ended
  <2>5. req' \in [Requests -> Request] /\ req'[r] = x /\ SameOthers(r)
    BY <1>1, <2>3, <2>4, BecomesFacts DEF SameOthers
  <2>6. b
    BY <1>3, <2>1
  <2>7. Kept(r)'
    <3>1. req'[r].at = "short" /\ req'[r].sent = 0 /\ req'[r].length = 0
      BY <2>3, <2>5
    <3>2. b = TRUE
      BY <2>6
    <3>3. req'[r].moved = TRUE
      BY <2>3, <2>5, <3>2
    <3> QED
      BY <3>1, <3>3 DEF Kept
  <2>8. req'[r].at \notin Reading /\ req'[r].fd \in Made
    BY <1>1, <2>3, <2>5, ZeroMade DEF Reading
  <2> QED
    BY <1>1, <2>5, <2>7, <2>8, RequestStep
<1> QED
  BY <1>2, <1>3

LEMMA WriteStep == ASSUME IInv, NEW r \in Requests, Write(r) PROVE IInv'
<1>1. /\ TypeOK /\ Known /\ req[r].at = "write"
      /\ UNCHANGED <<clock, disk, faults, server, cache, nextCheck, walk, busy>>
      /\ UNCHANGED <<file, snapshot, edits>>
  BY DEF IInv, Write, disk, cache
<1>2. server = "ready" /\ req[r].at \notin Reading
  BY <1>1, ReadyFacts DEF Reading
<1>3. /\ Kept(r) /\ req[r] \in Request /\ req[r].moved \in BOOLEAN
  BY <1>1, RequestFacts DEF IInv, Promised
<1>4. CASE Asset(r) = Nothing
  <2>1. Becomes(r, Ended(r))
    BY <1>4 DEF Write
  <2>2. req[r].moved
    BY <1>1, <1>3, <1>4 DEF Kept, Nothing
  <2> QED
    BY <1>1, <2>1, <2>2, EndedStep
<1>5. CASE Asset(r) # Nothing
  <2>1. Asset(r).file \in Made \ {0} /\ Asset(r).file \in Files
    BY <1>5, AssetFacts
  <2>2. PICK x : x = [req[r] EXCEPT !.at = "body", !.fd = Asset(r).file]
    OBVIOUS
  <2>3. PICK y : y = [req[r] EXCEPT !.at = "body"]
    OBVIOUS
  <2>4. /\ y \in Request /\ y.at = "body" /\ y.length = req[r].length /\ y.sent = req[r].sent
        /\ y.moved = req[r].moved
    BY <1>3, <2>3, AtFacts DEF States
  <2>5. x = [y EXCEPT !.fd = Asset(r).file]
    BY <2>2, <2>3
  <2>6. /\ x \in Request /\ x.at = "body" /\ x.length = req[r].length /\ x.sent = req[r].sent
        /\ x.moved = req[r].moved /\ x.fd = Asset(r).file
    BY <2>1, <2>4, <2>5 DEF Request
  <2>7. Becomes(r, x)
    BY <1>5, <2>2 DEF Write
  <2>8. req' \in [Requests -> Request] /\ req'[r] = x /\ SameOthers(r)
    BY <1>1, <2>6, <2>7, BecomesFacts DEF SameOthers
  <2>9. Kept(r)'
    <3>1. req[r].sent <= req[r].length
      BY <1>3 DEF Kept
    <3>2. ~req[r].moved => file[Asset(r).file].size = req[r].length
      BY <1>1, <1>3 DEF Kept
    <3>3. /\ req'[r].at = "body" /\ req'[r].sent <= req'[r].length /\ req'[r].fd # 0
          /\ ~req'[r].moved => file'[req'[r].fd].size = req'[r].length
      BY <1>1, <2>1, <2>6, <2>8, <3>1, <3>2
    <3> QED
      BY <3>3 DEF Kept
  <2>10. req'[r].at \notin Reading /\ req'[r].fd \in Made
    BY <2>1, <2>6, <2>8 DEF Reading
  <2> QED
    BY <1>1, <1>2, <2>8, <2>9, <2>10, RequestStep
<1> QED
  BY <1>4, <1>5

LEMMA WriteFromDiskStep == ASSUME IInv, NEW r \in Requests, WriteFromDisk(r) PROVE IInv'
<1>1. /\ TypeOK /\ Known /\ req[r].at = "body"
      /\ UNCHANGED <<clock, disk, faults, server, cache, nextCheck, walk, busy>>
      /\ UNCHANGED <<file, snapshot, edits>>
  BY DEF IInv, WriteFromDisk, disk, cache
<1>2. server = "ready" /\ req[r].at \notin Reading
  BY <1>1, ReadyFacts DEF Reading
<1>3. /\ Kept(r) /\ req[r] \in Request /\ req[r].moved \in BOOLEAN /\ req[r].sent \in Nat
      /\ req[r].length \in Nat /\ req[r].length <= MaxSize /\ MaxSize \in Nat
      /\ req[r].fd \in {0} \cup Files
  BY <1>1, RequestFacts, ConstantFacts DEF IInv, Promised
<1>4. /\ req[r].sent <= req[r].length /\ req[r].fd # 0
      /\ ~req[r].moved => file[req[r].fd].size = req[r].length
  BY <1>1, <1>3 DEF Kept
<1>5. CASE More(r)
  <2>1. PICK x : x = [req[r] EXCEPT !.sent = @ + 1]
    OBVIOUS
  <2>2. req[r].sent + 1 \in 0..MaxSize /\ req[r].sent + 1 <= req[r].length
    BY <1>3, <1>5 DEF More
  <2>3. /\ x \in Request /\ x.at = req[r].at /\ x.length = req[r].length /\ x.fd = req[r].fd
        /\ x.sent = req[r].sent + 1 /\ x.moved = req[r].moved
    BY <1>3, <2>1, <2>2 DEF Request
  <2>4. Becomes(r, x)
    BY <1>5, <2>1 DEF WriteFromDisk
  <2>5. req' \in [Requests -> Request] /\ req'[r] = x /\ SameOthers(r)
    BY <1>1, <2>3, <2>4, BecomesFacts DEF SameOthers
  <2>6. Kept(r)'
    <3>1. /\ req'[r].at = "body" /\ req'[r].sent <= req'[r].length /\ req'[r].fd # 0
          /\ ~req'[r].moved => file'[req'[r].fd].size = req'[r].length
      BY <1>1, <1>4, <2>2, <2>3, <2>5
    <3> QED
      BY <3>1 DEF Kept
  <2>7. req'[r].at \notin Reading /\ req'[r].fd \in Made
    BY <1>1, <2>3, <2>5 DEF Reading, Known
  <2> QED
    BY <1>1, <1>2, <2>5, <2>6, <2>7, RequestStep
<1>6. CASE ~More(r)
  <2>1. Becomes(r, Ended(r))
    BY <1>6 DEF WriteFromDisk
  <2>2. req[r].sent = req[r].length \/ req[r].moved
    BY <1>3, <1>4, <1>6 DEF More
  <2> QED
    BY <1>1, <2>1, <2>2, EndedStep
<1> QED
  BY <1>5, <1>6

----------------------------------------------------------------------------
(* The steps of the request that walks. *)

LEMMA VisitedFacts ==
    ASSUME TypeOK, Dated, NEW p \in walk.left
    PROVE  /\ Visited(p) \in [left : SUBSET Paths, count : Nat, newest : Times, bytes : Nat, torn : BOOLEAN]
           /\ Visited(p).left = walk.left \ {p} /\ Visited(p).torn = walk.torn
           /\ Visited(p).newest <= lastEdit
           /\ walk.count = Cardinality(Named \ walk.left) =>
                Visited(p).count = Cardinality(Named \ Visited(p).left)
<1>1. /\ p \in Paths /\ walk.left \in SUBSET Paths /\ walk.count \in Nat /\ walk.newest \in Times
      /\ walk.bytes \in Nat /\ walk.torn \in BOOLEAN /\ walk.newest <= lastEdit
      /\ walk \in [left : SUBSET Paths, count : Nat, newest : Times, bytes : Nat, torn : BOOLEAN]
  BY DEF TypeOK, Dated
<1>2. Named \ walk.left \in SUBSET Paths
  BY DEF Named
<1>3. CASE node[p] = 0
  <2>1. Visited(p) = [walk EXCEPT !.left = walk.left \ {p}]
    BY <1>3 DEF Visited
  <2>2. Named \ (walk.left \ {p}) = Named \ walk.left
    BY <1>3 DEF Named
  <2> QED
    BY <1>1, <2>1, <2>2
<1>4. CASE node[p] # 0
  <2>1. node[p] \in Files /\ file[node[p]].written \in Times /\ file[node[p]].size \in Nat
        /\ file[node[p]].written <= lastEdit
    BY <1>1, <1>4, ConstantFacts DEF TypeOK, Dated
  <2>2. PICK t \in Times : t = Later(walk.newest, file[node[p]].written) /\ t <= lastEdit
    BY <1>1, <2>1 DEF Later
  <2>3. PICK c \in Nat : c = walk.count + 1
    BY <1>1
  <2>4. PICK b \in Nat : b = walk.bytes + file[node[p]].size
    BY <1>1, <2>1
  <2>5. PICK l \in SUBSET Paths : l = walk.left \ {p}
    BY <1>1
  <2>6. PICK z : z = [left |-> l, count |-> c, newest |-> t, bytes |-> b, torn |-> walk.torn]
    OBVIOUS
  <2>7. Visited(p) = [walk EXCEPT !.left = l, !.count = c, !.newest = t, !.bytes = b]
    BY <1>4, <2>2, <2>3, <2>4, <2>5 DEF Visited
  <2>8. walk = [left |-> walk.left, count |-> walk.count, newest |-> walk.newest,
                bytes |-> walk.bytes, torn |-> walk.torn]
    BY <1>1
  <2>9. Visited(p) = z
    BY <2>6, <2>7, <2>8
  <2>10. Named \ l = (Named \ walk.left) \cup {p} /\ p \notin Named \ walk.left
    BY <1>1, <1>4, <2>5 DEF Named
  <2>11. Cardinality(Named \ l) = Cardinality(Named \ walk.left) + 1
    BY <1>2, <2>10, NamedFacts, FS_AddElement
  <2> QED
    BY <1>1, <2>2, <2>3, <2>5, <2>6, <2>9, <2>11
<1> QED
  BY <1>3, <1>4

LEMMA FreshFacts ==
    /\ Fresh \in [left : SUBSET Paths, count : Nat, newest : Times, bytes : Nat, torn : BOOLEAN]
    /\ Fresh.left = Paths /\ Fresh.count = 0 /\ Fresh.newest = 0 /\ Fresh.torn = FALSE
    /\ Fresh.count = Cardinality(Named \ Paths)
<1>1. Named \ Paths = {}
  BY DEF Named
<1>2. 0 \in Times
  BY ConstantFacts
<1> QED
  BY <1>1, <1>2, FS_EmptySet DEF Fresh

LEMMA StampedFacts ==
    ASSUME TypeOK, Dated
    PROVE  /\ Stamped(walk) \in [count : Nat, newest : Times, bytes : Nat]
           /\ Stamped(walk).newest <= lastEdit /\ Stamped(walk).count = walk.count
BY DEF TypeOK, Dated, Stamped

(* What every step of the walker has in common: the disk and the snapshot  *)
(* stay, and the request only changes its place.                           *)
LEMMA WalkerStep ==
    ASSUME IInv, NEW r \in Requests, req[r].at \in Reading,
           NEW a \in Reading \cup {"serve"}, GoesTo(r, a),
           UNCHANGED <<clock, disk, server, snapshot>>
    PROVE  /\ server = "ready" /\ busy /\ server' = server /\ SameOthers(r)
           /\ UNCHANGED <<node, file, edits, lastEdit>>
           /\ req' \in [Requests -> Request] /\ req'[r].at = a
           /\ Known' /\ Promised'
           /\ \A q \in Requests : q # r => req[q].at \notin Reading /\ req'[q].at \notin Reading
           /\ a # "serve" /\ busy' = busy => OneWalker'
           /\ a = "serve" => OneWalker'
<1>1. /\ TypeOK /\ OneWalker /\ Known /\ Promised /\ UNCHANGED <<node, file, edits, lastEdit>>
      /\ a \in States
  BY DEF IInv, disk, States
<1>2. server = "ready" /\ busy
  BY <1>1, ReadyFacts DEF OneWalker, Reading
<1>3. /\ req' \in [Requests -> Request] /\ SameOthers(r) /\ req'[r].at = a
      /\ req'[r].length = req[r].length /\ req'[r].fd = req[r].fd /\ req'[r].sent = req[r].sent
  BY <1>1, GoesToFacts DEF SameOthers
<1>4. \A q \in Requests : q # r => req[q].at \notin Reading /\ req'[q].at \notin Reading
  BY <1>1, <1>3 DEF OneWalker, SameOthers
<1>5. Known'
  <2>1. \A q \in Requests : req'[q].fd \in Made
    BY <1>1, <1>3 DEF Known, SameOthers
  <2> QED
    BY <1>1, <2>1, KnownFrame
<1>6. Promised'
  <2>1. ASSUME NEW q \in Requests PROVE Kept(q)'
    <3>1. CASE q = r
      <4>1. req'[r].at \notin {"write", "body", "short"} /\ req'[r].sent <= req'[r].length
        BY <1>1, <1>3 DEF Promised, Kept, Reading
      <4> QED
        BY <3>1, <4>1, KeptElsewhere
    <3>2. CASE q # r
      BY <1>1, <1>3, <3>2, KeptSame DEF Promised, SameOthers
    <3> QED
      BY <3>1, <3>2
  <2> QED
    BY <2>1 DEF Promised
<1>7. ASSUME a # "serve", busy' = busy PROVE OneWalker'
  <2>1. req'[r].at \in Reading
    BY <1>3, <1>7
  <2> QED
    BY <1>1, <1>2, <1>3, <1>7, <2>1, WalkerFrame
<1>8. ASSUME a = "serve" PROVE OneWalker'
  <2>1. req'[r].at \notin Reading
    BY <1>3, <1>8 DEF Reading
  <2> QED
    BY <1>1, <1>2, <1>3, <2>1, WalkerFrame
<1> QED
  BY <1>1, <1>2, <1>3, <1>4, <1>5, <1>6, <1>7, <1>8

LEMMA WalkerTyped ==
    ASSUME TypeOK, UNCHANGED <<clock, disk, server, snapshot>>,
           stamp' \in [count : Nat, newest : Times, bytes : Nat],
           walk' \in [left : SUBSET Paths, count : Nat, newest : Times, bytes : Nat, torn : BOOLEAN],
           req' \in [Requests -> Request], busy' \in BOOLEAN, faults' \in 0..MaxFaults,
           nextCheck' \in 0..MaxTime + Interval, drift' \in {"none", "ahead", "behind"}
    PROVE  TypeOK'
<1>1. Times' = Times /\ Files' = Files /\ Paths' = Paths /\ Request' = Request
  BY DEF Times, Files, Paths, Request
<1> QED
  BY <1>1 DEF TypeOK, disk

LEMMA DeferStep == ASSUME IInv, NEW r \in Requests, Defer(r) PROVE IInv'
<1>1. /\ TypeOK /\ Dated /\ Counted /\ Tied /\ req[r].at = "defer" /\ nextCheck' = Deadline(r)
      /\ walk' = Fresh /\ GoesTo(r, "walk")
      /\ UNCHANGED <<clock, disk, faults, server, cache, busy>>
      /\ UNCHANGED <<node, file, edits, lastEdit, snapshot, stamp, drift>>
  BY DEF IInv, Defer, disk, cache
<1>2. req[r].at \in Reading /\ "walk" \in Reading \cup {"serve"}
  BY <1>1 DEF Reading
<1>3. /\ server = "ready" /\ SameOthers(r) /\ req' \in [Requests -> Request] /\ req'[r].at = "walk"
      /\ Known' /\ Promised' /\ OneWalker'
      /\ \A q \in Requests : q # r => req[q].at \notin Reading /\ req'[q].at \notin Reading
  BY <1>1, <1>2, WalkerStep
<1>4. TypeOK'
  <2>1. Deadline(r) \in 0..MaxTime + Interval
    <3>1. req[r].now \in 0..MaxTime /\ Interval \in Nat /\ MaxTime \in Nat
      BY <1>1, RequestFacts, ConstantFacts DEF Times
    <3> QED
      BY <3>1 DEF Deadline
  <2>2. /\ stamp' \in [count : Nat, newest : Times, bytes : Nat] /\ busy' \in BOOLEAN
        /\ faults' \in 0..MaxFaults /\ drift' \in {"none", "ahead", "behind"}
    BY <1>1 DEF TypeOK
  <2> QED
    BY <1>1, <1>3, <2>1, <2>2, FreshFacts, WalkerTyped
<1>5. Dated'
  <2>1. walk'.newest <= lastEdit /\ stamp'.newest <= lastEdit
    <3>1. lastEdit \in Times /\ 0 <= lastEdit
      BY <1>1, ConstantFacts DEF TypeOK, Times
    <3> QED
      BY <1>1, <3>1, FreshFacts DEF Dated
  <2> QED
    BY <1>1, <2>1, DatedFrame
<1>6. Counted'
  <2>1. Named' = Named
    BY <1>1 DEF Named, Paths
  <2>2. walk'.count = Cardinality(Named' \ walk'.left)
    BY <1>1, <2>1, FreshFacts
  <2>3. \A q \in Requests : req'[q].at \notin {"compare", "reload"}
    BY <1>3 DEF Reading
  <2>4. server' # "stamp"
    BY <1>1, <1>3
  <2> QED
    BY <2>2, <2>3, <2>4 DEF Counted
<1>7. Tied'
  <2>1. ~Rebuilding
    BY <1>1, <1>3 DEF Rebuilding, Reading
  <2> QED
    BY <1>1, <2>1, TiedFrame
<1> QED
  BY <1>3, <1>4, <1>5, <1>6, <1>7 DEF IInv

LEMMA WalkStep == ASSUME IInv, NEW r \in Requests, NEW p \in Paths, Walk(r, p) PROVE IInv'
<1>1. /\ TypeOK /\ Dated /\ Counted /\ Tied /\ req[r].at = "walk" /\ p \in walk.left
      /\ walk' = Visited(p)
      /\ UNCHANGED <<clock, disk, faults, server, cache, nextCheck, busy>>
      /\ UNCHANGED <<node, file, edits, lastEdit, snapshot, stamp, drift>>
  BY DEF IInv, Walk, disk, cache
<1>2. req[r].at \in Reading
  BY <1>1 DEF Reading
<1>3. PICK a \in {"walk", "compare"} :
         GoesTo(r, a) /\ (a = "compare" => walk'.left = {})
  <2>1. CASE walk'.left = {}
    BY <2>1 DEF Walk
  <2>2. CASE walk'.left # {}
    <3>1. req' = req
      BY <2>2 DEF Walk
    <3>2. req = [req EXCEPT ![r] = [req[r] EXCEPT !.at = "walk"]]
      <4>1. req[r] \in Request /\ req \in [Requests -> Request]
        BY <1>1 DEF TypeOK
      <4>2. PICK x : x = [req[r] EXCEPT !.at = "walk"]
        OBVIOUS
      <4>3. x = req[r]
        BY <1>1, <4>1, <4>2 DEF Request
      <4> QED
        BY <4>1, <4>2, <4>3
    <3> QED
      BY <2>2, <3>1, <3>2 DEF GoesTo, Becomes
  <2> QED
    BY <2>1, <2>2
<1>4. /\ server = "ready" /\ SameOthers(r) /\ req' \in [Requests -> Request] /\ req'[r].at = a
      /\ Known' /\ Promised' /\ OneWalker'
      /\ \A q \in Requests : q # r => req[q].at \notin Reading /\ req'[q].at \notin Reading
  <2>1. a \in Reading \cup {"serve"} /\ a # "serve"
    BY <1>3 DEF Reading
  <2>2. UNCHANGED <<clock, disk, server, snapshot>> /\ busy' = busy
    BY <1>1
  <2> QED
    BY <1>2, <1>3, <2>1, <2>2, WalkerStep
<1>5. TypeOK'
  <2>1. /\ stamp' \in [count : Nat, newest : Times, bytes : Nat] /\ busy' \in BOOLEAN
        /\ faults' \in 0..MaxFaults /\ drift' \in {"none", "ahead", "behind"}
        /\ nextCheck' \in 0..MaxTime + Interval
    BY <1>1 DEF TypeOK
  <2> QED
    BY <1>1, <1>4, <2>1, VisitedFacts, WalkerTyped
<1>6. Dated'
  <2>1. walk'.newest <= lastEdit /\ stamp'.newest <= lastEdit
    BY <1>1, VisitedFacts DEF Dated
  <2> QED
    BY <1>1, <2>1, DatedFrame
<1>7. Counted'
  <2>1. Named' = Named /\ InWalk
    BY <1>1 DEF Named, Paths, InWalk
  <2>2. ~walk'.torn => walk'.count = Cardinality(Named' \ walk'.left)
    BY <1>1, <2>1, VisitedFacts DEF Counted
  <2>3. \A q \in Requests : req'[q].at = "compare" => walk'.left = {}
    BY <1>3, <1>4 DEF Reading
  <2>4. \A q \in Requests : req'[q].at # "reload"
    BY <1>3, <1>4 DEF Reading
  <2>5. server' # "stamp"
    BY <1>1, <1>4
  <2> QED
    BY <2>2, <2>3, <2>4, <2>5 DEF Counted
<1>8. Tied'
  <2>1. ~Rebuilding
    BY <1>1, <1>4 DEF Rebuilding, Reading
  <2> QED
    BY <1>1, <2>1, TiedFrame
<1> QED
  BY <1>4, <1>5, <1>6, <1>7, <1>8 DEF IInv

LEMMA WalkFailsStep == ASSUME IInv, NEW r \in Requests, WalkFails(r) PROVE IInv'
<1>1. /\ TypeOK /\ Dated /\ Counted /\ Tied /\ req[r].at = "walk" /\ GoesTo(r, "release")
      /\ faults' = faults + 1 /\ Faulty
      /\ UNCHANGED <<clock, disk, server, cache, nextCheck, busy, walk>>
      /\ UNCHANGED <<node, file, edits, lastEdit, snapshot, stamp, drift>>
  BY DEF IInv, WalkFails, disk, cache
<1>2. req[r].at \in Reading /\ "release" \in Reading \cup {"serve"}
  BY <1>1 DEF Reading
<1>3. /\ server = "ready" /\ SameOthers(r) /\ req' \in [Requests -> Request] /\ req'[r].at = "release"
      /\ Known' /\ Promised' /\ OneWalker'
      /\ \A q \in Requests : q # r => req[q].at \notin Reading /\ req'[q].at \notin Reading
  BY <1>1, <1>2, WalkerStep
<1>4. TypeOK'
  <2>1. faults' \in 0..MaxFaults
    BY <1>1, ConstantFacts DEF TypeOK, Faulty
  <2>2. /\ stamp' \in [count : Nat, newest : Times, bytes : Nat] /\ busy' \in BOOLEAN
        /\ drift' \in {"none", "ahead", "behind"} /\ nextCheck' \in 0..MaxTime + Interval
        /\ walk' \in [left : SUBSET Paths, count : Nat, newest : Times, bytes : Nat, torn : BOOLEAN]
    BY <1>1 DEF TypeOK
  <2> QED
    BY <1>1, <1>3, <2>1, <2>2, WalkerTyped
<1>5. Dated'
  <2>1. walk'.newest <= lastEdit /\ stamp'.newest <= lastEdit
    BY <1>1 DEF Dated
  <2> QED
    BY <1>1, <2>1, DatedFrame
<1>6. Counted'
  BY <1>1, <1>3, CountedFrame
<1>7. Tied'
  <2>1. ~Rebuilding
    BY <1>1, <1>3 DEF Rebuilding, Reading
  <2> QED
    BY <1>1, <2>1, TiedFrame
<1> QED
  BY <1>3, <1>4, <1>5, <1>6, <1>7 DEF IInv

LEMMA CompareStep == ASSUME IInv, NEW r \in Requests, Compare(r) PROVE IInv'
<1>1. /\ TypeOK /\ Dated /\ Counted /\ Tied /\ req[r].at = "compare"
      /\ stamp' = Stamped(walk) /\ GoesTo(r, IF Changed THEN "reload" ELSE "release")
      /\ UNCHANGED <<clock, disk, faults, server, snapshot, drift, nextCheck, busy, walk>>
      /\ UNCHANGED <<node, file, edits, lastEdit>>
  BY DEF IInv, Compare, disk
<1>2. PICK a \in {"reload", "release"} : GoesTo(r, a) /\ (a = "release" => stamp' = stamp)
  BY <1>1 DEF Changed
<1>3. /\ server = "ready" /\ SameOthers(r) /\ req' \in [Requests -> Request] /\ req'[r].at = a
      /\ Known' /\ Promised' /\ OneWalker'
      /\ \A q \in Requests : q # r => req[q].at \notin Reading /\ req'[q].at \notin Reading
  <2>1. req[r].at \in Reading /\ a \in Reading \cup {"serve"} /\ a # "serve"
    BY <1>1, <1>2 DEF Reading
  <2>2. UNCHANGED <<clock, disk, server, snapshot>> /\ busy' = busy
    BY <1>1
  <2> QED
    BY <1>2, <2>1, <2>2, WalkerStep
<1>4. TypeOK'
  <2>1. /\ busy' \in BOOLEAN /\ faults' \in 0..MaxFaults
        /\ drift' \in {"none", "ahead", "behind"} /\ nextCheck' \in 0..MaxTime + Interval
        /\ walk' \in [left : SUBSET Paths, count : Nat, newest : Times, bytes : Nat, torn : BOOLEAN]
    BY <1>1 DEF TypeOK
  <2> QED
    BY <1>1, <1>3, <2>1, StampedFacts, WalkerTyped
<1>5. Dated'
  <2>1. walk'.newest <= lastEdit /\ stamp'.newest <= lastEdit
    BY <1>1, StampedFacts DEF Dated
  <2> QED
    BY <1>1, <2>1, DatedFrame
<1>6. Counted'
  <2>1. req'[r].at \in {"compare", "reload"} => walk.left = {}
    BY <1>1 DEF Counted
  <2>2. \A q \in Requests : req[q].at # "reload"
    BY <1>1, <1>3 DEF Reading
  <2> QED
    BY <1>1, <1>3, <2>1, <2>2, CountedFrame
<1>7. Tied'
  <2>1. CASE a = "reload"
    <3>1. Rebuilding'
      BY <1>3, <2>1 DEF Rebuilding
    <3> QED
      BY <3>1 DEF Tied
  <2>2. CASE a = "release"
    <3>1. ~Rebuilding /\ stamp' = stamp
      BY <1>1, <1>2, <1>3, <2>2 DEF Rebuilding, Reading
    <3> QED
      BY <1>1, <3>1, TiedFrame
  <2> QED
    BY <2>1, <2>2
<1> QED
  BY <1>3, <1>4, <1>5, <1>6, <1>7 DEF IInv

LEMMA ReloadFailsStep == ASSUME IInv, NEW r \in Requests, ReloadFails(r) PROVE IInv'
<1>1. /\ TypeOK /\ Dated /\ Counted /\ req[r].at = "reload" /\ GoesTo(r, "release")
      /\ faults' = faults + 1 /\ Faulty /\ drift' = "behind"
      /\ UNCHANGED <<clock, disk, server, snapshot, stamp, nextCheck, busy, walk>>
      /\ UNCHANGED <<node, file, edits, lastEdit>>
  BY DEF IInv, ReloadFails, disk
<1>2. req[r].at \in Reading /\ "release" \in Reading \cup {"serve"}
  BY <1>1 DEF Reading
<1>3. /\ server = "ready" /\ SameOthers(r) /\ req' \in [Requests -> Request] /\ req'[r].at = "release"
      /\ Known' /\ Promised' /\ OneWalker'
      /\ \A q \in Requests : q # r => req[q].at \notin Reading /\ req'[q].at \notin Reading
  BY <1>1, <1>2, WalkerStep
<1>4. TypeOK'
  <2>1. faults' \in 0..MaxFaults
    BY <1>1, ConstantFacts DEF TypeOK, Faulty
  <2>2. /\ stamp' \in [count : Nat, newest : Times, bytes : Nat] /\ busy' \in BOOLEAN
        /\ drift' \in {"none", "ahead", "behind"} /\ nextCheck' \in 0..MaxTime + Interval
        /\ walk' \in [left : SUBSET Paths, count : Nat, newest : Times, bytes : Nat, torn : BOOLEAN]
    BY <1>1 DEF TypeOK
  <2> QED
    BY <1>1, <1>3, <2>1, <2>2, WalkerTyped
<1>5. Dated'
  <2>1. walk'.newest <= lastEdit /\ stamp'.newest <= lastEdit
    BY <1>1 DEF Dated
  <2> QED
    BY <1>1, <2>1, DatedFrame
<1>6. Counted'
  BY <1>1, <1>3, CountedFrame
<1>7. Tied'
  BY <1>1 DEF Tied
<1> QED
  BY <1>3, <1>4, <1>5, <1>6, <1>7 DEF IInv

LEMMA ReleaseStep == ASSUME IInv, NEW r \in Requests, Release(r) PROVE IInv'
<1>1. /\ TypeOK /\ Dated /\ Counted /\ Tied /\ req[r].at = "release" /\ GoesTo(r, "serve")
      /\ walk' = Fresh /\ busy' = FALSE
      /\ UNCHANGED <<clock, disk, faults, server, cache, nextCheck>>
      /\ UNCHANGED <<node, file, edits, lastEdit, snapshot, stamp, drift>>
  BY DEF IInv, Release, disk, cache
<1>2. req[r].at \in Reading /\ "serve" \in Reading \cup {"serve"}
  BY <1>1 DEF Reading
<1>3. /\ server = "ready" /\ SameOthers(r) /\ req' \in [Requests -> Request] /\ req'[r].at = "serve"
      /\ Known' /\ Promised' /\ OneWalker'
      /\ \A q \in Requests : q # r => req[q].at \notin Reading /\ req'[q].at \notin Reading
  BY <1>1, <1>2, WalkerStep
<1>4. TypeOK'
  <2>1. /\ stamp' \in [count : Nat, newest : Times, bytes : Nat] /\ busy' \in BOOLEAN
        /\ faults' \in 0..MaxFaults
        /\ drift' \in {"none", "ahead", "behind"} /\ nextCheck' \in 0..MaxTime + Interval
    BY <1>1 DEF TypeOK
  <2> QED
    BY <1>1, <1>3, <2>1, FreshFacts, WalkerTyped
<1>5. Dated'
  <2>1. walk'.newest <= lastEdit /\ stamp'.newest <= lastEdit
    <3>1. lastEdit \in Times /\ 0 <= lastEdit
      BY <1>1, ConstantFacts DEF TypeOK, Times
    <3> QED
      BY <1>1, <3>1, FreshFacts DEF Dated
  <2> QED
    BY <1>1, <2>1, DatedFrame
<1>6. Counted'
  <2>1. \A q \in Requests : req'[q].at \notin {"walk", "compare", "reload"}
    BY <1>3 DEF Reading
  <2>2. ~InWalk' /\ server' # "stamp"
    BY <1>1, <1>3, <2>1 DEF InWalk
  <2> QED
    BY <2>1, <2>2 DEF Counted
<1>7. Tied'
  <2>1. ~Rebuilding
    BY <1>1, <1>3 DEF Rebuilding, Reading
  <2> QED
    BY <1>1, <2>1, TiedFrame
<1> QED
  BY <1>3, <1>4, <1>5, <1>6, <1>7 DEF IInv

----------------------------------------------------------------------------
(* The snapshot is rebuilt. *)

LEMMA TreeFacts ==
    ASSUME TypeOK, Known
    PROVE  /\ Tree \in [Paths -> [file : {0} \cup Files, size : 0..MaxSize]]
           /\ \A p \in Paths : /\ Tree[p] = Entry(p) /\ Tree[p].file = node[p]
                               /\ Tree[p].file \in Made
                               /\ Tree[p].file = 0 => Tree[p] = Nothing
<1>1. 0 \in 0..MaxSize
  BY ConstantFacts
<1>2. ASSUME NEW p \in Paths
      PROVE  /\ Entry(p) \in [file : {0} \cup Files, size : 0..MaxSize]
             /\ Entry(p).file = node[p] /\ (Entry(p).file = 0 => Entry(p) = Nothing)
  <2>1. node[p] \in {0} \cup Files
    BY DEF TypeOK
  <2>2. CASE node[p] = 0
    BY <1>1, <2>2 DEF Entry, Nothing
  <2>3. CASE node[p] # 0
    <3>1. file[node[p]].size \in 0..MaxSize
      BY <2>1, <2>3 DEF TypeOK
    <3> QED
      BY <2>1, <2>3, <3>1 DEF Entry
  <2> QED
    BY <2>2, <2>3
<1>3. \A p \in Paths : Tree[p] = Entry(p)
  BY DEF Tree
<1> QED
  BY <1>2, <1>3 DEF Tree, Known

(* A snapshot taken of the tree, with a stamp that counts its files: they  *)
(* describe one moment.                                                    *)
LEMMA OneMoment ==
    ASSUME TypeOK, Known, snapshot' = Tree, UNCHANGED <<node, file>>,
           stamp'.count = Cardinality(Named)
    PROVE  OfOneMoment'
<1>1. \A p \in Paths : snapshot'[p] = Entry(p) /\ snapshot'[p].file = node[p]
  BY TreeFacts
<1>2. Held' = Named
  BY <1>1 DEF Held, Named, Paths
<1>3. \A p \in Paths : Entry(p)' = Entry(p)
  BY DEF Entry, Nothing
<1>4. Paths' = Paths
  BY DEF Paths
<1> QED
  BY <1>1, <1>2, <1>3, <1>4 DEF OfOneMoment

LEMMA ReloadStep == ASSUME IInv, NEW r \in Requests, Reload(r) PROVE IInv'
<1>1. /\ TypeOK /\ OneWalker /\ Dated /\ Known /\ Counted /\ Promised /\ req[r].at = "reload"
      /\ snapshot' = Tree /\ drift' = IF walk.torn THEN "ahead" ELSE "none"
      /\ req' = [q \in Requests |-> IF q = r THEN [req[q] EXCEPT !.at = "release"] ELSE Moved(q)]
      /\ UNCHANGED <<clock, disk, faults, server, stamp, nextCheck, busy, walk>>
      /\ UNCHANGED <<node, file, edits, lastEdit>>
  BY DEF IInv, Reload, disk
<1>2. /\ req'[r] \in Request /\ req'[r].at = "release" /\ req'[r].length = req[r].length
      /\ req'[r].fd = req[r].fd /\ req'[r].sent = req[r].sent
  <2>1. req[r] \in Request /\ "release" \in States
    BY <1>1, RequestFacts DEF States, Reading
  <2>2. req'[r] = [req[r] EXCEPT !.at = "release"]
    BY <1>1
  <2> QED
    BY <2>1, <2>2, AtFacts
<1>3. \A q \in Requests : q # r => req'[q] = Moved(q)
  BY <1>1
<1>4. \A q \in Requests : q # r => req[q].at \notin Reading
  BY <1>1 DEF OneWalker, Reading
<1>5. /\ \A q \in Requests : req'[q] \in Request /\ req'[q].fd = req[q].fd
      /\ \A q \in Requests : q # r => req'[q].at = req[q].at
  BY <1>1, <1>2, <1>3, MovedFacts
<1>6. server = "ready"
  BY <1>1, ReadyFacts
<1>7. TypeOK'
  <2>1. Times' = Times /\ Files' = Files /\ Paths' = Paths /\ Request' = Request
    BY DEF Times, Files, Paths, Request
  <2>2. req' \in [Requests -> Request]
    BY <1>1, <1>5
  <2>3. snapshot' \in [Paths -> [file : {0} \cup Files, size : 0..MaxSize]]
    BY <1>1, TreeFacts
  <2> QED
    BY <1>1, <2>1, <2>2, <2>3 DEF TypeOK
<1>8. OneWalker'
  <2>1. \A q \in Requests : req'[q].at \in Reading => q = r
    BY <1>4, <1>5
  <2>2. busy'
    BY <1>1 DEF OneWalker, Reading
  <2> QED
    BY <1>1, <1>6, <2>1, <2>2 DEF OneWalker
<1>9. Dated'
  <2>1. walk'.newest <= lastEdit /\ stamp'.newest <= lastEdit
    BY <1>1 DEF Dated
  <2> QED
    BY <1>1, <2>1, DatedFrame
<1>10. Known'
  <2>1. Made' = Made /\ Paths' = Paths /\ Nothing' = Nothing
    BY <1>1 DEF Made, Paths, Nothing
  <2>2. \A p \in Paths : snapshot'[p].file \in Made /\ (snapshot'[p].file = 0 => snapshot'[p] = Nothing)
    BY <1>1, TreeFacts
  <2>3. \A q \in Requests : req'[q].fd \in Made
    BY <1>1, <1>5 DEF Known
  <2> QED
    BY <1>1, <2>1, <2>2, <2>3 DEF Known
<1>11. Counted'
  <2>1. \A q \in Requests : req'[q].at \notin {"walk", "compare", "reload"}
    BY <1>2, <1>4, <1>5 DEF Reading
  <2>2. ~InWalk' /\ server' # "stamp"
    BY <1>1, <1>6, <2>1 DEF InWalk
  <2> QED
    BY <2>1, <2>2 DEF Counted
<1>12. Tied'
  <2>1. CASE walk.torn
    <3>1. Tree' = Tree
      BY <1>1 DEF Tree, Entry, Nothing, Paths
    <3>2. drift' = "ahead" /\ Ahead'
      BY <1>1, <2>1, <3>1 DEF Ahead
    <3> QED
      BY <3>2 DEF Tied
  <2>2. CASE ~walk.torn
    <3>1. InWalk /\ walk.left = {} /\ stamp = Stamped(walk)
      BY <1>1 DEF InWalk, Counted
    <3>2. walk.count = Cardinality(Named \ {})
      BY <1>1, <2>2, <3>1 DEF Counted
    <3>3. Named \ {} = Named
      OBVIOUS
    <3>4. stamp'.count = Cardinality(Named)
      BY <1>1, <3>1, <3>2, <3>3, StampedFacts
    <3>5. drift' = "none" /\ OfOneMoment'
      BY <1>1, <2>2, <3>4, OneMoment
    <3> QED
      BY <3>5 DEF Tied
  <2> QED
    BY <2>1, <2>2
<1>13. Promised'
  <2>1. ASSUME NEW q \in Requests PROVE Kept(q)'
    <3>1. Kept(q)
      BY <1>1 DEF Promised
    <3>2. CASE q = r
      <4>1. req'[r].at \notin {"write", "body", "short"} /\ req'[r].sent <= req'[r].length
        BY <1>2, <3>1, <3>2 DEF Kept
      <4> QED
        BY <3>2, <4>1, KeptElsewhere
    <3>3. CASE q # r
      <4>1. /\ req'[q].at = req[q].at /\ req'[q].length = req[q].length
            /\ req'[q].sent = req[q].sent /\ req'[q].fd = req[q].fd
            /\ req[q].moved => req'[q].moved
            /\ req[q].at \in {"write", "body"} => req'[q].moved
        BY <1>1, <1>3, <3>3, MovedFacts
      <4> QED
        BY <3>1, <4>1 DEF Kept
    <3> QED
      BY <3>2, <3>3
  <2> QED
    BY <2>1 DEF Promised
<1> QED
  BY <1>7, <1>8, <1>9, <1>10, <1>11, <1>12, <1>13 DEF IInv

----------------------------------------------------------------------------
(* PrepareAsync: nobody asks yet. *)

LEMMA PrepareFacts ==
    ASSUME IInv, server # "ready", req' = req, UNCHANGED <<node, file, edits, busy>>,
           snapshot' = snapshot \/ snapshot' = Tree
    PROVE  /\ \A r \in Requests : req[r].at = "idle" /\ req'[r].at = "idle"
           /\ OneWalker' /\ Known' /\ Promised'
           /\ server' # "stamp" => ~InWalk'
<1>1. TypeOK /\ OneWalker /\ Known /\ Promised
  BY DEF IInv
<1>2. \A r \in Requests : req[r].at = "idle" /\ req'[r].at = "idle"
  BY <1>1 DEF OneWalker
<1>3. OneWalker'
  BY <1>2 DEF OneWalker, Reading
<1>4. Known'
  <2>1. Made' = Made /\ Paths' = Paths /\ Nothing' = Nothing
    BY DEF Made, Paths, Nothing
  <2>2. \A p \in Paths : snapshot'[p].file \in Made /\ (snapshot'[p].file = 0 => snapshot'[p] = Nothing)
    BY <1>1, TreeFacts DEF Known
  <2> QED
    BY <1>1, <2>1, <2>2 DEF Known
<1>5. Promised'
  <2>1. ASSUME NEW q \in Requests PROVE Kept(q)'
    <3>1. Kept(q)
      BY <1>1 DEF Promised
    <3> QED
      BY <1>2, <3>1 DEF Kept
  <2> QED
    BY <2>1 DEF Promised
<1>6. server' # "stamp" => ~InWalk'
  BY <1>2 DEF InWalk
<1> QED
  BY <1>2, <1>3, <1>4, <1>5, <1>6

LEMMA PrepareSnapshotStep == ASSUME IInv, PrepareSnapshot PROVE IInv'
<1>1. /\ TypeOK /\ Dated /\ Known /\ server = "snapshot" /\ snapshot' = Tree /\ walk' = Fresh
      /\ server' = "stamp" /\ UNCHANGED <<clock, disk, faults, stamp, drift, nextCheck, busy, req>>
      /\ UNCHANGED <<node, file, edits, lastEdit>>
  BY DEF IInv, PrepareSnapshot, disk
<1>2. /\ OneWalker' /\ Known' /\ Promised' /\ \A r \in Requests : req'[r].at = "idle"
  BY <1>1, PrepareFacts
<1>3. TypeOK'
  <2>1. Times' = Times /\ Files' = Files /\ Paths' = Paths /\ Request' = Request
    BY DEF Times, Files, Paths, Request
  <2>2. snapshot' \in [Paths -> [file : {0} \cup Files, size : 0..MaxSize]]
    BY <1>1, TreeFacts
  <2> QED
    BY <1>1, <2>1, <2>2, FreshFacts DEF TypeOK
<1>4. Dated'
  <2>1. walk'.newest <= lastEdit /\ stamp'.newest <= lastEdit
    <3>1. lastEdit \in Times /\ 0 <= lastEdit
      BY <1>1, ConstantFacts DEF TypeOK, Times
    <3> QED
      BY <1>1, <3>1, FreshFacts DEF Dated
  <2> QED
    BY <1>1, <2>1, DatedFrame
<1>5. Counted'
  <2>1. Named' = Named /\ Tree' = Tree
    BY <1>1 DEF Named, Paths, Tree, Entry, Nothing
  <2>2. walk'.count = Cardinality(Named' \ walk'.left)
    BY <1>1, <2>1, FreshFacts
  <2> QED
    BY <1>1, <1>2, <2>1, <2>2 DEF Counted
<1>6. Tied'
  BY <1>1 DEF Tied
<1> QED
  BY <1>2, <1>3, <1>4, <1>5, <1>6 DEF IInv

LEMMA PrepareWalkStep == ASSUME IInv, NEW p \in Paths, PrepareWalk(p) PROVE IInv'
<1>1. /\ TypeOK /\ Dated /\ Counted /\ server = "stamp" /\ p \in walk.left /\ walk' = Visited(p)
      /\ UNCHANGED <<clock, disk, faults, server, cache, nextCheck, busy, req>>
      /\ UNCHANGED <<node, file, edits, lastEdit, snapshot, stamp, drift>>
  BY DEF IInv, PrepareWalk, disk, cache
<1>2. /\ OneWalker' /\ Known' /\ Promised' /\ \A r \in Requests : req'[r].at = "idle"
  BY <1>1, PrepareFacts
<1>3. TypeOK'
  <2>1. Times' = Times /\ Files' = Files /\ Paths' = Paths /\ Request' = Request
    BY DEF Times, Files, Paths, Request
  <2> QED
    BY <1>1, <2>1, VisitedFacts DEF TypeOK
<1>4. Dated'
  <2>1. walk'.newest <= lastEdit /\ stamp'.newest <= lastEdit
    BY <1>1, VisitedFacts DEF Dated
  <2> QED
    BY <1>1, <2>1, DatedFrame
<1>5. Counted'
  <2>1. Named' = Named /\ Tree' = Tree /\ InWalk
    BY <1>1 DEF Named, Paths, Tree, Entry, Nothing, InWalk
  <2>2. ~walk'.torn => walk'.count = Cardinality(Named' \ walk'.left)
    BY <1>1, <2>1, VisitedFacts DEF Counted
  <2>3. ~walk'.torn => snapshot' = Tree'
    BY <1>1, <2>1, VisitedFacts DEF Counted
  <2> QED
    BY <1>1, <1>2, <2>2, <2>3 DEF Counted
<1>6. Tied'
  BY <1>1 DEF Tied
<1> QED
  BY <1>2, <1>3, <1>4, <1>5, <1>6 DEF IInv

LEMMA PrepareStampStep == ASSUME IInv, PrepareStamp PROVE IInv'
<1>1. /\ TypeOK /\ Dated /\ Known /\ Counted /\ server = "stamp" /\ walk.left = {}
      /\ stamp' = Stamped(walk) /\ drift' = IF walk.torn THEN "behind" ELSE "none"
      /\ walk' = Fresh /\ server' = "ready"
      /\ UNCHANGED <<clock, disk, faults, snapshot, nextCheck, busy, req>>
      /\ UNCHANGED <<node, file, edits, lastEdit>>
  BY DEF IInv, PrepareStamp, disk
<1>2. /\ OneWalker' /\ Known' /\ Promised' /\ \A r \in Requests : req'[r].at = "idle"
      /\ ~InWalk'
  BY <1>1, PrepareFacts
<1>3. TypeOK'
  <2>1. Times' = Times /\ Files' = Files /\ Paths' = Paths /\ Request' = Request
    BY DEF Times, Files, Paths, Request
  <2> QED
    BY <1>1, <2>1, FreshFacts, StampedFacts DEF TypeOK
<1>4. Dated'
  <2>1. walk'.newest <= lastEdit /\ stamp'.newest <= lastEdit
    <3>1. lastEdit \in Times /\ 0 <= lastEdit
      BY <1>1, ConstantFacts DEF TypeOK, Times
    <3> QED
      BY <1>1, <3>1, FreshFacts, StampedFacts
  <2> QED
    BY <1>1, <2>1, DatedFrame
<1>5. Counted'
  BY <1>1, <1>2 DEF Counted
<1>6. Tied'
  <2>1. CASE walk.torn
    <3>1. drift' = "behind"
      BY <1>1, <2>1
    <3> QED
      BY <3>1 DEF Tied
  <2>2. CASE ~walk.torn
    <3>1. walk.count = Cardinality(Named \ {}) /\ snapshot = Tree
      BY <1>1, <2>2 DEF Counted, InWalk
    <3>2. Named \ {} = Named
      OBVIOUS
    <3>3. stamp'.count = Cardinality(Named)
      BY <1>1, <3>1, <3>2, StampedFacts
    <3>4. OfOneMoment' /\ drift' = "none"
      BY <1>1, <2>2, <3>1, <3>3, OneMoment
    <3> QED
      BY <3>4 DEF Tied
  <2> QED
    BY <2>1, <2>2
<1> QED
  BY <1>2, <1>3, <1>4, <1>5, <1>6 DEF IInv

----------------------------------------------------------------------------
(* The disk changes. *)

SameRequests ==
    \A q \in Requests : /\ req'[q].at = req[q].at /\ req'[q].length = req[q].length
                        /\ req'[q].fd = req[q].fd /\ req'[q].sent = req[q].sent

LEMMA EditedFacts ==
    ASSUME IInv, Editable, Edited,
           node' \in [Paths -> {0} \cup Files], \A p \in Paths : node'[p] \in Made',
           file' \in [Files -> [size : 0..MaxSize, written : Times]],
           \A f \in Files : file'[f].written = file[f].written \/ file'[f].written = clock,
           req' \in [Requests -> Request], SameRequests, drift' \in {"none", "ahead", "behind"}
    PROVE  TypeOK' /\ OneWalker' /\ Dated' /\ Known' /\ Counted'
<1>1. /\ TypeOK /\ OneWalker /\ Dated /\ Known /\ Counted
      /\ edits' = edits + 1 /\ lastEdit' = clock
      /\ walk' = [walk EXCEPT !.torn = Walking \/ server = "stamp"]
      /\ UNCHANGED <<clock, faults, server, snapshot, stamp, nextCheck, busy>>
  BY DEF IInv, Edited
<1>2. /\ clock \in Nat /\ lastEdit \in Nat /\ clock \in Times /\ edits \in Nat /\ edits < MaxEdits
      /\ PathCount \in Nat /\ MaxEdits \in Nat
  BY <1>1, ConstantFacts DEF TypeOK, Times, Editable
<1>3. PICK b \in BOOLEAN : b = (Walking \/ server = "stamp")
  OBVIOUS
<1>4. /\ walk' \in [left : SUBSET Paths, count : Nat, newest : Times, bytes : Nat, torn : BOOLEAN]
      /\ walk'.left = walk.left /\ walk'.count = walk.count /\ walk'.newest = walk.newest
      /\ walk'.bytes = walk.bytes /\ walk'.torn = b
  <2>1. walk \in [left : SUBSET Paths, count : Nat, newest : Times, bytes : Nat, torn : BOOLEAN]
    BY <1>1 DEF TypeOK
  <2>2. walk' = [walk EXCEPT !.torn = b]
    BY <1>1, <1>3
  <2> QED
    BY <2>1, <2>2
<1>5. TypeOK'
  <2>1. Times' = Times /\ Files' = Files /\ Paths' = Paths /\ Request' = Request
    BY DEF Times, Files, Paths, Request
  <2>2. edits' \in 0..MaxEdits /\ lastEdit' \in Times
    BY <1>1, <1>2
  <2> QED
    BY <1>1, <1>4, <2>1, <2>2 DEF TypeOK
<1>6. OneWalker'
  BY <1>1 DEF OneWalker, SameRequests
<1>7. Dated'
  <2>1. Files' = Files
    BY DEF Files
  <2>2. \A f \in Files : file[f].written \in Nat /\ file[f].written <= clock
    BY <1>1, <1>2 DEF TypeOK, Dated, Times
  <2>3. \A f \in Files : file'[f].written <= clock
    BY <1>2, <2>2
  <2>4. walk.newest <= clock /\ stamp.newest <= clock
    <3>1. walk.newest \in Nat /\ stamp.newest \in Nat
      BY <1>1 DEF TypeOK, Times
    <3> QED
      BY <1>1, <1>2, <3>1 DEF Dated
  <2> QED
    BY <1>1, <1>2, <1>4, <2>1, <2>3, <2>4 DEF Dated
<1>8. Known'
  <2>1. Made \subseteq Made' /\ Paths' = Paths /\ Nothing' = Nothing
    BY <1>1, <1>2 DEF Made, Paths, Nothing
  <2>2. \A q \in Requests : req'[q].fd \in Made'
    BY <1>1, <2>1 DEF Known, SameRequests
  <2>3. \A p \in Paths : snapshot'[p].file \in Made' /\ (snapshot'[p].file = 0 => snapshot'[p] = Nothing)
    BY <1>1, <2>1 DEF Known
  <2> QED
    BY <2>1, <2>2, <2>3 DEF Known
<1>9. Counted'
  <2>1. InWalk' => walk'.torn
    BY <1>1, <1>3, <1>4 DEF InWalk, Walking, Reading, SameRequests
  <2>2. server' = "stamp" => InWalk'
    BY DEF InWalk
  <2>3. Stamped(walk)' = Stamped(walk)
    BY <1>4 DEF Stamped
  <2>4. \A q \in Requests : /\ req'[q].at \in {"compare", "reload"} => walk'.left = {}
                            /\ req'[q].at = "reload" => stamp' = Stamped(walk)'
    BY <1>1, <1>4, <2>3 DEF Counted, SameRequests
  <2> QED
    BY <2>1, <2>2, <2>4 DEF Counted
<1> QED
  BY <1>5, <1>6, <1>7, <1>8, <1>9

(* A change that is dated after the stamp leaves what ties the snapshot to *)
(* it: the file is newer now.                                              *)
LEMMA TiedEdited ==
    ASSUME IInv, OwnTick, UNCHANGED <<server, snapshot, stamp, drift>>, SameRequests,
           \A p \in Paths : \/ node'[p] = node[p] /\ (node[p] # 0 => file'[node[p]] = file[node[p]])
                            \/ node'[p] # 0 /\ file'[node'[p]].written = clock,
           \E p \in Paths : node'[p] # 0 /\ file'[node'[p]].written = clock
    PROVE  Tied'
<1>1. TypeOK /\ Dated /\ Tied
  BY DEF IInv
<1>2. clock > stamp.newest
  <2>1. clock \in Nat /\ lastEdit \in Nat /\ stamp.newest \in Nat
    BY <1>1, ConstantFacts DEF TypeOK, Times
  <2> QED
    BY <1>1, <2>1 DEF Dated, OwnTick
<1>3. Paths' = Paths
  BY DEF Paths
<1>4. \E p \in Paths : Newer(p)'
  BY <1>2 DEF Newer
<1>5. ASSUME NEW p \in Paths, Entry(p) = snapshot[p] \/ node[p] = 0 \/ Newer(p)
      PROVE  (Entry(p) = snapshot[p] \/ node[p] = 0 \/ Newer(p))'
  <2>1. CASE node'[p] = node[p] /\ (node[p] # 0 => file'[node[p]] = file[node[p]])
    <3>1. Entry(p)' = Entry(p)
      BY <2>1 DEF Entry, Nothing
    <3>2. Newer(p) => Newer(p)'
      BY <2>1 DEF Newer
    <3> QED
      BY <1>5, <2>1, <3>1, <3>2
  <2>2. CASE node'[p] # 0 /\ file'[node'[p]].written = clock
    BY <1>2, <2>2 DEF Newer
  <2> QED
    BY <2>1, <2>2
<1>6. Rebuilding' => Rebuilding
  BY DEF Rebuilding, SameRequests
<1>7. Rebuilding => Rebuilding'
  BY DEF Rebuilding, SameRequests
<1>8. Held' = Held
  BY DEF Held, Paths
<1>9. OfOneMoment => OfOneMoment'
  BY <1>3, <1>5, <1>8 DEF OfOneMoment
<1>10. Ahead'
  BY <1>3, <1>4 DEF Ahead
<1> QED
  BY <1>1, <1>7, <1>9, <1>10 DEF Tied

LEMMA ReplaceStep == ASSUME IInv, NEW p \in Paths, Replace(p) PROVE IInv'
<1>1. /\ TypeOK /\ Known /\ Promised /\ Editable /\ OwnTick /\ Edited /\ UNCHANGED <<req, drift>>
      /\ edits' = edits + 1 /\ UNCHANGED <<server, snapshot, stamp>>
  BY DEF IInv, Replace, Edited
<1>2. PICK n \in Sizes, f \in Nat :
         /\ f = PathCount + edits + 1
         /\ node' = [node EXCEPT ![p] = f]
         /\ file' = [file EXCEPT ![f] = [size |-> n, written |-> clock]]
  <2>1. PathCount + edits + 1 \in Nat
    BY <1>1, ConstantFacts DEF TypeOK
  <2> QED
    BY <2>1 DEF Replace
<1>3. /\ f \in Files /\ f \in Made' /\ f \notin Made /\ f # 0 /\ Made \subseteq Made'
      /\ clock \in Times
  <2>1. /\ edits \in Nat /\ edits < MaxEdits /\ PathCount \in Nat /\ MaxEdits \in Nat
    BY <1>1, ConstantFacts DEF TypeOK, Editable
  <2> QED
    BY <1>1, <1>2, <2>1 DEF Made, Files, TypeOK
<1>4. /\ node \in [Paths -> {0} \cup Files] /\ file \in [Files -> [size : 0..MaxSize, written : Times]]
      /\ \A q \in Paths : node[q] \in Made
  BY <1>1 DEF TypeOK, Known
<1>5. /\ node' \in [Paths -> {0} \cup Files] /\ node'[p] = f
      /\ \A q \in Paths : q # p => node'[q] = node[q]
  BY <1>2, <1>3, <1>4
<1>6. /\ file' \in [Files -> [size : 0..MaxSize, written : Times]] /\ file'[f].written = clock
      /\ \A g \in Files : g # f => file'[g] = file[g]
  BY <1>2, <1>3, <1>4 DEF Sizes
<1>7. SameRequests
  BY <1>1 DEF SameRequests
<1>8. TypeOK' /\ OneWalker' /\ Dated' /\ Known' /\ Counted'
  <2>1. \A q \in Paths : node'[q] \in Made'
    BY <1>3, <1>4, <1>5
  <2>2. \A g \in Files : file'[g].written = file[g].written \/ file'[g].written = clock
    BY <1>6
  <2>3. req' \in [Requests -> Request] /\ drift' \in {"none", "ahead", "behind"}
    BY <1>1 DEF TypeOK
  <2> QED
    BY <1>1, <1>5, <1>6, <1>7, <2>1, <2>2, <2>3, EditedFacts
<1>9. Tied'
  <2>1. ASSUME NEW q \in Paths
        PROVE  \/ node'[q] = node[q] /\ (node[q] # 0 => file'[node[q]] = file[node[q]])
               \/ node'[q] # 0 /\ file'[node'[q]].written = clock
    <3>1. CASE q = p
      BY <1>3, <1>5, <1>6, <3>1
    <3>2. CASE q # p
      <4>1. node[q] # 0 => node[q] \in Files /\ node[q] # f
        BY <1>3, <1>4
      <4> QED
        BY <1>5, <1>6, <3>2, <4>1
    <3> QED
      BY <3>1, <3>2
  <2>2. node'[p] # 0 /\ file'[node'[p]].written = clock
    BY <1>3, <1>5, <1>6
  <2> QED
    BY <1>1, <1>7, <2>1, <2>2, TiedEdited
<1>10. Promised'
  <2>1. ASSUME NEW q \in Requests PROVE Kept(q)'
    <3>1. Kept(q) /\ req'[q] = req[q] /\ req[q].path \in Paths
      BY <1>1, RequestFacts DEF Promised
    <3>2. Asset(q)' = Asset(q) /\ Asset(q).file \in Made /\ req[q].fd \in Made
      BY <1>1, <3>1 DEF Asset, Known
    <3>3. Made \subseteq {0} \cup Files
      BY <1>1, ZeroMade
    <3>4. /\ Asset(q).file # 0 => file'[Asset(q).file] = file[Asset(q).file]
          /\ req[q].fd # 0 => file'[req[q].fd] = file[req[q].fd]
      BY <1>3, <1>6, <3>2, <3>3
    <3> QED
      BY <3>1, <3>2, <3>4 DEF Kept
  <2> QED
    BY <2>1 DEF Promised
<1> QED
  BY <1>8, <1>9, <1>10 DEF IInv

LEMMA RewriteStep == ASSUME IInv, NEW p \in Paths, Rewrite(p) PROVE IInv'
<1>1. /\ TypeOK /\ Known /\ Promised /\ Editable /\ OwnTick /\ Edited /\ UNCHANGED <<node, drift>>
      /\ edits' = edits + 1 /\ UNCHANGED <<server, snapshot, stamp>>
      /\ node[p] # 0 /\ req' = [r \in Requests |-> Moved(r)]
  BY DEF IInv, Rewrite, Edited
<1>2. PICK n \in Sizes : file' = [file EXCEPT ![node[p]] = [size |-> n, written |-> clock]]
  BY DEF Rewrite
<1>3. /\ node \in [Paths -> {0} \cup Files] /\ file \in [Files -> [size : 0..MaxSize, written : Times]]
      /\ \A q \in Paths : node[q] \in Made
      /\ clock \in Times /\ node[p] \in Files
  BY <1>1 DEF TypeOK, Known
<1>4. /\ file' \in [Files -> [size : 0..MaxSize, written : Times]] /\ file'[node[p]].written = clock
      /\ \A g \in Files : g # node[p] => file'[g] = file[g]
  BY <1>2, <1>3 DEF Sizes
<1>5. /\ SameRequests /\ req' \in [Requests -> Request]
      /\ \A q \in Requests : /\ req[q].moved => req'[q].moved
                             /\ req[q].at \in {"write", "body"} => req'[q].moved
  BY <1>1, MovedFacts DEF SameRequests
<1>6. TypeOK' /\ OneWalker' /\ Dated' /\ Known' /\ Counted'
  <2>1. Made \subseteq Made'
    BY <1>1, ConstantFacts DEF TypeOK, Made
  <2>2. node' \in [Paths -> {0} \cup Files] /\ \A q \in Paths : node'[q] \in Made'
    BY <1>1, <1>3, <2>1
  <2>3. \A g \in Files : file'[g].written = file[g].written \/ file'[g].written = clock
    BY <1>4
  <2>4. drift' \in {"none", "ahead", "behind"}
    BY <1>1 DEF TypeOK
  <2> QED
    BY <1>1, <1>4, <1>5, <2>2, <2>3, <2>4, EditedFacts
<1>7. Tied'
  <2>1. ASSUME NEW q \in Paths
        PROVE  \/ node'[q] = node[q] /\ (node[q] # 0 => file'[node[q]] = file[node[q]])
               \/ node'[q] # 0 /\ file'[node'[q]].written = clock
    BY <1>1, <1>3, <1>4
  <2>2. node'[p] # 0 /\ file'[node'[p]].written = clock
    BY <1>1, <1>4
  <2> QED
    BY <1>1, <1>5, <2>1, <2>2, TiedEdited
<1>8. Promised'
  <2>1. ASSUME NEW q \in Requests PROVE Kept(q)'
    BY <1>1, <1>5 DEF Promised, Kept, SameRequests
  <2> QED
    BY <2>1 DEF Promised
<1> QED
  BY <1>6, <1>7, <1>8 DEF IInv

LEMMA RemoveStep == ASSUME IInv, NEW p \in Paths, Remove(p) PROVE IInv'
<1>1. /\ TypeOK /\ Known /\ Tied /\ Promised /\ Editable /\ Edited /\ UNCHANGED <<file, req>>
      /\ edits' = edits + 1 /\ UNCHANGED <<server, snapshot, stamp>>
      /\ drift' = IF drift = "ahead" THEN "behind" ELSE drift
      /\ node' = [node EXCEPT ![p] = 0]
  BY DEF IInv, Remove, Edited
<1>2. /\ node \in [Paths -> {0} \cup Files] /\ \A q \in Paths : node[q] \in Made
      /\ file \in [Files -> [size : 0..MaxSize, written : Times]]
  BY <1>1 DEF TypeOK, Known
<1>3. /\ node' \in [Paths -> {0} \cup Files] /\ node'[p] = 0
      /\ \A q \in Paths : q # p => node'[q] = node[q]
  BY <1>1, <1>2
<1>4. TypeOK' /\ OneWalker' /\ Dated' /\ Known' /\ Counted'
  <2>1. Made \subseteq Made' /\ 0 \in Made'
    BY <1>1, ConstantFacts DEF TypeOK, Made
  <2>2. \A q \in Paths : node'[q] \in Made'
    BY <1>2, <1>3, <2>1
  <2>3. /\ SameRequests /\ req' \in [Requests -> Request] /\ drift' \in {"none", "ahead", "behind"}
        /\ \A f \in Files : file'[f].written = file[f].written \/ file'[f].written = clock
    BY <1>1 DEF SameRequests, TypeOK
  <2> QED
    BY <1>1, <1>2, <1>3, <2>2, <2>3, EditedFacts
<1>5. Tied'
  <2>1. drift' # "ahead" /\ (drift' = "none" => drift = "none")
    BY <1>1 DEF TypeOK
  <2>2. OfOneMoment => OfOneMoment'
    <3>1. ASSUME NEW q \in Paths, Entry(q) = snapshot[q] \/ node[q] = 0 \/ Newer(q)
          PROVE  (Entry(q) = snapshot[q] \/ node[q] = 0 \/ Newer(q))'
      <4>1. CASE q = p
        BY <1>3, <4>1
      <4>2. CASE q # p
        BY <1>1, <1>3, <3>1, <4>2 DEF Entry, Nothing, Newer
      <4> QED
        BY <4>1, <4>2
    <3>2. Held' = Held /\ Paths' = Paths
      BY <1>1 DEF Held, Paths
    <3> QED
      BY <1>1, <3>1, <3>2 DEF OfOneMoment
  <2>3. Rebuilding' <=> Rebuilding
    BY <1>1 DEF Rebuilding
  <2> QED
    BY <1>1, <2>1, <2>2, <2>3 DEF Tied
<1>6. Promised'
  <2>1. ASSUME NEW q \in Requests PROVE Kept(q)'
    BY <1>1, KeptSame DEF Promised
  <2> QED
    BY <2>1 DEF Promised
<1> QED
  BY <1>4, <1>5, <1>6 DEF IInv

LEMMA TickStep == ASSUME IInv, Tick PROVE IInv'
<1>1. /\ TypeOK /\ OneWalker /\ Dated /\ Known /\ Counted /\ Tied /\ Promised
      /\ server # "snapshot" /\ clock < MaxTime /\ clock' = clock + 1
      /\ UNCHANGED <<disk, faults, server, cache, nextCheck, busy, walk, req>>
      /\ UNCHANGED <<node, file, edits, lastEdit, snapshot, stamp, drift>>
  BY DEF IInv, Tick, disk, cache
<1>2. clock \in Nat /\ clock' \in Times
  BY <1>1, ConstantFacts DEF TypeOK, Times
<1>3. TypeOK'
  <2>1. Times' = Times /\ Files' = Files /\ Paths' = Paths /\ Request' = Request
    BY DEF Times, Files, Paths, Request
  <2> QED
    BY <1>1, <1>2, <2>1 DEF TypeOK
<1>4. OneWalker'
  BY <1>1 DEF OneWalker
<1>5. Dated'
  <2>1. lastEdit <= clock'
    <3>1. lastEdit \in Nat /\ lastEdit <= clock
      BY <1>1, ConstantFacts DEF TypeOK, Times, Dated
    <3> QED
      BY <1>1, <1>2, <3>1
  <2> QED
    BY <1>1, <2>1 DEF Dated, Files
<1>6. Known'
  BY <1>1, KnownFrame DEF Known
<1>7. Counted'
  <2>1. Named' = Named /\ Tree' = Tree /\ Stamped(walk)' = Stamped(walk) /\ (InWalk' => InWalk)
    BY <1>1 DEF Named, Paths, Tree, Entry, Nothing, Stamped, InWalk
  <2> QED
    BY <1>1, <2>1 DEF Counted
<1>8. Tied'
  <2>1. Rebuilding => Rebuilding'
    BY <1>1 DEF Rebuilding
  <2> QED
    BY <1>1, <2>1, TiedFrame
<1>9. Promised'
  BY <1>1, KeptSame DEF Promised
<1> QED
  BY <1>3, <1>4, <1>5, <1>6, <1>7, <1>8, <1>9 DEF IInv

LEMMA StutterStep == ASSUME IInv, UNCHANGED vars PROVE IInv'
<1>1. UNCHANGED <<clock, node, file, edits, lastEdit, faults, server, snapshot, stamp, drift,
                  nextCheck, busy, walk, req>>
  BY DEF vars, disk, cache
<1>2. TypeOK'
  <2>1. req' \in [Requests -> Request]
    BY <1>1 DEF IInv, TypeOK
  <2> QED
    BY <1>1, <2>1, TypeFrame DEF IInv, disk, cache
<1>3. OneWalker' /\ Dated' /\ Known'
  BY <1>1, KnownFrame DEF IInv, OneWalker, Dated, Known, Files
<1>4. Counted'
  <2>1. Named' = Named /\ Tree' = Tree /\ Stamped(walk)' = Stamped(walk) /\ (InWalk' => InWalk)
    BY <1>1 DEF Named, Paths, Tree, Entry, Nothing, Stamped, InWalk
  <2> QED
    BY <1>1, <2>1 DEF IInv, Counted
<1>5. Tied'
  <2>1. Rebuilding => Rebuilding'
    BY <1>1 DEF Rebuilding
  <2> QED
    BY <1>1, <2>1, TiedFrame DEF IInv
<1>6. Promised'
  BY <1>1, KeptSame DEF IInv, Promised
<1> QED
  BY <1>2, <1>3, <1>4, <1>5, <1>6 DEF IInv

----------------------------------------------------------------------------
(* The theorems. *)

LEMMA InitInv == Init => IInv
<1> SUFFICES ASSUME Init PROVE IInv
  OBVIOUS
<1>1. /\ clock = 1 /\ edits = 0 /\ faults = 0 /\ lastEdit = 0 /\ server = "snapshot"
      /\ snapshot = [p \in Paths |-> Nothing] /\ stamp = [count |-> 0, newest |-> 0, bytes |-> 0]
      /\ nextCheck = 0 /\ busy = FALSE /\ walk = Fresh /\ req = [r \in Requests |-> Idle]
      /\ drift = "none"
      /\ file = [f \in Files |-> [size |-> IF f \in Paths THEN MaxSize ELSE 0, written |-> 0]]
  BY DEF Init
<1>2. PICK there \in SUBSET Paths : node = [p \in Paths |-> IF p \in there THEN p ELSE 0]
  BY DEF Init
<1>3. /\ node \in [Paths -> {0} \cup Files] /\ 0 \in Made
      /\ \A p \in Paths : node[p] \in Made
  <2>1. PathCount \in Nat /\ Paths \subseteq Files
    BY ConstantFacts
  <2>2. Paths \subseteq Made /\ 0 \in Made
    BY <1>1, <2>1 DEF Made, Paths
  <2> QED
    BY <1>2, <2>1, <2>2
<1>4. /\ file \in [Files -> [size : 0..MaxSize, written : Times]]
      /\ \A f \in Files : file[f].written = 0
  <2>1. 0 \in Times /\ 0 \in 0..MaxSize /\ MaxSize \in 0..MaxSize
    BY ConstantFacts
  <2>2. \A f \in Files : (IF f \in Paths THEN MaxSize ELSE 0) \in 0..MaxSize
    BY <2>1
  <2> QED
    BY <1>1, <2>1, <2>2
<1>5. req \in [Requests -> Request] /\ \A r \in Requests : req[r].at = "idle" /\ req[r] = Idle
  BY <1>1, IdleFacts
<1>6. /\ snapshot \in [Paths -> [file : {0} \cup Files, size : 0..MaxSize]]
      /\ \A p \in Paths : snapshot[p] = Nothing /\ snapshot[p].file = 0
  <2>1. 0 \in 0..MaxSize
    BY ConstantFacts
  <2> QED
    BY <1>1, <2>1 DEF Nothing
<1>7. TypeOK
  <2>1. /\ clock \in Times /\ lastEdit \in Times /\ edits \in 0..MaxEdits /\ faults \in 0..MaxFaults
        /\ nextCheck \in 0..MaxTime + Interval /\ stamp \in [count : Nat, newest : Times, bytes : Nat]
    BY <1>1, ConstantFacts
  <2> QED
    BY <1>1, <1>3, <1>4, <1>5, <1>6, <2>1, FreshFacts DEF TypeOK
<1>8. OneWalker
  BY <1>5 DEF OneWalker, Reading
<1>9. Dated
  BY <1>1, <1>4, FreshFacts DEF Dated
<1>10. Known
  <2>1. \A p \in Paths : node[p] \in Made /\ snapshot[p].file \in Made
    BY <1>3, <1>6
  <2>2. \A p \in Paths : snapshot[p].file = 0 => snapshot[p] = Nothing
    BY <1>6
  <2>3. \A r \in Requests : req[r].fd \in Made
    <3>1. \A r \in Requests : req[r].fd = 0
      BY <1>5, IdleFacts
    <3> QED
      BY <1>3, <3>1
  <2> QED
    BY <2>1, <2>2, <2>3 DEF Known
<1>11. Counted
  <2>1. ~InWalk
    BY <1>1, <1>5 DEF InWalk
  <2> QED
    BY <1>1, <1>5, <2>1 DEF Counted
<1>12. Tied
  BY <1>1 DEF Tied
<1>13. Promised
  BY <1>5, IdleFacts DEF Promised, Kept
<1> QED
  BY <1>7, <1>8, <1>9, <1>10, <1>11, <1>12, <1>13 DEF IInv

LEMMA NextInv == IInv /\ [Next]_vars => IInv'
<1> SUFFICES ASSUME IInv, [Next]_vars PROVE IInv'
  OBVIOUS
<1>1. CASE DiskChanges
  BY <1>1, ReplaceStep, RewriteStep, RemoveStep DEF DiskChanges
<1>2. CASE Tick
  BY <1>2, TickStep
<1>3. CASE Prepare
  BY <1>3, PrepareSnapshotStep, PrepareStampStep, PrepareWalkStep DEF Prepare
<1>4. ASSUME NEW r \in Requests, Arrive(r) \/ WalkFails(r) \/ ReloadFails(r) PROVE IInv'
  BY <1>4, ArriveStep, WalkFailsStep, ReloadFailsStep
<1>5. ASSUME NEW r \in Requests, Touch(r) PROVE IInv'
  BY <1>5, ClaimStep, DeferStep, CompareStep, ReloadStep, ReleaseStep, WalkStep DEF Touch
<1>6. ASSUME NEW r \in Requests, Respond(r) PROVE IInv'
  BY <1>6, ResolveStep, WriteStep, WriteFromDiskStep DEF Respond
<1>7. CASE UNCHANGED vars
  BY <1>7, StutterStep
<1> QED
  BY <1>1, <1>2, <1>3, <1>4, <1>5, <1>6, <1>7 DEF Next

LEMMA AlwaysInv == Spec => []IInv
<1> QED
  BY InitInv, NextInv, PTL DEF Spec

(* The newest of the tree is at least as new as each of its files. *)
LEMMA NewestFacts ==
    ASSUME TypeOK, NEW p \in Named PROVE file[node[p]].written <= NewestOfTree
<1> DEFINE S == {0} \cup {file[node[q]].written : q \in Named}
<1>1. \A q \in Named : node[q] \in Files /\ file[node[q]].written \in Times
  BY DEF TypeOK, Named
<1>2. S \in SUBSET Nat /\ 0 \in S /\ MaxTime \in Nat /\ \A x \in S : x <= MaxTime
  BY <1>1, ConstantFacts DEF Times
<1>3. file[node[p]].written \in S
  OBVIOUS
<1> HIDE DEF S
<1>4. file[node[p]].written <= Max(S)
  BY <1>2, <1>3, MaxFacts
<1> QED
  BY <1>4 DEF S, NewestOfTree

LEMMA NotStuck == IInv => NeverStuck
<1> SUFFICES ASSUME IInv, server = "ready", ~Walking, stamp = StampOfTree, drift # "behind"
             PROVE  snapshot = Tree
  BY DEF NeverStuck, UpToDate
<1>1. TypeOK /\ Known /\ Tied
  BY DEF IInv
<1>2. ~Rebuilding
  BY DEF Walking, Rebuilding, Reading
<1>3. stamp.count = Cardinality(Named) /\ stamp.newest = NewestOfTree
  BY DEF StampOfTree
<1>4. \A p \in Paths : ~Newer(p)
  <2>1. ASSUME NEW p \in Paths, node[p] # 0 PROVE file[node[p]].written <= stamp.newest
    <3>1. p \in Named
      BY <2>1 DEF Named
    <3> QED
      BY <1>1, <1>3, <3>1, NewestFacts
  <2>2. ASSUME NEW p \in Paths, node[p] # 0 PROVE ~(file[node[p]].written > stamp.newest)
    <3>1. file[node[p]].written \in Nat /\ stamp.newest \in Nat
      <4>1. node[p] \in Files
        BY <1>1, <2>2 DEF TypeOK
      <4> QED
        BY <1>1, <4>1 DEF TypeOK, Times
    <3> QED
      BY <2>1, <2>2, <3>1
  <2> QED
    BY <2>2 DEF Newer
<1>5. CASE drift = "ahead"
  BY <1>1, <1>2, <1>4, <1>5 DEF Tied, Ahead
<1>6. CASE drift = "none"
  <2>1. OfOneMoment
    BY <1>1, <1>2, <1>6 DEF Tied
  <2>2. \A p \in Paths : Entry(p) = snapshot[p] \/ node[p] = 0
    BY <1>4, <2>1 DEF OfOneMoment
  <2>3. Named \subseteq Held
    <3>1. ASSUME NEW p \in Named PROVE p \in Held
      <4>1. p \in Paths /\ node[p] # 0
        BY DEF Named
      <4>2. snapshot[p] = [file |-> node[p], size |-> file[node[p]].size]
        BY <2>2, <4>1 DEF Entry
      <4>3. snapshot[p].file = node[p]
        BY <4>2
      <4> QED
        BY <4>1, <4>3 DEF Held
    <3> QED
      BY <3>1
  <2>4. Held \in SUBSET Paths /\ Cardinality(Held) = Cardinality(Named)
    BY <1>3, <2>1 DEF Held, OfOneMoment
  <2>5. Held = Named
    BY <2>3, <2>4, NamedFacts, FS_Subset
  <2>6. ASSUME NEW p \in Paths PROVE snapshot[p] = Entry(p)
    <3>1. CASE node[p] = 0
      <4>1. snapshot[p].file = 0
        BY <2>5, <3>1 DEF Named, Held
      <4> QED
        BY <1>1, <3>1, <4>1 DEF Known, Entry
    <3>2. CASE node[p] # 0
      BY <2>2, <3>2
    <3> QED
      BY <3>1, <3>2
  <2> QED
    BY <1>1, <2>6 DEF TypeOK, Tree
<1>7. drift \in {"none", "ahead"}
  BY <1>1 DEF TypeOK
<1> QED
  BY <1>5, <1>6, <1>7

(* Every variable keeps its type, for every number of paths, requests,     *)
(* changes and faults.                                                     *)
THEOREM TypeCorrect == Spec => []TypeOK
<1>1. IInv => TypeOK
  BY DEF IInv
<1> QED
  BY <1>1, AlwaysInv, PTL

(* A snapshot that no further check would replace is the tree              *)
(* (AssetRefresh.Touch), but for the ways the code has to tie a stamp to   *)
(* another tree than the snapshot.                                         *)
THEOREM NeverLeftBehind == Spec => []NeverStuck
<1> QED
  BY AlwaysInv, NotStuck, PTL

(* A body is as long as its head promised, and only shorter when the file  *)
(* or the snapshot changed meanwhile (IoxideAssetContent.WriteAsync).      *)
THEOREM AlwaysAsPromised == Spec => []BodyAsPromised
<1>1. IInv => BodyAsPromised
  BY DEF IInv, Promised, Kept, BodyAsPromised
<1> QED
  BY <1>1, AlwaysInv, PTL

(* While one request stamps the tree, no other does: the flag of           *)
(* AssetRefresh.Touch keeps a second walk out.                             *)
THEOREM OneWalkAtATime ==
    Spec => [](\A r, q \in Requests : req[r].at \in Reading /\ req[q].at \in Reading => r = q)
<1>1. IInv => \A r, q \in Requests : req[r].at \in Reading /\ req[q].at \in Reading => r = q
  BY DEF IInv, OneWalker
<1> QED
  BY <1>1, AlwaysInv, PTL
=============================================================================
