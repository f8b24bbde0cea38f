---------------------------- MODULE AssetRefresh ----------------------------
(***************************************************************************)
(* The static files of the Ioxide engine.  A snapshot of the tree (size    *)
(* and open descriptor of every file) answers the requests; AssetRefresh   *)
(* stamps the tree, at most once per interval and driven by the requests,  *)
(* and has the snapshot rebuilt when the stamp has moved                   *)
(* (AssetRefresh.cs).  A request takes the length from one lease of the    *)
(* snapshot and writes the body under another (IoxideFilesHandler.cs,      *)
(* IoxideAssetContent.cs).                                                 *)
(*                                                                         *)
(* The disk belongs to somebody else: files are replaced, rewritten in     *)
(* place and removed between any two steps, and a walk or a rebuild may    *)
(* fail.  Requests run on several reactors.  Two writes do not share a     *)
(* tick of the clock and carry the time they are made at, so that stamps   *)
(* tell trees apart; Stamp itself is the real one, the hash left out.      *)
(***************************************************************************)
EXTENDS Naturals, FiniteSets, FiniteSetsExt

CONSTANTS
    PathCount,      \* the paths of the tree are 1..PathCount
    Requests,       \* the requests in flight at a time, each on its reactor
    Gets,           \* those that ask for the body too
    Interval,       \* the refresh interval, in ticks
    MaxSize,        \* bound: the size of a file, in reads of its body
    MaxTime,        \* bound: ticks
    MaxEdits,       \* bound: changes of the disk
    MaxFaults       \* bound: walks and rebuilds that throw

ASSUME GetsAssumption == Gets \subseteq Requests
ASSUME PathAssumption == PathCount \in Nat \ {0}
ASSUME TimeAssumption == Interval \in Nat \ {0} /\ MaxTime \in Nat /\ MaxTime > Interval
ASSUME BoundAssumption == MaxSize \in Nat \ {0} /\ MaxEdits \in Nat /\ MaxFaults \in Nat

VARIABLES
    clock,
    node,       \* path -> the file it names, 0 for none
    file,       \* file -> size and write time, of files without a name too
    edits, faults,
    server,     \* how far PrepareAsync is
    snapshot,   \* path -> the file and its size when the snapshot was taken
    stamp,      \* _stamp
    nextCheck,  \* _nextCheck
    busy,       \* _busy
    walk,       \* the walk of the tree in progress: what it has added up
    req,        \* the requests
    drift,      \* ghost: whether snapshot and stamp describe one moment
    lastEdit    \* the time of the last change of the disk

disk == <<node, file, edits, lastEdit>>
cache == <<snapshot, stamp, drift>>
vars == <<clock, disk, faults, server, cache, nextCheck, busy, walk, req>>

Paths == 1..PathCount
Files == 1..PathCount + MaxEdits
Times == 0..MaxTime
Sizes == 0..MaxSize
Nothing == [file |-> 0, size |-> 0]

Reading == {"defer", "walk", "compare", "reload", "release"}

Request == [at : {"idle", "claim", "serve", "write", "body", "short"} \cup Reading,
            now : Times,
            path : Paths,
            length : 0..MaxSize,        \* what the head of the response promises
            fd : {0} \cup Files,       \* the file the body is read from
            sent : 0..MaxSize,
            moved : BOOLEAN]            \* ghost: the file changed since its length was taken

TypeOK ==
    /\ clock \in Times /\ lastEdit \in Times
    /\ node \in [Paths -> {0} \cup Files]
    /\ file \in [Files -> [size : 0..MaxSize, written : Times]]
    /\ edits \in 0..MaxEdits /\ faults \in 0..MaxFaults
    /\ server \in {"snapshot", "stamp", "ready"}
    /\ snapshot \in [Paths -> [file : {0} \cup Files, size : 0..MaxSize]]
    /\ stamp \in [count : Nat, newest : Times, bytes : Nat]
    /\ nextCheck \in 0..MaxTime + Interval
    /\ busy \in BOOLEAN
    /\ walk \in [left : SUBSET Paths, count : Nat, newest : Times, bytes : Nat, torn : BOOLEAN]
    /\ req \in [Requests -> Request]
    /\ drift \in {"none", "ahead", "behind"}

----------------------------------------------------------------------------
(* The tree and its stamp. *)

Entry(p) == IF node[p] = 0 THEN Nothing ELSE [file |-> node[p], size |-> file[node[p]].size]
Tree == [p \in Paths |-> Entry(p)]

Later(a, b) == IF a > b THEN a ELSE b

\* What the walk has added up once it has looked at p.
Visited(p) ==
    IF node[p] = 0 THEN [walk EXCEPT !.left = @ \ {p}]
    ELSE [walk EXCEPT !.left = @ \ {p}, !.count = @ + 1,
                      !.newest = Later(@, file[node[p]].written), !.bytes = @ + file[node[p]].size]

Fresh == [left |-> Paths, count |-> 0, newest |-> 0, bytes |-> 0, torn |-> FALSE]
Stamped(w) == [count |-> w.count, newest |-> w.newest, bytes |-> w.bytes]

Named == {p \in Paths : node[p] # 0}
NewestOfTree == Max({0} \cup {file[node[p]].written : p \in Named})
BytesOfTree == MapThenSumSet(LAMBDA p : file[node[p]].size, Named)
StampOfTree == [count |-> Cardinality(Named), newest |-> NewestOfTree, bytes |-> BytesOfTree]

----------------------------------------------------------------------------
(* The disk.  Changes leave the last Interval of the bounded time free, so *)
(* that there is time to follow them.                                      *)

Walking == \E r \in Requests : req[r].at \in Reading

Editable == server # "snapshot" /\ edits < MaxEdits /\ clock + Interval <= MaxTime

Edited ==
    /\ edits' = edits + 1
    /\ lastEdit' = clock
    /\ walk' = [walk EXCEPT !.torn = Walking \/ server = "stamp"]
    /\ UNCHANGED <<clock, faults, server, snapshot, stamp, nextCheck, busy>>

\* The file changes under a request that has taken its length.
Moved(r) == [req[r] EXCEPT !.moved = @ \/ req[r].at \in {"write", "body"}]

OwnTick == lastEdit < clock

\* A new file is renamed over the old one, or put where there was none.
Replace(p) ==
    /\ Editable /\ OwnTick
    /\ \E n \in Sizes :
         LET f == PathCount + edits + 1 IN
         /\ node' = [node EXCEPT ![p] = f]
         /\ file' = [file EXCEPT ![f] = [size |-> n, written |-> clock]]
    /\ Edited
    /\ UNCHANGED <<req, drift>>

\* The file is rewritten; open descriptors see it.
Rewrite(p) ==
    /\ Editable /\ OwnTick /\ node[p] # 0
    /\ \E n \in Sizes : file' = [file EXCEPT ![node[p]] = [size |-> n, written |-> clock]]
    /\ req' = [r \in Requests |-> Moved(r)]
    /\ Edited
    /\ UNCHANGED <<node, drift>>

\* The one change that can take the tree back to what it was.
Remove(p) ==
    /\ Editable /\ node[p] # 0
    /\ node' = [node EXCEPT ![p] = 0]
    /\ drift' = IF drift = "ahead" THEN "behind" ELSE drift
    /\ Edited
    /\ UNCHANGED <<file, req>>

Tick ==
    /\ server # "snapshot" /\ clock < MaxTime
    /\ clock' = clock + 1
    /\ UNCHANGED <<disk, faults, server, cache, nextCheck, busy, walk, req>>

----------------------------------------------------------------------------
(* IoxideFilesHandler.PrepareAsync: the snapshot, then the stamp.          *)

PrepareSnapshot ==
    /\ server = "snapshot"
    /\ snapshot' = Tree
    /\ walk' = Fresh
    /\ server' = "stamp"
    /\ UNCHANGED <<clock, disk, faults, stamp, drift, nextCheck, busy, req>>

PrepareWalk(p) ==
    /\ server = "stamp" /\ p \in walk.left
    /\ walk' = Visited(p)
    /\ UNCHANGED <<clock, disk, faults, server, cache, nextCheck, busy, req>>

PrepareStamp ==
    /\ server = "stamp" /\ walk.left = {}
    /\ stamp' = Stamped(walk)
    /\ drift' = IF walk.torn THEN "behind" ELSE "none"
    /\ walk' = Fresh
    /\ server' = "ready"
    /\ UNCHANGED <<clock, disk, faults, snapshot, nextCheck, busy, req>>

----------------------------------------------------------------------------
(* AssetRefresh.Touch.                                                     *)

Becomes(r, q) == req' = [req EXCEPT ![r] = q]
GoesTo(r, at) == Becomes(r, [req[r] EXCEPT !.at = at])

Idle == [at |-> "idle", now |-> 0, path |-> 1, length |-> 0, fd |-> 0, sent |-> 0,
         moved |-> FALSE]

\* The time the request brings is compared with the deadline.  (A deadline
\* that moves in between only turns away more.)
Due == clock >= nextCheck

Arrive(r) ==
    /\ server = "ready" /\ req[r].at \in {"idle", "short"}
    /\ \E p \in Paths :
         Becomes(r, [Idle EXCEPT !.at = IF Due THEN "claim" ELSE "serve", !.now = clock, !.path = p])
    /\ UNCHANGED <<clock, disk, faults, server, cache, nextCheck, busy, walk>>

\* One reactor walks, the others go on with the snapshot there is.
Claim(r) ==
    /\ req[r].at = "claim"
    /\ busy' = TRUE
    /\ IF busy THEN GoesTo(r, "serve") ELSE GoesTo(r, "defer")
    /\ UNCHANGED <<clock, disk, faults, server, cache, nextCheck, walk>>

TwoIntervals(r) == req[r].now + 2 * Interval
Deadline(r) == req[r].now + Interval

Defer(r) ==
    /\ req[r].at = "defer"
    /\ nextCheck' = Deadline(r)
    /\ walk' = Fresh
    /\ GoesTo(r, "walk")
    /\ UNCHANGED <<clock, disk, faults, server, cache, busy>>

Walk(r, p) ==
    /\ req[r].at = "walk" /\ p \in walk.left
    /\ walk' = Visited(p)
    /\ IF walk'.left = {} THEN GoesTo(r, "compare") ELSE UNCHANGED req
    /\ UNCHANGED <<clock, disk, faults, server, cache, nextCheck, busy>>

Faulty == faults < MaxFaults /\ clock + Interval <= MaxTime

WalkFailsHeld(r) ==
    /\ req[r].at = "walk" /\ Faulty
    /\ faults' = faults + 1
    /\ GoesTo(r, "serve")
    /\ UNCHANGED <<clock, disk, server, cache, nextCheck, busy, walk>>

\* A file that vanishes between enumeration and stat, or one without access.
WalkFails(r) ==
    /\ req[r].at = "walk" /\ Faulty
    /\ faults' = faults + 1
    /\ GoesTo(r, "release")
    /\ UNCHANGED <<clock, disk, server, cache, nextCheck, busy, walk>>

ChangedInSize == Stamped(walk).count # stamp.count \/ Stamped(walk).bytes # stamp.bytes
Changed == Stamped(walk) # stamp

\* The stamp is recorded before the snapshot is rebuilt.
Compare(r) ==
    /\ req[r].at = "compare"
    /\ stamp' = Stamped(walk)
    /\ GoesTo(r, IF Changed THEN "reload" ELSE "release")
    /\ UNCHANGED <<clock, disk, faults, server, snapshot, drift, nextCheck, busy, walk>>

Reload(r) ==
    /\ req[r].at = "reload"
    /\ snapshot' = Tree
    /\ drift' = IF walk.torn THEN "ahead" ELSE "none"
    /\ req' = [q \in Requests |-> IF q = r THEN [req[q] EXCEPT !.at = "release"]
                                  ELSE Moved(q)]
    /\ UNCHANGED <<clock, disk, faults, server, stamp, nextCheck, busy, walk>>

\* The rebuild throws; the stamp stays.
ReloadFails(r) ==
    /\ req[r].at = "reload" /\ Faulty
    /\ faults' = faults + 1
    /\ drift' = "behind"
    /\ GoesTo(r, "release")
    /\ UNCHANGED <<clock, disk, server, snapshot, stamp, nextCheck, busy, walk>>

Release(r) ==
    /\ req[r].at = "release"
    /\ busy' = FALSE
    /\ walk' = Fresh
    /\ GoesTo(r, "serve")
    /\ UNCHANGED <<clock, disk, faults, server, cache, nextCheck>>

----------------------------------------------------------------------------
(* The response.  A request with a method other than GET and HEAD, or a    *)
(* HEAD, is over once its file is resolved; so is one for a missing file.  *)

Asset(r) == snapshot[req[r].path]

Resolve(r) ==
    /\ req[r].at = "serve"
    /\ \/ Becomes(r, Idle)
       \/ /\ r \in Gets /\ Asset(r) # Nothing
          /\ Becomes(r, [Idle EXCEPT !.at = "write", !.path = req[r].path, !.length = Asset(r).size,
                                  !.moved = file[Asset(r).file].size # Asset(r).size])
    /\ UNCHANGED <<clock, disk, faults, server, cache, nextCheck, busy, walk>>

\* The response is over; the client has what was promised, or less.
Ended(r) == IF req[r].sent = req[r].length THEN Idle
            ELSE [Idle EXCEPT !.at = "short", !.moved = req[r].moved]

\* A second lease; the file may be gone from the snapshot.
Write(r) ==
    /\ req[r].at = "write"
    /\ Becomes(r, IF Asset(r) = Nothing THEN Ended(r)
                  ELSE [req[r] EXCEPT !.at = "body", !.fd = Asset(r).file])
    /\ UNCHANGED <<clock, disk, faults, server, cache, nextCheck, busy, walk>>

MoreOfFile(r) == req[r].sent < file[req[r].fd].size
More(r) == req[r].sent < req[r].length /\ req[r].sent < file[req[r].fd].size

\* Read for read, up to the promised length or the end of the file.
WriteFromDisk(r) ==
    /\ req[r].at = "body"
    /\ Becomes(r, IF More(r) THEN [req[r] EXCEPT !.sent = @ + 1] ELSE Ended(r))
    /\ UNCHANGED <<clock, disk, faults, server, cache, nextCheck, busy, walk>>

----------------------------------------------------------------------------
Init ==
    /\ clock = 1
    /\ \E there \in SUBSET Paths : node = [p \in Paths |-> IF p \in there THEN p ELSE 0]
    /\ file = [f \in Files |-> [size |-> IF f \in Paths THEN MaxSize ELSE 0, written |-> 0]]
    /\ edits = 0 /\ faults = 0 /\ lastEdit = 0
    /\ server = "snapshot"
    /\ snapshot = [p \in Paths |-> Nothing]
    /\ stamp = [count |-> 0, newest |-> 0, bytes |-> 0]
    /\ nextCheck = 0
    /\ busy = FALSE
    /\ walk = Fresh
    /\ req = [r \in Requests |-> Idle]
    /\ drift = "none"

DiskChanges == \E p \in Paths : Replace(p) \/ Rewrite(p) \/ Remove(p)
Prepare == PrepareSnapshot \/ PrepareStamp \/ \E p \in Paths : PrepareWalk(p)

Touch(r) ==
    \/ Claim(r) \/ Defer(r) \/ Compare(r) \/ Reload(r) \/ Release(r)
    \/ \E p \in Paths : Walk(r, p)

Respond(r) == Resolve(r) \/ Write(r) \/ WriteFromDisk(r)

Next ==
    \/ DiskChanges \/ Tick \/ Prepare
    \/ \E r \in Requests : Arrive(r) \/ Touch(r) \/ Respond(r) \/ WalkFails(r) \/ ReloadFails(r)

Spec == Init /\ [][Next]_vars

\* Requests keep arriving (nothing else drives the walk), time goes on, and a
\* reactor goes on with what it has begun.  The disk owes nothing.
Fairness ==
    /\ WF_vars(Tick) /\ WF_vars(Prepare)
    /\ \A r \in Requests : WF_vars(Arrive(r)) /\ WF_vars(Touch(r)) /\ WF_vars(Respond(r))

FairSpec == Spec /\ Fairness

----------------------------------------------------------------------------
(* Properties. *)

UpToDate == snapshot = Tree

\* A snapshot that no further check would replace is the tree: with nobody
\* walking and the recorded stamp that of the tree, no request is answered
\* from files that are gone or changed.  Excused ("behind") are the three
\* ways the code has to tie a stamp to another tree than the snapshot: a
\* change while PrepareAsync is between snapshot and stamp, a rebuild that
\* throws after its stamp was recorded, and a change between stamp and
\* rebuild that is undone later.
NeverStuck ==
    server = "ready" /\ ~Walking /\ stamp = StampOfTree /\ drift # "behind" => UpToDate

\* The body is what the head promised, never more, and less only when the
\* file or the snapshot changed between the two leases or under the second:
\* a client on a kept connection takes what follows a short body for its rest.
BodyAsPromised ==
    \A r \in Requests :
        /\ req[r].sent <= req[r].length
        /\ req[r].at = "short" => req[r].moved

\* While requests arrive, a tree that is left alone is followed.
Follows == <>[](drift # "behind" => UpToDate)
=============================================================================
