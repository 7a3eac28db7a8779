------------------------- MODULE OrdinaryWorkProofs -------------------------
(***************************************************************************)
(* Proofs about one unit of an ordinary Program and the source cache it    *)
(* leases from, for every set of users, contents and commands.             *)
(***************************************************************************)
EXTENDS OrdinaryWork, TLAPS

-----------------------------------------------------------------------------
(* The source cache. *)

\* The steps of the users of the cache, and of their Git processes.
CacheNext ==
    \/ GitEnds
    \/ \E u \in Users : Acquire(u) \/ OpenToUse(u) \/ EndUse(u) \/ Kill(u)

\* A new cache.
LEMMA CacheStart == CacheInit => CacheInv
BY CacheAssumption DEF CacheInit, CacheInv, SourceConsistent, Owned, Written, Waiting, Holding

\* Opening, giving up and refusing move a user outside of the lock.
LEMMA OpeningKeepsCache ==
    ASSUME CacheInv, NEW u \in Users, OpenToAcquire(u) \/ OpenToUse(u) \/ GiveUp(u) \/ RefuseLease(u)
    PROVE  CacheInv'
<1>1. /\ step[u] \in Waiting /\ \E s \in Waiting : step' = [step EXCEPT ![u] = s]
      /\ UNCHANGED <<locked, stage, checkout, git, tokens>>
    BY DEF OpenToAcquire, OpenToUse, GiveUp, RefuseLease, Move, Waiting
<1>2. lockFile' = lockFile \/ (lockFile.is = "absent" /\ lockFile' = [lockFile EXCEPT !.is = "empty"])
    BY DEF OpenToAcquire, OpenToUse, GiveUp, RefuseLease
<1>3. \A v \in Users : step'[v] = step[v] \/ (step'[v] \in Waiting /\ v = u)
    BY <1>1 DEF CacheInv
<1>4. step' \in [Users -> Waiting \cup Holding]
    BY <1>1 DEF CacheInv
<1>5. \A t : lockFile = Written(t) => lockFile' = lockFile
    BY <1>2 DEF Written
<1>6. lockFile' = [is |-> lockFile'.is, names |-> lockFile'.names]
    BY <1>2 DEF CacheInv
<1> QED
    BY <1>1, <1>3, <1>4, <1>5, <1>6 DEF CacheInv, SourceConsistent, Owned, Written, Waiting, Holding

\* Who takes the lock found it free, so no Git runs and nobody is past it.
LEMMA LockKeepsCache ==
    ASSUME CacheInv, NEW u \in Users, Lock(u) PROVE CacheInv'
<1> USE DEF Holding, Waiting
<1>1. locked = Nothing /\ locked' = u /\ UNCHANGED <<stage, checkout, git>>
    BY DEF Lock
<1>2. git = Nothing /\ \A v \in Users : step[v] \notin Holding
    BY <1>1, CacheAssumption DEF CacheInv
<1>3. /\ step' = [step EXCEPT ![u] = "locked"] \/ (step' = [step EXCEPT ![u] = "using"] /\ Owned(checkout))
      /\ lockFile' = lockFile \/ (checkout = Nothing /\ lockFile' = Written(0))
    BY DEF Lock, Move
<1>4. step' \in [Users -> Waiting \cup Holding] /\ \A v \in Users \ {u} : step'[v] = step[v]
    BY <1>3 DEF CacheInv
<1>5. step'[u] \in {"locked", "using"} /\ (step'[u] = "using" => checkout # Nothing)
    BY <1>3 DEF CacheInv, Owned
<1>6. lockFile' = [is |-> lockFile'.is, names |-> lockFile'.names]
    BY <1>3 DEF CacheInv, Written
<1>7. SourceConsistent'
    <2>1. checkout' # Nothing => Owned(checkout)'
        BY <1>1, <1>3 DEF CacheInv, SourceConsistent, Owned, Written
    <2>2. \A v \in Users : step'[v] = "using" => checkout' # Nothing /\ checkout'.whole
        BY <1>1, <1>2, <1>4, <1>5 DEF CacheInv
    <2> QED
        BY <2>1, <2>2 DEF SourceConsistent
<1> QED
    BY <1>1, <1>2, <1>4, <1>5, <1>6, <1>7 DEF CacheInv

\* Only the holder of the lock is past it, and a Git that runs is the holder's.
LEMMA HolderAlone ==
    ASSUME CacheInv, NEW u \in Users, step[u] \in Holding
    PROVE  /\ locked = u /\ \A v \in Users \ {u} : step[v] \notin Holding
           /\ step[u] # "git" => git = Nothing
BY CacheAssumption DEF CacheInv, Holding, Waiting

\* Git starts, on the checkout or beside it.
LEMMA GitKeepsCache ==
    ASSUME CacheInv, NEW u \in Users, Fetch(u) \/ Clone(u) PROVE CacheInv'
<1> USE DEF Holding, Waiting
<1>1. /\ step[u] = "locked" /\ step' = [step EXCEPT ![u] = "git"] /\ UNCHANGED <<lockFile, locked, stage>>
      /\ git' \in {[by |-> u, does |-> "fetch"], [by |-> u, does |-> "clone"]}
    BY DEF Fetch, Clone, Move
<1>2. locked = u /\ \A v \in Users \ {u} : step[v] \notin Holding
    BY <1>1, HolderAlone
<1>3. step' \in [Users -> Waiting \cup Holding] /\ step'[u] = "git" /\ \A v \in Users \ {u} : step'[v] = step[v]
    BY <1>1 DEF CacheInv
<1>4. git' # Nothing /\ git'.by = u
    BY <1>1, CacheAssumption
<1>5. CASE Clone(u)
    <2>1. checkout = Nothing /\ checkout' = checkout /\ git'.does = "clone"
        BY <1>5 DEF Clone
    <2> QED
        BY <1>1, <1>2, <1>3, <1>4, <2>1 DEF CacheInv, SourceConsistent
<1>6. CASE Fetch(u)
    <2>1. Owned(checkout) /\ checkout' = [checkout EXCEPT !.whole = FALSE] /\ git'.does = "fetch"
        BY <1>6 DEF Fetch
    <2>2. checkout' = [token |-> checkout'.token, whole |-> checkout'.whole] /\ checkout'.token = checkout.token
        BY <2>1 DEF CacheInv, Owned
    <2>3. lockFile' = Written(checkout'.token)
        BY <1>1, <2>1, <2>2 DEF Owned, Written
    <2>4. SourceConsistent'
        BY <1>1, <1>2, <1>3, <2>3 DEF SourceConsistent, Owned, Written
    <2> QED
        BY <1>1, <1>2, <1>3, <1>4, <2>1, <2>2, <2>3, <2>4 DEF CacheInv, Written
<1> QED
    BY <1>5, <1>6

\* The holder goes on or gives the lock back.
LEMMA HolderKeepsCache ==
    ASSUME CacheInv, NEW u \in Users,
           RefuseCheckout(u) \/ EndUse(u) \/ Mark(u) \/ RecordAcquisition(u) \/ Publish(u)
    PROVE  CacheInv'
<1> USE DEF Holding, Waiting
<1>1. step[u] \in Holding /\ step[u] # "git" /\ UNCHANGED git
    BY DEF RefuseCheckout, EndUse, Mark, RecordAcquisition, Publish
<1>2. locked = u /\ git = Nothing /\ \A v \in Users \ {u} : step[v] \notin Holding
    BY <1>1, HolderAlone
<1>3. CASE RefuseCheckout(u) \/ EndUse(u)
    <2>1. step' = [step EXCEPT ![u] = "out"] /\ UNCHANGED <<lockFile, stage, checkout>>
        BY <1>3 DEF RefuseCheckout, EndUse, Release, Move
    <2>2. step' \in [Users -> Waiting \cup Holding] /\ step'[u] = "out" /\ \A v \in Users \ {u} : step'[v] = step[v]
        BY <2>1 DEF CacheInv
    <2> QED
        BY <1>1, <1>2, <2>1, <2>2 DEF CacheInv, SourceConsistent, Owned, Written
<1>4. CASE Mark(u)
    <2>1. /\ step[u] = "cloned" /\ step' = [step EXCEPT ![u] = "marked"] /\ UNCHANGED <<lockFile, locked, checkout>>
          /\ DOMAIN stage' = DOMAIN stage
        BY <1>4 DEF Mark, Move
    <2>2. step' \in [Users -> Waiting \cup Holding] /\ step'[u] = "marked" /\ \A v \in Users \ {u} : step'[v] = step[v]
        BY <2>1 DEF CacheInv
    <2> QED
        BY <1>1, <1>2, <2>1, <2>2 DEF CacheInv, SourceConsistent, Owned, Written
<1>5. CASE RecordAcquisition(u)
    <2>1. /\ step[u] = "marked" /\ step' = [step EXCEPT ![u] = "recorded"] /\ UNCHANGED <<locked, checkout, stage>>
          /\ lockFile' = Written(stage[u])
        BY <1>5 DEF RecordAcquisition, Move
    <2>2. step' \in [Users -> Waiting \cup Holding] /\ step'[u] = "recorded" /\ \A v \in Users \ {u} : step'[v] = step[v]
        BY <2>1 DEF CacheInv
    <2>3. checkout' = Nothing
        BY <2>1 DEF CacheInv
    <2> QED
        BY <1>1, <1>2, <2>1, <2>2, <2>3 DEF CacheInv, SourceConsistent, Written
<1>6. CASE Publish(u)
    <2>1. /\ step[u] = "recorded" /\ step' = [step EXCEPT ![u] = "out"] /\ UNCHANGED lockFile
          /\ checkout' = [token |-> stage[u], whole |-> TRUE] /\ DOMAIN stage' = DOMAIN stage
        BY <1>6 DEF Publish, Release, Move
    <2>2. step' \in [Users -> Waiting \cup Holding] /\ step'[u] = "out" /\ \A v \in Users \ {u} : step'[v] = step[v]
        BY <2>1 DEF CacheInv
    <2>3. lockFile' = Written(checkout'.token) /\ lockFile' = [is |-> lockFile'.is, names |-> lockFile'.names]
        BY <2>1 DEF CacheInv
    <2>4. SourceConsistent'
        BY <1>2, <2>1, <2>2, <2>3 DEF SourceConsistent, Owned, Written
    <2> QED
        BY <1>1, <1>2, <2>1, <2>2, <2>3, <2>4 DEF CacheInv, Written
<1> QED
    BY <1>3, <1>4, <1>5, <1>6

\* Git ends, with or without the user that started it.
LEMMA GitEndKeepsCache ==
    ASSUME CacheInv, GitEnds PROVE CacheInv'
<1> USE DEF Holding, Waiting
<1> DEFINE u == git.by
<1>1. git # Nothing /\ git' = Nothing /\ UNCHANGED <<lockFile, stage>>
    BY DEF GitEnds
<1>2. u \in Users /\ locked = u /\ step[u] \in Waiting \cup {"git"} /\ git.does \in {"fetch", "clone"}
    BY <1>1 DEF CacheInv
<1>3. \A v \in Users \ {u} : step[v] \notin Holding
    BY <1>2 DEF CacheInv
<1>4. \/ step' = step /\ step[u] # "git"
      \/ step' = [step EXCEPT ![u] = "out"]
      \/ step' = [step EXCEPT ![u] = "cloned"] /\ git.does = "clone" /\ locked' = locked
    BY DEF GitEnds, Release, Move
<1>5. /\ step' \in [Users -> Waiting \cup Holding] /\ \A v \in Users \ {u} : step'[v] = step[v]
      /\ step'[u] \in Waiting \/ (step'[u] = "cloned" /\ git.does = "clone" /\ locked' = u)
    BY <1>2, <1>4 DEF CacheInv
<1>6. CASE git.does = "clone"
    <2>1. checkout = Nothing /\ checkout' = Nothing
        BY <1>1, <1>6 DEF GitEnds, CacheInv
    <2> HIDE DEF u
    <2> QED
        BY <1>1, <1>2, <1>3, <1>5, <2>1 DEF CacheInv, SourceConsistent
<1>7. CASE git.does = "fetch"
    <2>1. checkout' = [checkout EXCEPT !.whole = TRUE]
        BY <1>7 DEF GitEnds
    <2>2. /\ checkout' = [token |-> checkout.token, whole |-> TRUE] /\ lockFile' = Written(checkout.token)
          /\ lockFile' = [is |-> lockFile'.is, names |-> lockFile'.names]
        BY <1>1, <1>7, <2>1 DEF CacheInv
    <2> HIDE DEF u
    <2>3. \A v \in Users : step'[v] \in Waiting
        BY <1>2, <1>3, <1>5, <1>7 DEF CacheInv
    <2>4. SourceConsistent'
        BY <2>2, <2>3 DEF SourceConsistent, Owned, Written
    <2> QED
        BY <1>1, <1>5, <2>2, <2>3, <2>4 DEF CacheInv
<1> QED
    BY <1>2, <1>6, <1>7

\* A killed user leaves the lock to its Git, or free; a torn record has no checkout yet.
LEMMA KillKeepsCache ==
    ASSUME CacheInv, NEW u \in Users, Kill(u) PROVE CacheInv'
<1> USE DEF Holding, Waiting
<1>1. step' = [step EXCEPT ![u] = "out"] /\ UNCHANGED <<checkout, git>> /\ DOMAIN stage' = DOMAIN stage
    BY DEF Kill, Move
<1>2. step' \in [Users -> Waiting \cup Holding] /\ step'[u] = "out" /\ \A v \in Users \ {u} : step'[v] = step[v]
    BY <1>1 DEF CacheInv
<1>3. lockFile' = lockFile \/ (step[u] = "marked" /\ lockFile' = [lockFile EXCEPT !.is = "torn"])
    BY DEF Kill
<1>4. lockFile' = [is |-> lockFile'.is, names |-> lockFile'.names]
    BY <1>3 DEF CacheInv
<1>5. \A v \in Users \ {u} : stage'[v] = stage[v]
    BY DEF Kill, CacheInv
<1>6. CASE step[u] \in Holding /\ step[u] # "git"
    <2>1. git = Nothing /\ \A v \in Users \ {u} : step[v] \notin Holding
        BY <1>6, HolderAlone
    <2>2. checkout # Nothing => lockFile' = lockFile
        BY <1>3 DEF CacheInv
    <2> QED
        BY <1>1, <1>2, <1>4, <2>1, <2>2 DEF CacheInv, SourceConsistent, Owned, Written
<1>7. CASE step[u] \in Waiting \cup {"git"}
    <2>1. locked' = locked /\ lockFile' = lockFile
        BY <1>3, <1>7 DEF Kill
    <2>2. git # Nothing => git.by \in Users /\ step'[git.by] \in Waiting \cup {"git"}
        BY <1>2 DEF CacheInv
    <2>3. SourceConsistent'
        BY <1>1, <1>2, <2>1 DEF CacheInv, SourceConsistent, Owned, Written
    <2> QED
        BY <1>1, <1>2, <1>5, <2>1, <2>2, <2>3 DEF CacheInv, Written
<1> QED
    BY <1>6, <1>7 DEF CacheInv

\* Every step of the cache keeps its invariant.
LEMMA CacheKept ==
    ASSUME CacheInv, CacheNext \/ UNCHANGED cacheVars PROVE CacheInv'
<1>1. CASE UNCHANGED cacheVars
    BY <1>1 DEF cacheVars, CacheInv, SourceConsistent, Owned, Written
<1>2. CASE CacheNext
    BY <1>2, OpeningKeepsCache, LockKeepsCache, GitKeepsCache, HolderKeepsCache, GitEndKeepsCache, KillKeepsCache
        DEF CacheNext, Acquire
<1> QED
    BY <1>1, <1>2

-----------------------------------------------------------------------------
(* The steps that have alternatives, by what they change. *)

\* There is a first command.
LEMMA FirstRun == 1 \in Runs
BY OrdinaryAssumption DEF Runs

\* A workspace has a content, and no content is the absence of one.
LEMMA ContentIsSome == ASSUME WorldOK PROVE world.ws \in Contents /\ world.ws # None
BY OrdinaryAssumption DEF WorldOK

\* What is written is a later content.
LEMMA WroteIsLater ==
    ASSUME WorldOK, NEW b \in Bytes PROVE Wrote(b) \in Contents /\ Wrote(b).at > world.ws.at /\ Wrote(b).bytes = b
BY DEF WorldOK, Contents, Wrote

\* Of two contents each up to the other there is one, and what is up to a content is up to
\* each later one.
LEMMA UptoBoth == ASSUME NEW c \in Contents, NEW d \in Contents, Upto(c, d), Upto(d, c) PROVE c = d
BY DEF Upto, Contents

LEMMA UptoLater ==
    ASSUME NEW c \in Contents, NEW d \in Contents, NEW e \in Contents, Upto(c, d), d = e \/ e.at > d.at
    PROVE  Upto(c, e)
BY DEF Upto, Contents

LEMMA NoneIsNoContent == None \notin Contents
BY OrdinaryAssumption

\* report() leaves the content of the workspace submitted.
Reported ==
    /\ At("idle") /\ (db.submitted = None \/ db.submitted = world.ws) /\ db.accepted = None /\ world.ws # None
    /\ DOMAIN db' = DOMAIN db /\ db'.submitted = world.ws
    /\ \A f \in DOMAIN db \ {"submitted"} : db'[f] = db[f]
    /\ ctl'.pc = "collect" /\ ctl'.ret = "finish" /\ ctl'.i = 1 /\ ctl'.act = "pr" /\ DOMAIN ctl' = DOMAIN Quiet
    /\ UNCHANGED <<host, world>>

LEMMA ReportMoves == ASSUME DbOK, WorldOK, Report PROVE Reported
<1>1. world.ws # None
    BY ContentIsSome
<1>2. /\ db.submitted = None \/ db.submitted = world.ws
      /\ DOMAIN db' = DOMAIN db /\ db'.submitted = world.ws /\ \A f \in DOMAIN db \ {"submitted"} : db'[f] = db[f]
    <2>1. CASE Submit
        BY <2>1 DEF Submit, DbOK
    <2>2. CASE db.submitted = world.ws /\ UNCHANGED db
        BY <2>2
    <2> QED
        BY <2>1, <2>2 DEF Report
<1> QED
    BY <1>1, <1>2 DEF Report, Reported, Quiet

\* The review goes on from its record, whatever that is.
ReviewBegun ==
    /\ At("review") /\ (Go("outcome") \/ Go("prompt")) /\ UNCHANGED <<host, world>>
    /\ DOMAIN db' = DOMAIN db /\ \A f \in DOMAIN db \ {"review", "reviewed"} : db'[f] = db[f]

LEMMA ReviewMoves == ASSUME Review PROVE ReviewBegun
<1>1. db' = [db EXCEPT !.review = "intent"] \/ db' = [db EXCEPT !.review = "accepted", !.reviewed = TRUE]
    BY Zenon DEF Review
<1>2. DOMAIN db' = DOMAIN db /\ \A f \in DOMAIN db \ {"review", "reviewed"} : db'[f] = db[f]
    <2>1. CASE db' = [db EXCEPT !.review = "intent"]
        BY <2>1
    <2>2. CASE db' = [db EXCEPT !.review = "accepted", !.reviewed = TRUE]
        BY <2>2
    <2> QED
        BY <1>1, <2>1, <2>2
<1> QED
    BY <1>2, Zenon DEF Review, ReviewBegun

\* A command ends with a verdict, or nothing is known of its group.
CommandEnded ==
    /\ At("running") /\ UNCHANGED <<host, world>>
    /\ \/ /\ db' = [db EXCEPT !.run[ctl.i] = "ended"]
          /\ ctl'.pc = "result" /\ ctl'.i = ctl.i /\ ctl'.act = ctl.act /\ ctl'.ret \in {"ok", "bad"}
          /\ DOMAIN ctl' = DOMAIN ctl
       \/ db' = db /\ ctl' = Quiet

LEMMA RunEndsMoves == ASSUME CtlOK, RunEnds PROVE CommandEnded
BY DEF RunEnds, CommandEnded, CtlOK, Return

\* An effect is sent once, or not at all.
EffectSent ==
    /\ At("send") /\ Accepted /\ ~db.revoked /\ UNCHANGED <<db, host>>
    /\ ctl' = [ctl EXCEPT !.pc = "readback"] \/ ctl' = Quiet
    /\ DOMAIN world' = DOMAIN world /\ \A f \in DOMAIN world \ {ctl.act} : world'[f] = world[f]
    /\ world'[ctl.act] = world[ctl.act] \/ world'[ctl.act] = Append(world[ctl.act], db.kept)

LEMMA SendMoves == ASSUME CtlOK, WorldOK, Send PROVE EffectSent
<1>1. world' = world \/ world' = [world EXCEPT ![ctl.act] = Append(@, db.kept)]
    BY DEF Send
<1>2. ctl.act \in DOMAIN world
    BY DEF CtlOK, WorldOK, Effects
<1>3. /\ DOMAIN world' = DOMAIN world
      /\ \A f \in DOMAIN world \ {ctl.act} : world'[f] = world[f]
      /\ world'[ctl.act] = world[ctl.act] \/ world'[ctl.act] = Append(world[ctl.act], db.kept)
    BY <1>1, <1>2
<1>4. ctl' = [ctl EXCEPT !.pc = "readback"] \/ ctl' = Quiet
    BY DEF Send, Go, Return
<1> QED
    BY <1>3, <1>4 DEF Send, ClaimKept, EffectSent

\* A call goes on, starts its turn or ends, and closes its connection or not.  Only a wait
\* that exceeds its time limit makes it forget a group that is alive.
ConnectionMoved ==
    /\ UNCHANGED db /\ DOMAIN host' = {"conn", "handle"} /\ DOMAIN world' = DOMAIN world
    /\ \A f \in DOMAIN world \ {"turn", "turns", "group"} : world'[f] = world[f]
    /\ \/ world'.turns = world.turns /\ (ctl' = Quiet \/ ctl' = ctl \/ (At("close") /\ ctl' = [ctl EXCEPT !.pc = "witness"]))
       \/ /\ At("turn") /\ ~db.revoked /\ world'.turns = world.turns + 1
          /\ ctl' = Quiet \/ ctl' = [ctl EXCEPT !.pc = "accepted"]
    /\ world'.group \in {world.group, "dead"}
    /\ host.conn # "hung" /\ ~KillMayHang =>
         /\ host'.conn # "hung"
         /\ host'.conn = "settled" => world'.group = "dead" \/ host.conn = "settled"

LEMMA ClosingsAre ==
    ASSUME NEW c \in {StillOpen} \cup Closings
    PROVE  /\ c.group \in {world.group, "dead"}
           /\ host.conn # "hung" /\ ~KillMayHang =>
                c.conn # "hung" /\ (c.conn = "settled" => c.group = "dead" \/ host.conn = "settled")
<1>1. CASE c = StillOpen
    BY <1>1 DEF StillOpen
<1>2. CASE c \in Closings /\ host.conn = "open"
    BY <1>2 DEF Closings
<1>3. CASE c \in Closings /\ host.conn = "hung"
    BY <1>3 DEF Closings
<1>4. CASE c \in Closings /\ host.conn \notin {"open", "hung"}
    BY <1>4 DEF Closings
<1> QED
    BY <1>1, <1>2, <1>3, <1>4

LEMMA ConnectionMoves ==
    ASSUME CtlOK, WorldOK, DOMAIN host = {"conn", "handle"}, StartTurn \/ LoseConnection \/ Retire
    PROVE  ConnectionMoved
<1>1. CASE StartTurn
    <2>1. PICK c \in {StillOpen} \cup Closings :
            /\ world' = [world EXCEPT !.turn = "running", !.turns = @ + 1, !.group = c.group]
            /\ \/ c = StillOpen /\ host' = [host EXCEPT !.handle = "known"] /\ Go("accepted")
               \/ host' = [host EXCEPT !.conn = c.conn] /\ Return
        BY <1>1, Zenon DEF StartTurn
    <2>2. At("turn") /\ ~db.revoked /\ UNCHANGED db
        BY <1>1 DEF StartTurn, Check
    <2>3. DOMAIN host' = {"conn", "handle"} /\ host'.conn = c.conn
        BY <2>1 DEF StillOpen
    <2>4. /\ DOMAIN world' = DOMAIN world /\ world'.turns = world.turns + 1 /\ world'.group = c.group
          /\ \A f \in DOMAIN world \ {"turn", "turns", "group"} : world'[f] = world[f]
        BY <2>1 DEF WorldOK
    <2>5. ctl' = Quiet \/ ctl' = [ctl EXCEPT !.pc = "accepted"]
        BY <2>1 DEF Go, Return
    <2> QED
        BY <2>2, <2>3, <2>4, <2>5, ClosingsAre DEF ConnectionMoved
<1>2. CASE LoseConnection
    <2>1. PICK c \in Closings : /\ world' = [world EXCEPT !.group = c.group] /\ host' = [host EXCEPT !.conn = c.conn]
                                /\ ctl' = Quiet \/ ctl' = ctl
        BY <1>2 DEF LoseConnection, Return
    <2>2. UNCHANGED db /\ DOMAIN host' = {"conn", "handle"} /\ host'.conn = c.conn
        BY <1>2, <2>1 DEF LoseConnection
    <2>3. /\ DOMAIN world' = DOMAIN world /\ world'.turns = world.turns /\ world'.group = c.group
          /\ \A f \in DOMAIN world \ {"turn", "turns", "group"} : world'[f] = world[f]
        BY <2>1 DEF WorldOK
    <2> QED
        BY <2>1, <2>2, <2>3, ClosingsAre DEF ConnectionMoved
<1>3. CASE Retire
    <2>1. PICK c \in Closings : /\ world' = [world EXCEPT !.group = c.group]
                                /\ host' = [conn |-> c.conn, handle |-> Cancelled]
                                /\ ctl' = Quiet \/ ctl' = [ctl EXCEPT !.pc = "witness"]
        BY <1>3 DEF Retire, Return, Go
    <2>2. UNCHANGED db /\ At("close") /\ DOMAIN host' = {"conn", "handle"} /\ host'.conn = c.conn
        BY <1>3, <2>1 DEF Retire
    <2>3. /\ DOMAIN world' = DOMAIN world /\ world'.turns = world.turns /\ world'.group = c.group
          /\ \A f \in DOMAIN world \ {"turn", "turns", "group"} : world'[f] = world[f]
        BY <2>1 DEF WorldOK
    <2> QED
        BY <2>1, <2>2, <2>3, ClosingsAre DEF ConnectionMoved
<1> QED
    BY <1>1, <1>2, <1>3

\* The world does not start or send anything, and an edit makes a later content.
WorldMoved ==
    /\ UNCHANGED <<db, ctl, host>> /\ DOMAIN world' = DOMAIN world
    /\ world'.turns = world.turns /\ world'.ran = world.ran /\ world'.asked = world.asked
    /\ world'.pr = world.pr /\ world'.comment = world.comment /\ world'.group = world.group
    /\ world'.chat = world.chat \/ (world.chat # "none" /\ world'.chat # "none")
    /\ world'.ws = world.ws \/ (world'.ws \in Contents /\ world'.ws.at > world.ws.at)

LEMMA EditMoves == ASSUME WorldOK, NEW b \in Drafts, Edit(b) PROVE WorldMoved
<1>1. Wrote(b) \in Contents /\ Wrote(b).at > world.ws.at
    BY WroteIsLater DEF Bytes
<1>2. /\ UNCHANGED <<db, ctl, host>> /\ DOMAIN world' = DOMAIN world
      /\ world'.turns = world.turns /\ world'.ran = world.ran /\ world'.asked = world.asked
      /\ world'.pr = world.pr /\ world'.comment = world.comment /\ world'.group = world.group
      /\ world'.chat = world.chat /\ world'.ws = Wrote(b)
    BY DEF Edit, WorldOK
<1> QED
    BY <1>1, <1>2, Zenon DEF WorldMoved

LEMMA WorldMoves ==
    ASSUME WorldOK, NativeChanges \/ TimePasses \/ TurnEnds \/ ReviewerWrites PROVE WorldMoved
<1>1. CASE NativeChanges \/ TimePasses \/ TurnEnds
    BY <1>1 DEF NativeChanges, TimePasses, TurnEnds, WorldMoved, WorldOK
<1>2. CASE ReviewerWrites
    <2>1. PICK v \in Verdicts \cup {"other"} : world' = [world EXCEPT !.chat = v]
        BY <1>2, Zenon DEF ReviewerWrites
    <2> QED
        BY <1>2, <2>1 DEF ReviewerWrites, WorldMoved, WorldOK, Verdicts
<1> QED
    BY <1>1, <1>2

\* What is sent first is all that was sent.
LEMMA AppendToEmpty == \A x : Append(<< >>, x) = <<x>>
    OBVIOUS

LEMMA SingleIsSome == \A x : <<x>> # << >>
    OBVIOUS

\* A result that is absent is neither good nor bad.
LEMMA NoneIsNoPass == None # "pass"
BY OrdinaryAssumption

\* No verdict is the absence of one.
LEMMA NoneIsNoVerdict == None \notin {"ok", "bad", "approve", "changes"}
BY OrdinaryAssumption

-----------------------------------------------------------------------------
(* A step, by the phase of the unit, and by what it changes where it has     *)
(* alternatives.                                                             *)

OwnerStep == Approve \/ Activate \/ Stop
RequestStep == Request \/ SaveRevision \/ Claim \/ Prepared \/ MakeObjects
PrepareStep == AskForSource \/ CopyObjects \/ Materialize \/ StorePrepared \/ AdmitPrepared
StartStep == StartPull \/ StartManaged \/ BeginAttempt \/ DispatchTurn \/ ObserveTurn \/ StoreReceipt
EndStep == Finish \/ Witness \/ StopManaged \/ Quiesce \/ Reconcile
CollectStep == CollectRetained \/ Collect \/ StorePatch \/ StoreCandidate
CheckStep == FinishAttempt \/ ReservePure \/ RunPure \/ Commands \/ ReserveRun \/ DispatchRun
CommandStep == BindOwner \/ Run \/ StoreResult \/ SettleRun \/ StoreEvidence
AskStep == DispatchReview \/ OpenSession \/ Ask \/ Reply
AnswerStep == ReviewUnknown \/ Lookup \/ ObserveReview \/ Outcome
DecideStep == Reject \/ Current \/ Accept
AuthorizeStep == Publication \/ Topic \/ AuthorizePublication \/ DispatchPublication
SendStep == SendOrRead \/ Readback \/ ObservePublication \/ SettlePublication
FailStep == Abandon \/ Crash
Still == UNCHANGED <<db, ctl, host, world>>

Moves ==
    \/ OwnerStep \/ RequestStep \/ PrepareStep \/ StartStep \/ EndStep \/ CollectStep \/ CheckStep \/ CommandStep
    \/ AskStep \/ AnswerStep \/ DecideStep \/ AuthorizeStep \/ SendStep \/ FailStep
    \/ ConnectionMoved \/ Reported \/ ReviewBegun \/ CommandEnded \/ EffectSent \/ WorldMoved \/ Still

LEMMA StepMoves ==
    ASSUME OrdinaryTypeOK, [Next]_vars PROVE Moves
<1>1. DbOK /\ CtlOK /\ WorldOK /\ DOMAIN host = {"conn", "handle"}
    BY DEF OrdinaryTypeOK
<1>a. StartTurn \/ LoseConnection \/ Retire => ConnectionMoved
    BY <1>1, ConnectionMoves
<1>2. Report => Reported
    BY <1>1, ReportMoves
<1>3. Review => ReviewBegun
    BY ReviewMoves
<1>4. RunEnds => CommandEnded
    BY <1>1, RunEndsMoves
<1>5. Send => EffectSent
    BY <1>1, SendMoves
<1>6. NativeChanges \/ TimePasses \/ TurnEnds \/ ReviewerWrites => WorldMoved
    BY <1>1, WorldMoves
<1>7. (\E c \in Drafts : Edit(c)) => WorldMoved
    BY <1>1, EditMoves
<1>8. CacheStep \/ UNCHANGED vars => Still
    BY DEF CacheStep, vars, Still
<1>9. ASSUME Next PROVE Moves
    BY <1>9, <1>a, <1>2, <1>3, <1>4, <1>5, <1>6, <1>7, <1>8, Zenon
        DEF Next, Handle, Environment, Moves, OwnerStep, RequestStep, PrepareStep, StartStep, EndStep, CollectStep,
            CheckStep, CommandStep, AskStep, AnswerStep, DecideStep, AuthorizeStep, SendStep, FailStep
<1> QED
    BY <1>8, <1>9, Zenon DEF Moves

\* What a step does to the cache is a step of the cache.
LEMMA CacheOfStep ==
    ASSUME [Next]_vars PROVE CacheNext \/ UNCHANGED cacheVars
<1>1. ASSUME OwnerStep \/ RequestStep PROVE UNCHANGED cacheVars
    BY <1>1 DEF OwnerStep, RequestStep, Approve, Activate, Stop, Request, SaveRevision, Claim, Prepared, MakeObjects, Keep
<1>2. ASSUME PrepareStep PROVE (\E u \in Users : OpenToUse(u) \/ EndUse(u)) \/ UNCHANGED cacheVars
    BY <1>2, OrdinaryAssumption, Zenon
        DEF PrepareStep, AskForSource, CopyObjects, Materialize, StorePrepared, AdmitPrepared, Keep
<1>3. ASSUME StartStep PROVE UNCHANGED cacheVars
    BY <1>3, Zenon DEF StartStep, StartPull, StartManaged, BeginAttempt, DispatchTurn, ObserveTurn,
        StoreReceipt, Keep
<1>4. ASSUME EndStep PROVE UNCHANGED cacheVars
    BY <1>4, Zenon DEF EndStep, Finish, Witness, StopManaged, Quiesce, Reconcile, Keep
<1>5. ASSUME Report \/ CollectStep \/ CheckStep PROVE UNCHANGED cacheVars
    BY <1>5, Zenon DEF CollectStep, CheckStep, Report, CollectRetained, Collect, StorePatch, StoreCandidate,
        FinishAttempt, ReservePure, RunPure, Commands, ReserveRun, DispatchRun, Keep
<1>6. ASSUME CommandStep \/ RunEnds \/ Review \/ AskStep PROVE UNCHANGED cacheVars
    BY <1>6, Zenon DEF CommandStep, BindOwner, Run, RunEnds, StoreResult, SettleRun, StoreEvidence,
        AskStep, Review, DispatchReview, OpenSession, Ask, Reply, Keep
<1>7. ASSUME AnswerStep \/ DecideStep PROVE UNCHANGED cacheVars
    BY <1>7, Zenon DEF AnswerStep, ReviewUnknown, Lookup, ObserveReview, Outcome, DecideStep, Reject, Current, Accept, Keep
<1>8. ASSUME AuthorizeStep \/ SendStep \/ Send PROVE UNCHANGED cacheVars
    BY <1>8, Zenon DEF AuthorizeStep, Publication, Topic, AuthorizePublication, DispatchPublication,
        SendStep, SendOrRead, Send, Readback, ObservePublication, SettlePublication, Keep
<1>9. ASSUME FailStep PROVE (\E u \in Users : Kill(u)) \/ UNCHANGED cacheVars
    BY <1>9, OrdinaryAssumption, Zenon DEF FailStep, Abandon, Crash, Keep
<1>10. ASSUME NativeChanges \/ TimePasses \/ TurnEnds \/ ReviewerWrites \/ \E c \in Drafts : Edit(c)
       PROVE  UNCHANGED cacheVars
    BY <1>10, Zenon DEF NativeChanges, TimePasses, TurnEnds, ReviewerWrites, Edit, Keep
<1>11. ASSUME CacheStep PROVE GitEnds \/ \E u \in Users : Acquire(u) \/ OpenToUse(u) \/ EndUse(u) \/ Kill(u)
    BY <1>11, OrdinaryAssumption, Zenon DEF CacheStep
<1>a. ASSUME StartTurn \/ LoseConnection \/ Retire PROVE UNCHANGED cacheVars
    BY <1>a, Zenon DEF StartTurn, LoseConnection, Retire, Keep
<1>12. ASSUME UNCHANGED vars PROVE UNCHANGED cacheVars
    BY <1>12 DEF vars
<1>13. ASSUME Next PROVE CacheNext \/ UNCHANGED cacheVars
    <2>1. \/ OwnerStep \/ RequestStep \/ PrepareStep \/ StartStep \/ EndStep \/ Report \/ CollectStep \/ CheckStep
          \/ CommandStep \/ RunEnds \/ Review \/ AskStep \/ AnswerStep \/ DecideStep \/ AuthorizeStep \/ SendStep \/ Send
          \/ FailStep \/ NativeChanges \/ TimePasses \/ TurnEnds \/ ReviewerWrites \/ CacheStep
          \/ StartTurn \/ LoseConnection \/ Retire \/ \E c \in Drafts : Edit(c)
        BY <1>13, Zenon DEF Next, Handle, Environment, OwnerStep, RequestStep, PrepareStep, StartStep, EndStep,
            CollectStep, CheckStep, CommandStep, AskStep, AnswerStep, DecideStep, AuthorizeStep, SendStep, FailStep
    <2> QED
        BY <2>1, <1>a, <1>1, <1>2, <1>3, <1>4, <1>5, <1>6, <1>7, <1>8, <1>9, <1>10, <1>11, Zenon DEF CacheNext
<1> QED
    BY <1>12, <1>13, Zenon

\* The cache is consistent for whoever leases from it, under every step of the unit and of
\* the other users.  (source_cache.py: _lock(), acquire_source() and source_use().)
THEOREM SourcesAreConsistent == Spec => []SourceConsistent
<1>1. Init => CacheInv
    BY CacheStart DEF Init
<1>2. CacheInv /\ [Next]_vars => CacheInv'
    BY CacheOfStep, CacheKept
<1>3. CacheInv => SourceConsistent
    BY DEF CacheInv
<1> QED
    BY <1>1, <1>2, <1>3, PTL DEF Spec

-----------------------------------------------------------------------------
(* The invariant, part by part. *)

\* The sole prompt carries the collected bytes.
LEMMA AskKept ==
    ASSUME DbOK, CtlOK, WorldOK, CollectedOnce, AskedOnce, Ask PROVE AskedOnce'
<1>1. /\ world.asked = << >> /\ world'.asked = Append(world.asked, db.kept) /\ UNCHANGED db
      /\ ctl'.pc = "reply" /\ db.session
    BY DEF Ask, AskedOnce, At, Go, CtlOK, WorldOK
<1>2. db.kept # None
    BY DEF Ask, CollectedOnce, At, Reporting, Reviewing
<1>3. world'.asked = <<db.kept>> /\ world'.asked # << >>
    BY <1>1, AppendToEmpty, SingleIsSome
<1> QED
    BY <1>1, <1>2, <1>3 DEF AskedOnce, At

\* A command is run on the submitted bytes, and was not run before.
LEMMA RunKept ==
    ASSUME DbOK, CtlOK, WorldOK, CollectedOnce, RunsOnce, Run PROVE RunsOnce'
<1>1. /\ UNCHANGED db /\ ctl'.pc = "running" /\ ctl'.i = ctl.i /\ db.submitted = world.ws
      /\ world'.ran = [world.ran EXCEPT ![ctl.i] = Append(world.ran[ctl.i], world.ws)]
    BY DEF Run, At, Go, CtlOK, WorldOK, CandidateOK
<1>2. ctl.i \in Runs /\ world.ran[ctl.i] = << >> /\ db.run[ctl.i] = "owned" /\ db.submitted # None /\ db.pure = "pass"
    BY <1>1, ContentIsSome DEF Run, At, RunsOnce, CtlOK, Checking
<1>3. world'.ran[ctl.i] = <<db.submitted>> /\ \A i \in Runs \ {ctl.i} : world'.ran[i] = world.ran[i]
    BY <1>1, <1>2, AppendToEmpty DEF WorldOK
<1>4. world'.ran[ctl.i] # << >> /\ db.result[ctl.i] = None
    BY <1>2, <1>3, SingleIsSome DEF RunsOnce
<1> QED
    BY <1>1, <1>2, <1>3, <1>4 DEF RunsOnce, At, Checking, Reviewing

\* The acceptance comes after all the checks, of the collected bytes.
LEMMA AcceptKept ==
    ASSUME DbOK, CtlOK, WorldOK, CollectedOnce, RunsOnce, AskedOnce, SentOnce, Accept PROVE AcceptedAsChecked'
<1>1. db.kept # None /\ db.kept = db.patch /\ db.kept = db.submitted /\ db.accepted = None
    BY DEF Accept, At, CollectedOnce, Reporting, Reviewing
<1>2. db.verdict = "approve" /\ db.pure = "pass" /\ db.evidence = "pass"
    BY DEF Accept, At, RunsOnce, AskedOnce, Reviewing
<1>3. db.kept.bytes \in Proper /\ \A i \in Runs : db.result[i] = "ok"
    BY <1>2 DEF CollectedOnce, RunsOnce
<1>4. \A i \in Runs : world.ran[i] = <<db.kept>>
    BY <1>1, <1>3, NoneIsNoVerdict DEF RunsOnce
<1>5. world.asked = <<db.kept>>
    BY <1>2, NoneIsNoVerdict DEF AskedOnce
<1>6. \A a \in Effects : world[a] = << >>
    BY <1>1 DEF SentOnce
<1>7. /\ db'.accepted = db.kept /\ db'.patch = db.patch /\ db'.submitted = db.submitted /\ db'.result = db.result
      /\ db'.verdict = db.verdict /\ UNCHANGED world
    BY DEF Accept, DbOK
<1> QED
    BY <1>1, <1>2, <1>3, <1>4, <1>5, <1>6, <1>7 DEF AcceptedAsChecked, Effects

\* The store keeps its fields,
LEMMA DbKept ==
    ASSUME DbOK,
           Moves
    PROVE  DbOK'
<1> USE DEF DbOK
<1>1. CASE Approve
    BY <1>1 DEF Approve
<1>2. CASE Activate
    BY <1>2 DEF Activate
<1>3. CASE Stop
    BY <1>3 DEF Stop
<1>4. CASE Request \/ SaveRevision
    BY <1>4 DEF Request, SaveRevision
<1>5. CASE Claim
    BY <1>5 DEF Claim
<1>6. CASE Prepared \/ MakeObjects
    BY <1>6 DEF Prepared, MakeObjects
<1>7. CASE AskForSource \/ CopyObjects \/ Materialize
    BY <1>7 DEF AskForSource, CopyObjects, Materialize
<1>8. CASE StorePrepared
    BY <1>8 DEF StorePrepared
<1>9. CASE AdmitPrepared
    BY <1>9 DEF AdmitPrepared
<1>10. CASE StartPull
    BY <1>10 DEF StartPull
<1>11. CASE StartManaged
    BY <1>11 DEF StartManaged
<1>12. CASE BeginAttempt
    BY <1>12 DEF BeginAttempt
<1>13. CASE DispatchTurn
    BY <1>13 DEF DispatchTurn
<1>14. CASE ObserveTurn \/ StoreReceipt
    BY <1>14 DEF ObserveTurn, StoreReceipt
<1>15. CASE Finish
    BY <1>15 DEF Finish
<1>16. CASE Witness
    BY <1>16 DEF Witness
<1>17. CASE StopManaged
    BY <1>17 DEF StopManaged
<1>18. CASE Quiesce
    BY <1>18 DEF Quiesce
<1>19. CASE Reconcile
    BY <1>19 DEF Reconcile
<1>20. CASE ConnectionMoved
    BY <1>20 DEF ConnectionMoved
<1>21. CASE CollectStep
    BY <1>21 DEF CollectStep, CollectRetained, Collect, StorePatch, StoreCandidate
<1>22. CASE CheckStep
    BY <1>22 DEF CheckStep, FinishAttempt, ReservePure, RunPure, Commands, ReserveRun, DispatchRun
<1>23. CASE BindOwner \/ Run
    BY <1>23 DEF BindOwner, Run
<1>24. CASE StoreResult
    BY <1>24 DEF StoreResult
<1>25. CASE SettleRun \/ StoreEvidence
    BY <1>25 DEF SettleRun, StoreEvidence
<1>26. CASE AskStep
    BY <1>26 DEF AskStep, DispatchReview, OpenSession, Ask, Reply
<1>27. CASE ReviewUnknown
    BY <1>27 DEF ReviewUnknown
<1>28. CASE Lookup
    BY <1>28 DEF Lookup
<1>29. CASE ObserveReview
    BY <1>29 DEF ObserveReview
<1>30. CASE Outcome
    BY <1>30 DEF Outcome
<1>31. CASE DecideStep
    BY <1>31 DEF DecideStep, Reject, Current, Accept
<1>32. CASE AuthorizeStep
    BY <1>32 DEF AuthorizeStep, Publication, Topic, AuthorizePublication, DispatchPublication
<1>33. CASE SendStep
    BY <1>33 DEF SendStep, SendOrRead, Readback, ObservePublication, SettlePublication
<1>34. CASE FailStep
    BY <1>34 DEF FailStep, Abandon, Crash
<1>35. CASE Reported
    BY <1>35 DEF Reported
<1>36. CASE ReviewBegun
    BY <1>36 DEF ReviewBegun
<1>37. CASE CommandEnded
    BY <1>37 DEF CommandEnded
<1>38. CASE EffectSent
    BY <1>38 DEF EffectSent
<1>39. CASE WorldMoved
    BY <1>39 DEF WorldMoved
<1>40. CASE Still
    BY <1>40 DEF Still
<1> HIDE DEF DbOK
<1> QED
    BY <1>1, <1>2, <1>3, <1>4, <1>5, <1>6, <1>7, <1>8, <1>9, <1>10, <1>11, <1>12, <1>13, <1>14, <1>15, <1>16, <1>17,
        <1>18, <1>19, <1>20, <1>21, <1>22, <1>23, <1>24, <1>25, <1>26, <1>27, <1>28, <1>29, <1>30, <1>31, <1>32,
        <1>33, <1>34, <1>35, <1>36, <1>37, <1>38, <1>39, <1>40
        DEF Moves, OwnerStep, RequestStep, PrepareStep, StartStep, EndStep, CommandStep, AnswerStep

\* and so does the call,
LEMMA CtlKept ==
    ASSUME CtlOK,
           Moves
    PROVE  CtlOK'
<1> USE DEF CtlOK, Go, Return, Quiet, Effects
<1>1. CASE OwnerStep
    BY <1>1, FirstRun DEF OwnerStep, Approve, Activate, Stop
<1>2. CASE RequestStep
    BY <1>2, FirstRun DEF RequestStep, Request, SaveRevision, Claim, Prepared, MakeObjects
<1>3. CASE PrepareStep
    BY <1>3, FirstRun DEF PrepareStep, AskForSource, CopyObjects, Materialize, StorePrepared, AdmitPrepared
<1>4. CASE StartStep
    BY <1>4, FirstRun DEF StartStep, StartPull, StartManaged, BeginAttempt, DispatchTurn, ObserveTurn,
        StoreReceipt
<1>5. CASE Finish
    BY <1>5, FirstRun DEF Finish
<1>6. CASE Witness \/ StopManaged
    BY <1>6, FirstRun DEF Witness, StopManaged
<1>7. CASE Quiesce \/ Reconcile
    BY <1>7, FirstRun DEF Quiesce, Reconcile
<1>8. CASE CollectRetained
    BY <1>8, FirstRun DEF CollectRetained
<1>9. CASE Collect
    BY <1>9, FirstRun DEF Collect
<1>10. CASE StorePatch \/ StoreCandidate
    BY <1>10, FirstRun DEF StorePatch, StoreCandidate
<1>11. CASE CheckStep
    BY <1>11, FirstRun DEF CheckStep, FinishAttempt, ReservePure, RunPure, Commands, ReserveRun, DispatchRun
<1>12. CASE BindOwner
    BY <1>12, FirstRun DEF BindOwner
<1>13. CASE Run
    BY <1>13, FirstRun DEF Run
<1>14. CASE StoreResult
    BY <1>14, FirstRun DEF StoreResult
<1>15. CASE SettleRun
    BY <1>15, FirstRun, OrdinaryAssumption DEF SettleRun, Runs
<1>16. CASE StoreEvidence
    BY <1>16, FirstRun DEF StoreEvidence
<1>17. CASE DispatchReview
    BY <1>17, FirstRun DEF DispatchReview
<1>18. CASE OpenSession
    BY <1>18, FirstRun DEF OpenSession
<1>19. CASE Ask \/ Reply
    BY <1>19, FirstRun DEF Ask, Reply
<1>20. CASE AnswerStep
    BY <1>20, FirstRun DEF AnswerStep, ReviewUnknown, Lookup, ObserveReview, Outcome
<1>21. CASE DecideStep
    BY <1>21, FirstRun DEF DecideStep, Reject, Current, Accept
<1>22. CASE AuthorizeStep
    BY <1>22, FirstRun DEF AuthorizeStep, Publication, Topic, AuthorizePublication, DispatchPublication
<1>23. CASE SendOrRead \/ Readback
    BY <1>23, FirstRun DEF SendOrRead, Readback
<1>24. CASE ObservePublication
    BY <1>24, FirstRun DEF ObservePublication
<1>25. CASE SettlePublication
    BY <1>25, FirstRun DEF SettlePublication
<1>26. CASE FailStep
    BY <1>26, FirstRun DEF FailStep, Abandon, Crash
<1>27. CASE Reported
    BY <1>27, FirstRun DEF Reported
<1>28. CASE ReviewBegun
    BY <1>28, FirstRun DEF ReviewBegun
<1>29. CASE CommandEnded
    BY <1>29, FirstRun DEF CommandEnded
<1>30. CASE EffectSent
    BY <1>30, FirstRun DEF EffectSent
<1>31. CASE WorldMoved
    BY <1>31, FirstRun DEF WorldMoved
<1>32. CASE Still
    BY <1>32, FirstRun DEF Still
<1>33. CASE ConnectionMoved
    BY <1>33, FirstRun DEF ConnectionMoved
<1> HIDE DEF CtlOK, Go, Return, Quiet, Effects
<1> QED
    BY <1>1, <1>2, <1>3, <1>4, <1>5, <1>6, <1>7, <1>8, <1>9, <1>10, <1>11, <1>12, <1>13, <1>14, <1>15, <1>16, <1>17,
        <1>18, <1>19, <1>20, <1>21, <1>22, <1>23, <1>24, <1>25, <1>26, <1>27, <1>28, <1>29, <1>30, <1>31, <1>32,
        <1>33
        DEF Moves, EndStep, CollectStep, CommandStep, AskStep, SendStep

\* the world,
LEMMA WorldKept ==
    ASSUME WorldOK, CtlOK,
           Moves
    PROVE  WorldOK'
<1> USE DEF WorldOK, CtlOK, Effects
<1>1. CASE OwnerStep
    BY <1>1 DEF OwnerStep, Approve, Activate, Stop
<1>2. CASE RequestStep
    BY <1>2 DEF RequestStep, Request, SaveRevision, Claim, Prepared, MakeObjects
<1>3. CASE PrepareStep
    <2>1. "partial" \in Bytes /\ Base \in Bytes
        BY DEF Bytes
    <2>2. Wrote("partial") \in Contents /\ Wrote(Base) \in Contents
        BY <2>1, WroteIsLater
    <2>3. UNCHANGED world \/ world' = [world EXCEPT !.ws = Wrote("partial")] \/ world' = [world EXCEPT !.ws = Wrote(Base)]
        BY <1>3, Zenon DEF PrepareStep, AskForSource, CopyObjects, Materialize, StorePrepared, AdmitPrepared
    <2> QED
        BY <2>2, <2>3
<1>4. CASE StartPull \/ StartManaged \/ BeginAttempt \/ DispatchTurn
    BY <1>4 DEF StartPull, StartManaged, BeginAttempt, DispatchTurn
<1>5. CASE ObserveTurn
    BY <1>5 DEF ObserveTurn
<1>6. CASE StoreReceipt
    BY <1>6 DEF StoreReceipt
<1>7. CASE EndStep
    BY <1>7 DEF EndStep, Finish, Witness, StopManaged, Quiesce, Reconcile
<1>8. CASE CollectStep
    BY <1>8 DEF CollectStep, CollectRetained, Collect, StorePatch, StoreCandidate
<1>9. CASE CheckStep
    BY <1>9 DEF CheckStep, FinishAttempt, ReservePure, RunPure, Commands, ReserveRun, DispatchRun
<1>10. CASE CommandStep
    BY <1>10 DEF CommandStep, BindOwner, Run, StoreResult, SettleRun, StoreEvidence
<1>11. CASE DispatchReview \/ OpenSession
    BY <1>11 DEF DispatchReview, OpenSession
<1>12. CASE Ask
    BY <1>12 DEF Ask
<1>13. CASE Reply
    BY <1>13 DEF Reply
<1>14. CASE AnswerStep
    BY <1>14 DEF AnswerStep, ReviewUnknown, Lookup, ObserveReview, Outcome
<1>15. CASE DecideStep
    BY <1>15 DEF DecideStep, Reject, Current, Accept
<1>16. CASE AuthorizeStep
    BY <1>16 DEF AuthorizeStep, Publication, Topic, AuthorizePublication, DispatchPublication
<1>17. CASE SendStep
    BY <1>17 DEF SendStep, SendOrRead, Readback, ObservePublication, SettlePublication
<1>18. CASE FailStep
    BY <1>18 DEF FailStep, Abandon, Crash
<1>19. CASE Reported
    BY <1>19 DEF Reported
<1>20. CASE ReviewBegun
    BY <1>20 DEF ReviewBegun
<1>21. CASE CommandEnded
    BY <1>21 DEF CommandEnded
<1>22. CASE EffectSent
    BY <1>22 DEF EffectSent
<1>23. CASE WorldMoved
    BY <1>23 DEF WorldMoved
<1>24. CASE Still
    BY <1>24 DEF Still
<1>25. CASE ConnectionMoved
    BY <1>25 DEF ConnectionMoved
<1> HIDE DEF WorldOK, CtlOK, Effects
<1> QED
    BY <1>1, <1>2, <1>3, <1>4, <1>5, <1>6, <1>7, <1>8, <1>9, <1>10, <1>11, <1>12, <1>13, <1>14, <1>15, <1>16, <1>17,
        <1>18, <1>19, <1>20, <1>21, <1>22, <1>23, <1>24, <1>25
        DEF Moves, StartStep, AskStep

\* and the memory of the host.
LEMMA HostKept ==
    ASSUME DOMAIN host = {"conn", "handle"},
           Moves
    PROVE  DOMAIN host' = {"conn", "handle"}
<1> USE DEF NoHost
<1>1. CASE OwnerStep
    BY <1>1 DEF OwnerStep, Approve, Activate, Stop
<1>2. CASE RequestStep
    BY <1>2 DEF RequestStep, Request, SaveRevision, Claim, Prepared, MakeObjects
<1>3. CASE PrepareStep
    BY <1>3 DEF PrepareStep, AskForSource, CopyObjects, Materialize, StorePrepared, AdmitPrepared
<1>4. CASE StartStep
    BY <1>4 DEF StartStep, StartPull, StartManaged, BeginAttempt, DispatchTurn, ObserveTurn, StoreReceipt
<1>5. CASE EndStep
    BY <1>5 DEF EndStep, Finish, Witness, StopManaged, Quiesce, Reconcile
<1>6. CASE CollectStep
    BY <1>6 DEF CollectStep, CollectRetained, Collect, StorePatch, StoreCandidate
<1>7. CASE CheckStep
    BY <1>7 DEF CheckStep, FinishAttempt, ReservePure, RunPure, Commands, ReserveRun, DispatchRun
<1>8. CASE CommandStep
    BY <1>8 DEF CommandStep, BindOwner, Run, StoreResult, SettleRun, StoreEvidence
<1>9. CASE AskStep
    BY <1>9 DEF AskStep, DispatchReview, OpenSession, Ask, Reply
<1>10. CASE AnswerStep
    BY <1>10 DEF AnswerStep, ReviewUnknown, Lookup, ObserveReview, Outcome
<1>11. CASE DecideStep
    BY <1>11 DEF DecideStep, Reject, Current, Accept
<1>12. CASE AuthorizeStep
    BY <1>12 DEF AuthorizeStep, Publication, Topic, AuthorizePublication, DispatchPublication
<1>13. CASE SendStep
    BY <1>13 DEF SendStep, SendOrRead, Readback, ObservePublication, SettlePublication
<1>14. CASE FailStep
    BY <1>14 DEF FailStep, Abandon, Crash
<1>15. CASE Reported
    BY <1>15 DEF Reported
<1>16. CASE ReviewBegun
    BY <1>16 DEF ReviewBegun
<1>17. CASE CommandEnded
    BY <1>17 DEF CommandEnded
<1>18. CASE EffectSent
    BY <1>18 DEF EffectSent
<1>19. CASE WorldMoved
    BY <1>19 DEF WorldMoved
<1>20. CASE Still
    BY <1>20 DEF Still
<1>21. CASE ConnectionMoved
    BY <1>21 DEF ConnectionMoved
<1> HIDE DEF NoHost
<1> QED
    BY <1>1, <1>2, <1>3, <1>4, <1>5, <1>6, <1>7, <1>8, <1>9, <1>10, <1>11, <1>12, <1>13, <1>14, <1>15, <1>16, <1>17,
        <1>18, <1>19, <1>20, <1>21
        DEF Moves

\* An Attempt is claimed once, and its turn is started once.
LEMMA ClaimedOnceKept ==
    ASSUME DbOK, CtlOK, WorldOK, DOMAIN host = {"conn", "handle"}, CollectedOnce, ClaimedOnce,
           Moves
    PROVE  ClaimedOnce'
<1> USE DEF DbOK, CtlOK, WorldOK, At, Go, Return, Quiet, ClaimedOnce
<1>1. CASE Approve
    BY <1>1 DEF Approve
<1>2. CASE Activate
    BY <1>2 DEF Activate
<1>3. CASE Stop
    BY <1>3 DEF Stop
<1>4. CASE Request \/ SaveRevision
    BY <1>4 DEF Request, SaveRevision
<1>5. CASE Claim
    BY <1>5 DEF Claim
<1>6. CASE Prepared \/ MakeObjects
    BY <1>6 DEF Prepared, MakeObjects
<1>7. CASE AskForSource \/ CopyObjects \/ Materialize
    BY <1>7 DEF AskForSource, CopyObjects, Materialize
<1>8. CASE StorePrepared
    BY <1>8 DEF StorePrepared
<1>9. CASE AdmitPrepared
    BY <1>9 DEF AdmitPrepared
<1>10. CASE StartPull
    BY <1>10 DEF StartPull
<1>11. CASE StartManaged
    BY <1>11 DEF StartManaged
<1>12. CASE BeginAttempt
    BY <1>12 DEF BeginAttempt
<1>13. CASE DispatchTurn
    BY <1>13 DEF DispatchTurn
<1>14. CASE ObserveTurn
    BY <1>14 DEF ObserveTurn
<1>15. CASE StoreReceipt
    BY <1>15 DEF StoreReceipt
<1>16. CASE Finish
    BY <1>16 DEF Finish
<1>17. CASE Witness
    BY <1>17 DEF Witness
<1>18. CASE StopManaged
    BY <1>18 DEF StopManaged
<1>19. CASE Quiesce
    BY <1>19 DEF Quiesce
<1>20. CASE Reconcile
    BY <1>20 DEF Reconcile
<1>21. CASE ConnectionMoved
    BY <1>21 DEF ConnectionMoved
<1>22. CASE CollectRetained
    BY <1>22 DEF CollectRetained, CollectedOnce, Collecting
<1>23. CASE Collect
    BY <1>23 DEF Collect
<1>24. CASE StorePatch \/ StoreCandidate
    BY <1>24 DEF StorePatch, StoreCandidate, CollectedOnce, Collecting
<1>25. CASE CheckStep
    BY <1>25 DEF CheckStep, FinishAttempt, ReservePure, RunPure, Commands, ReserveRun, DispatchRun
<1>26. CASE BindOwner
    BY <1>26 DEF BindOwner
<1>27. CASE Run
    BY <1>27 DEF Run
<1>28. CASE StoreResult
    BY <1>28 DEF StoreResult
<1>29. CASE SettleRun
    BY <1>29 DEF SettleRun
<1>30. CASE StoreEvidence
    BY <1>30 DEF StoreEvidence
<1>31. CASE DispatchReview
    BY <1>31 DEF DispatchReview
<1>32. CASE OpenSession
    BY <1>32 DEF OpenSession
<1>33. CASE Ask
    BY <1>33 DEF Ask
<1>34. CASE Reply
    BY <1>34 DEF Reply
<1>35. CASE ReviewUnknown
    BY <1>35 DEF ReviewUnknown
<1>36. CASE Lookup
    BY <1>36 DEF Lookup
<1>37. CASE ObserveReview
    BY <1>37 DEF ObserveReview
<1>38. CASE Outcome
    BY <1>38 DEF Outcome
<1>39. CASE DecideStep
    BY <1>39 DEF DecideStep, Reject, Current, Accept
<1>40. CASE AuthorizeStep
    BY <1>40 DEF AuthorizeStep, Publication, Topic, AuthorizePublication, DispatchPublication
<1>41. CASE SendOrRead \/ Readback
    BY <1>41 DEF SendOrRead, Readback
<1>42. CASE ObservePublication
    BY <1>42 DEF ObservePublication
<1>43. CASE SettlePublication
    BY <1>43 DEF SettlePublication
<1>44. CASE FailStep
    BY <1>44 DEF FailStep, Abandon, Crash, NoHost
<1>45. CASE Reported
    BY <1>45 DEF Reported
<1>46. CASE ReviewBegun
    BY <1>46 DEF ReviewBegun
<1>47. CASE CommandEnded
    BY <1>47 DEF CommandEnded
<1>48. CASE EffectSent
    BY <1>48 DEF EffectSent, Effects
<1>49. CASE WorldMoved
    BY <1>49 DEF WorldMoved
<1>50. CASE Still
    BY <1>50 DEF Still
<1> HIDE DEF DbOK, CtlOK, WorldOK, At, Go, Return, Quiet, ClaimedOnce
<1> QED
    BY <1>1, <1>2, <1>3, <1>4, <1>5, <1>6, <1>7, <1>8, <1>9, <1>10, <1>11, <1>12, <1>13, <1>14, <1>15, <1>16, <1>17,
        <1>18, <1>19, <1>20, <1>21, <1>22, <1>23, <1>24, <1>25, <1>26, <1>27, <1>28, <1>29, <1>30, <1>31, <1>32,
        <1>33, <1>34, <1>35, <1>36, <1>37, <1>38, <1>39, <1>40, <1>41, <1>42, <1>43, <1>44, <1>45, <1>46, <1>47,
        <1>48, <1>49, <1>50
        DEF Moves, OwnerStep, RequestStep, PrepareStep, StartStep, EndStep, CollectStep, CommandStep, AskStep, AnswerStep, SendStep

\* A connection that says so has no group left, and neither has a claim that counts as settled.
LEMMA ConnectionTrueKept ==
    ASSUME DbOK, CtlOK, WorldOK, DOMAIN host = {"conn", "handle"}, ClaimedOnce, ConnectionTrue,
           Moves
    PROVE  ConnectionTrue'
<1> USE DEF DbOK, CtlOK, WorldOK, ConnectionTrue, SettledIsQuiet
<1>1. CASE Approve
    BY <1>1 DEF Approve
<1>2. CASE Activate
    BY <1>2 DEF Activate
<1>3. CASE Stop
    BY <1>3 DEF Stop
<1>4. CASE Request \/ SaveRevision
    BY <1>4 DEF Request, SaveRevision
<1>5. CASE Claim
    BY <1>5 DEF Claim, ClaimedOnce, At
<1>6. CASE Prepared \/ MakeObjects
    BY <1>6 DEF Prepared, MakeObjects
<1>7. CASE AskForSource \/ CopyObjects \/ Materialize
    BY <1>7 DEF AskForSource, CopyObjects, Materialize
<1>8. CASE StorePrepared
    BY <1>8 DEF StorePrepared
<1>9. CASE AdmitPrepared
    BY <1>9 DEF AdmitPrepared
<1>10. CASE StartPull
    BY <1>10 DEF StartPull
<1>11. CASE StartManaged
    BY <1>11 DEF StartManaged
<1>12. CASE BeginAttempt
    BY <1>12 DEF BeginAttempt
<1>13. CASE DispatchTurn
    BY <1>13 DEF DispatchTurn
<1>14. CASE ObserveTurn \/ StoreReceipt
    BY <1>14 DEF ObserveTurn, StoreReceipt
<1>15. CASE Finish \/ Witness \/ StopManaged
    BY <1>15 DEF Finish, Witness, StopManaged, ClaimedOnce
<1>16. CASE Quiesce
    BY <1>16 DEF Quiesce
<1>17. CASE Reconcile
    BY <1>17 DEF Reconcile
<1>18. CASE ConnectionMoved
    BY <1>18 DEF ConnectionMoved
<1>19. CASE CollectStep
    BY <1>19 DEF CollectStep, CollectRetained, Collect, StorePatch, StoreCandidate
<1>20. CASE CheckStep
    BY <1>20 DEF CheckStep, FinishAttempt, ReservePure, RunPure, Commands, ReserveRun, DispatchRun
<1>21. CASE BindOwner \/ Run
    BY <1>21 DEF BindOwner, Run
<1>22. CASE StoreResult
    BY <1>22 DEF StoreResult
<1>23. CASE SettleRun \/ StoreEvidence
    BY <1>23 DEF SettleRun, StoreEvidence
<1>24. CASE DispatchReview \/ OpenSession
    BY <1>24 DEF DispatchReview, OpenSession
<1>25. CASE Ask
    BY <1>25 DEF Ask
<1>26. CASE Reply
    BY <1>26 DEF Reply
<1>27. CASE ReviewUnknown
    BY <1>27 DEF ReviewUnknown
<1>28. CASE Lookup
    BY <1>28 DEF Lookup
<1>29. CASE ObserveReview
    BY <1>29 DEF ObserveReview
<1>30. CASE Outcome
    BY <1>30 DEF Outcome
<1>31. CASE DecideStep
    BY <1>31 DEF DecideStep, Reject, Current, Accept
<1>32. CASE AuthorizeStep
    BY <1>32 DEF AuthorizeStep, Publication, Topic, AuthorizePublication, DispatchPublication
<1>33. CASE SendStep
    BY <1>33 DEF SendStep, SendOrRead, Readback, ObservePublication, SettlePublication
<1>34. CASE FailStep
    BY <1>34 DEF FailStep, Abandon, Crash, NoHost
<1>35. CASE Reported
    BY <1>35 DEF Reported
<1>36. CASE ReviewBegun
    BY <1>36 DEF ReviewBegun
<1>37. CASE CommandEnded
    BY <1>37 DEF CommandEnded
<1>38. CASE EffectSent
    BY <1>38 DEF EffectSent, Effects
<1>39. CASE WorldMoved
    BY <1>39 DEF WorldMoved
<1>40. CASE Still
    BY <1>40 DEF Still
<1> HIDE DEF DbOK, CtlOK, WorldOK, ConnectionTrue, SettledIsQuiet
<1> QED
    BY <1>1, <1>2, <1>3, <1>4, <1>5, <1>6, <1>7, <1>8, <1>9, <1>10, <1>11, <1>12, <1>13, <1>14, <1>15, <1>16, <1>17,
        <1>18, <1>19, <1>20, <1>21, <1>22, <1>23, <1>24, <1>25, <1>26, <1>27, <1>28, <1>29, <1>30, <1>31, <1>32,
        <1>33, <1>34, <1>35, <1>36, <1>37, <1>38, <1>39, <1>40
        DEF Moves, OwnerStep, RequestStep, PrepareStep, StartStep, EndStep, CommandStep, AskStep, AnswerStep

\* The content of a report is collected once, and checked only if it is the submitted one.
LEMMA CollectedOnceKept ==
    ASSUME DbOK, CtlOK, WorldOK, CollectedOnce,
           Moves
    PROVE  CollectedOnce'
<1> USE DEF DbOK, CtlOK, WorldOK, At, Go, Return, Quiet, CollectedOnce, Collecting, Reporting, Checking,
            Reviewing
<1>1. CASE Approve
    BY <1>1 DEF Approve
<1>2. CASE Activate
    BY <1>2 DEF Activate
<1>3. CASE Stop
    BY <1>3 DEF Stop
<1>4. CASE Request \/ SaveRevision
    BY <1>4 DEF Request, SaveRevision
<1>5. CASE Claim
    BY <1>5 DEF Claim
<1>6. CASE Prepared \/ MakeObjects
    BY <1>6 DEF Prepared, MakeObjects
<1>7. CASE AskForSource \/ CopyObjects
    BY <1>7 DEF AskForSource, CopyObjects
<1>8. CASE Materialize
    <2>1. PICK b \in Bytes : world' = [world EXCEPT !.ws = Wrote(b)]
        BY <1>8 DEF Materialize, Bytes
    <2>2. At("materialize") /\ UNCHANGED db /\ (ctl' = ctl \/ ctl' = [ctl EXCEPT !.pc = "prepared"])
        BY <1>8 DEF Materialize
    <2>3. world'.ws = Wrote(b)
        BY <2>1
    <2>4. \A c \in Contents : Upto(c, world.ws) => Upto(c, world'.ws)
        BY <2>3, ContentIsSome, WroteIsLater, UptoLater
    <2> QED
        BY <2>2, <2>4
<1>9. CASE StorePrepared
    BY <1>9 DEF StorePrepared
<1>10. CASE AdmitPrepared
    BY <1>10 DEF AdmitPrepared
<1>11. CASE StartPull
    BY <1>11 DEF StartPull
<1>12. CASE StartManaged
    BY <1>12 DEF StartManaged
<1>13. CASE BeginAttempt
    BY <1>13 DEF BeginAttempt
<1>14. CASE DispatchTurn
    BY <1>14 DEF DispatchTurn
<1>15. CASE ObserveTurn \/ StoreReceipt
    BY <1>15 DEF ObserveTurn, StoreReceipt
<1>16. CASE Finish
    BY <1>16 DEF Finish
<1>17. CASE Witness
    BY <1>17 DEF Witness
<1>18. CASE StopManaged
    BY <1>18 DEF StopManaged
<1>19. CASE Quiesce
    BY <1>19 DEF Quiesce
<1>20. CASE Reconcile
    BY <1>20 DEF Reconcile
<1>21. CASE ConnectionMoved
    BY <1>21 DEF ConnectionMoved
<1>22. CASE CollectRetained
    BY <1>22, ContentIsSome DEF CollectRetained
<1>23. CASE Collect
    BY <1>23, ContentIsSome DEF Collect, Upto
<1>24. CASE StorePatch
    BY <1>24 DEF StorePatch
<1>25. CASE StoreCandidate
    <2>1. /\ UNCHANGED world /\ ctl' = [ctl EXCEPT !.pc = ctl.ret] /\ ctl.ret \in {"finish", "close"}
          /\ DOMAIN db' = DOMAIN db /\ db'.kept = ctl.before
          /\ \A f \in DOMAIN db \ {"kept"} : db'[f] = db[f]
        BY <1>25 DEF StoreCandidate
    <2>2. /\ ctl.before \in Contents /\ Upto(ctl.before, world.ws) /\ ctl.before # None
          /\ db.patch = ctl.before /\ db.index
        BY <1>25, NoneIsNoContent DEF StoreCandidate
    <2>3. db.pure # "pass"
        BY <1>25 DEF StoreCandidate
    <2> QED
        BY <1>25, <2>1, <2>2, <2>3 DEF StoreCandidate
<1>26. CASE FinishAttempt
    BY <1>26 DEF FinishAttempt
<1>27. CASE ReservePure
    <2>1. db.kept \in Contents /\ db.submitted = world.ws /\ Upto(db.kept, world.ws) /\ Upto(db.submitted, db.kept)
        BY <1>27 DEF ReservePure, CandidateOK
    <2>2. db.kept = db.submitted
        BY <2>1, ContentIsSome, UptoBoth
    <2> QED
        BY <1>27, <2>2 DEF ReservePure
<1>28. CASE RunPure
    BY <1>28 DEF RunPure
<1>29. CASE Commands \/ ReserveRun
    BY <1>29 DEF Commands, ReserveRun
<1>30. CASE DispatchRun
    BY <1>30 DEF DispatchRun
<1>31. CASE BindOwner
    BY <1>31 DEF BindOwner
<1>32. CASE Run
    BY <1>32 DEF Run
<1>33. CASE StoreResult
    BY <1>33 DEF StoreResult
<1>34. CASE SettleRun
    BY <1>34 DEF SettleRun
<1>35. CASE StoreEvidence
    BY <1>35 DEF StoreEvidence
<1>36. CASE DispatchReview
    BY <1>36 DEF DispatchReview
<1>37. CASE OpenSession
    BY <1>37 DEF OpenSession
<1>38. CASE Ask
    BY <1>38 DEF Ask
<1>39. CASE Reply
    BY <1>39 DEF Reply
<1>40. CASE ReviewUnknown
    BY <1>40 DEF ReviewUnknown
<1>41. CASE Lookup
    BY <1>41 DEF Lookup
<1>42. CASE ObserveReview
    BY <1>42 DEF ObserveReview
<1>43. CASE Outcome
    BY <1>43 DEF Outcome
<1>44. CASE DecideStep
    BY <1>44 DEF DecideStep, Reject, Current, Accept
<1>45. CASE AuthorizeStep
    BY <1>45 DEF AuthorizeStep, Publication, Topic, AuthorizePublication, DispatchPublication
<1>46. CASE SendOrRead \/ Readback
    BY <1>46 DEF SendOrRead, Readback
<1>47. CASE ObservePublication
    BY <1>47 DEF ObservePublication
<1>48. CASE SettlePublication
    BY <1>48 DEF SettlePublication
<1>49. CASE FailStep
    BY <1>49 DEF FailStep, Abandon, Crash
<1>50. CASE Reported
    BY <1>50, ContentIsSome DEF Reported, Upto
<1>51. CASE ReviewBegun
    BY <1>51 DEF ReviewBegun
<1>52. CASE CommandEnded
    BY <1>52 DEF CommandEnded
<1>53. CASE EffectSent
    BY <1>53 DEF EffectSent, Effects
<1>54. CASE WorldMoved
    <2>1. \A c \in Contents : Upto(c, world.ws) => Upto(c, world'.ws)
        BY <1>54, ContentIsSome, UptoLater DEF WorldMoved
    <2> QED
        BY <1>54, <2>1 DEF WorldMoved
<1>55. CASE Still
    BY <1>55 DEF Still
<1> HIDE DEF DbOK, CtlOK, WorldOK, At, Go, Return, Quiet, CollectedOnce, Collecting, Reporting, Checking,
            Reviewing
<1> QED
    BY <1>1, <1>2, <1>3, <1>4, <1>5, <1>6, <1>7, <1>8, <1>9, <1>10, <1>11, <1>12, <1>13, <1>14, <1>15, <1>16, <1>17,
        <1>18, <1>19, <1>20, <1>21, <1>22, <1>23, <1>24, <1>25, <1>26, <1>27, <1>28, <1>29, <1>30, <1>31, <1>32,
        <1>33, <1>34, <1>35, <1>36, <1>37, <1>38, <1>39, <1>40, <1>41, <1>42, <1>43, <1>44, <1>45, <1>46, <1>47,
        <1>48, <1>49, <1>50, <1>51, <1>52, <1>53, <1>54, <1>55
        DEF Moves, OwnerStep, RequestStep, PrepareStep, StartStep, EndStep, CollectStep, CheckStep, CommandStep, AskStep, AnswerStep, SendStep

\* A command runs once, and its result is stored once.
LEMMA RunsOnceKept ==
    ASSUME DbOK, CtlOK, WorldOK, CollectedOnce, RunsOnce,
           Moves
    PROVE  RunsOnce'
<1>a. CASE Run
    BY <1>a, RunKept
<1> USE DEF DbOK, CtlOK, WorldOK, At, Go, Return, Quiet, RunsOnce, Collecting, Reporting, Checking, Reviewing
<1>1. CASE Approve
    BY <1>1 DEF Approve
<1>2. CASE Activate
    BY <1>2 DEF Activate
<1>3. CASE Stop
    BY <1>3 DEF Stop
<1>4. CASE Request \/ SaveRevision
    BY <1>4 DEF Request, SaveRevision
<1>5. CASE Claim
    BY <1>5 DEF Claim
<1>6. CASE Prepared \/ MakeObjects
    BY <1>6 DEF Prepared, MakeObjects
<1>7. CASE AskForSource \/ CopyObjects \/ Materialize
    BY <1>7 DEF AskForSource, CopyObjects, Materialize
<1>8. CASE StorePrepared
    BY <1>8 DEF StorePrepared
<1>9. CASE AdmitPrepared
    BY <1>9 DEF AdmitPrepared
<1>10. CASE StartPull
    BY <1>10 DEF StartPull
<1>11. CASE StartManaged
    BY <1>11 DEF StartManaged
<1>12. CASE BeginAttempt
    BY <1>12 DEF BeginAttempt
<1>13. CASE DispatchTurn
    BY <1>13 DEF DispatchTurn
<1>14. CASE ObserveTurn
    BY <1>14 DEF ObserveTurn
<1>15. CASE StoreReceipt
    BY <1>15 DEF StoreReceipt
<1>16. CASE Finish
    BY <1>16 DEF Finish
<1>17. CASE Witness
    BY <1>17 DEF Witness
<1>18. CASE StopManaged
    BY <1>18 DEF StopManaged
<1>19. CASE Quiesce
    BY <1>19 DEF Quiesce
<1>20. CASE Reconcile
    BY <1>20 DEF Reconcile
<1>21. CASE ConnectionMoved
    BY <1>21 DEF ConnectionMoved
<1>22. CASE CollectRetained
    BY <1>22 DEF CollectRetained, CollectedOnce
<1>23. CASE Collect
    BY <1>23 DEF Collect
<1>24. CASE StorePatch \/ StoreCandidate
    BY <1>24 DEF StorePatch, StoreCandidate, CollectedOnce
<1>25. CASE CheckStep
    BY <1>25 DEF CheckStep, FinishAttempt, ReservePure, RunPure, Commands, ReserveRun, DispatchRun
<1>26. CASE BindOwner
    BY <1>26 DEF BindOwner
<1>27. CASE StoreResult
    BY <1>27, NoneIsNoVerdict DEF StoreResult
<1>28. CASE SettleRun
    BY <1>28 DEF SettleRun
<1>29. CASE StoreEvidence
    BY <1>29 DEF StoreEvidence
<1>30. CASE DispatchReview
    BY <1>30 DEF DispatchReview
<1>31. CASE OpenSession
    BY <1>31 DEF OpenSession
<1>32. CASE Ask
    BY <1>32 DEF Ask
<1>33. CASE Reply
    BY <1>33 DEF Reply
<1>34. CASE ReviewUnknown
    BY <1>34 DEF ReviewUnknown
<1>35. CASE Lookup
    BY <1>35 DEF Lookup
<1>36. CASE ObserveReview
    BY <1>36 DEF ObserveReview
<1>37. CASE Outcome
    BY <1>37 DEF Outcome
<1>38. CASE DecideStep
    BY <1>38 DEF DecideStep, Reject, Current, Accept
<1>39. CASE AuthorizeStep
    BY <1>39 DEF AuthorizeStep, Publication, Topic, AuthorizePublication, DispatchPublication
<1>40. CASE SendOrRead \/ Readback
    BY <1>40 DEF SendOrRead, Readback
<1>41. CASE ObservePublication
    BY <1>41 DEF ObservePublication
<1>42. CASE SettlePublication
    BY <1>42 DEF SettlePublication
<1>43. CASE FailStep
    BY <1>43 DEF FailStep, Abandon, Crash
<1>44. CASE Reported
    BY <1>44 DEF Reported, CollectedOnce
<1>45. CASE ReviewBegun
    BY <1>45 DEF ReviewBegun
<1>46. CASE CommandEnded
    BY <1>46 DEF CommandEnded
<1>47. CASE EffectSent
    BY <1>47 DEF EffectSent, Effects
<1>48. CASE WorldMoved
    BY <1>48 DEF WorldMoved
<1>49. CASE Still
    BY <1>49 DEF Still
<1> HIDE DEF DbOK, CtlOK, WorldOK, At, Go, Return, Quiet, RunsOnce, Collecting, Reporting, Checking, Reviewing
<1> QED
    BY <1>a, <1>1, <1>2, <1>3, <1>4, <1>5, <1>6, <1>7, <1>8, <1>9, <1>10, <1>11, <1>12, <1>13, <1>14, <1>15, <1>16,
        <1>17, <1>18, <1>19, <1>20, <1>21, <1>22, <1>23, <1>24, <1>25, <1>26, <1>27, <1>28, <1>29, <1>30, <1>31,
        <1>32, <1>33, <1>34, <1>35, <1>36, <1>37, <1>38, <1>39, <1>40, <1>41, <1>42, <1>43, <1>44, <1>45, <1>46,
        <1>47, <1>48, <1>49
        DEF Moves, OwnerStep, RequestStep, PrepareStep, StartStep, EndStep, CollectStep, CommandStep, AskStep, AnswerStep, SendStep

\* The reviewer is asked once, and answers the prompt.
LEMMA AskedOnceKept ==
    ASSUME DbOK, CtlOK, WorldOK, CollectedOnce, AskedOnce,
           Moves
    PROVE  AskedOnce'
<1>a. CASE Ask
    BY <1>a, AskKept
<1> USE DEF DbOK, CtlOK, WorldOK, At, Go, Return, Quiet, AskedOnce
<1>1. CASE Approve
    BY <1>1 DEF Approve
<1>2. CASE Activate
    BY <1>2 DEF Activate
<1>3. CASE Stop
    BY <1>3 DEF Stop
<1>4. CASE Request \/ SaveRevision
    BY <1>4 DEF Request, SaveRevision
<1>5. CASE Claim
    BY <1>5 DEF Claim
<1>6. CASE Prepared \/ MakeObjects
    BY <1>6 DEF Prepared, MakeObjects
<1>7. CASE AskForSource \/ CopyObjects \/ Materialize
    BY <1>7 DEF AskForSource, CopyObjects, Materialize
<1>8. CASE StorePrepared
    BY <1>8 DEF StorePrepared
<1>9. CASE AdmitPrepared
    BY <1>9 DEF AdmitPrepared
<1>10. CASE StartPull
    BY <1>10 DEF StartPull
<1>11. CASE StartManaged
    BY <1>11 DEF StartManaged
<1>12. CASE BeginAttempt
    BY <1>12 DEF BeginAttempt
<1>13. CASE DispatchTurn
    BY <1>13 DEF DispatchTurn
<1>14. CASE ObserveTurn
    BY <1>14 DEF ObserveTurn
<1>15. CASE StoreReceipt
    BY <1>15 DEF StoreReceipt
<1>16. CASE Finish
    BY <1>16 DEF Finish
<1>17. CASE Witness
    BY <1>17 DEF Witness
<1>18. CASE StopManaged
    BY <1>18 DEF StopManaged
<1>19. CASE Quiesce
    BY <1>19 DEF Quiesce
<1>20. CASE Reconcile
    BY <1>20 DEF Reconcile
<1>21. CASE ConnectionMoved
    BY <1>21 DEF ConnectionMoved
<1>22. CASE CollectRetained
    BY <1>22 DEF CollectRetained, CollectedOnce, Collecting
<1>23. CASE Collect
    BY <1>23 DEF Collect
<1>24. CASE StorePatch \/ StoreCandidate
    BY <1>24 DEF StorePatch, StoreCandidate, CollectedOnce, Collecting
<1>25. CASE CheckStep
    BY <1>25 DEF CheckStep, FinishAttempt, ReservePure, RunPure, Commands, ReserveRun, DispatchRun
<1>26. CASE BindOwner
    BY <1>26 DEF BindOwner
<1>27. CASE Run
    BY <1>27 DEF Run
<1>28. CASE StoreResult
    BY <1>28 DEF StoreResult
<1>29. CASE SettleRun
    BY <1>29 DEF SettleRun
<1>30. CASE StoreEvidence
    BY <1>30 DEF StoreEvidence
<1>31. CASE DispatchReview
    BY <1>31 DEF DispatchReview
<1>32. CASE OpenSession
    BY <1>32 DEF OpenSession, Bound
<1>33. CASE Reply
    BY <1>33 DEF Reply, Found, Bound, Receipt, Verdicts
<1>34. CASE ReviewUnknown
    BY <1>34 DEF ReviewUnknown
<1>35. CASE Lookup
    BY <1>35 DEF Lookup, Found, Bound, Receipt, Verdicts
<1>36. CASE ObserveReview
    BY <1>36 DEF ObserveReview
<1>37. CASE Outcome
    BY <1>37 DEF Outcome
<1>38. CASE DecideStep
    BY <1>38 DEF DecideStep, Reject, Current, Accept
<1>39. CASE AuthorizeStep
    BY <1>39 DEF AuthorizeStep, Publication, Topic, AuthorizePublication, DispatchPublication
<1>40. CASE SendOrRead \/ Readback
    BY <1>40 DEF SendOrRead, Readback
<1>41. CASE ObservePublication
    BY <1>41 DEF ObservePublication
<1>42. CASE SettlePublication
    BY <1>42 DEF SettlePublication
<1>43. CASE FailStep
    BY <1>43 DEF FailStep, Abandon, Crash
<1>44. CASE Reported
    BY <1>44 DEF Reported
<1>45. CASE ReviewBegun
    BY <1>45 DEF ReviewBegun
<1>46. CASE CommandEnded
    BY <1>46 DEF CommandEnded
<1>47. CASE EffectSent
    BY <1>47 DEF EffectSent, Effects
<1>48. CASE WorldMoved
    BY <1>48 DEF WorldMoved
<1>49. CASE Still
    BY <1>49 DEF Still
<1> HIDE DEF DbOK, CtlOK, WorldOK, At, Go, Return, Quiet, AskedOnce
<1> QED
    BY <1>a, <1>1, <1>2, <1>3, <1>4, <1>5, <1>6, <1>7, <1>8, <1>9, <1>10, <1>11, <1>12, <1>13, <1>14, <1>15, <1>16,
        <1>17, <1>18, <1>19, <1>20, <1>21, <1>22, <1>23, <1>24, <1>25, <1>26, <1>27, <1>28, <1>29, <1>30, <1>31,
        <1>32, <1>33, <1>34, <1>35, <1>36, <1>37, <1>38, <1>39, <1>40, <1>41, <1>42, <1>43, <1>44, <1>45, <1>46,
        <1>47, <1>48, <1>49
        DEF Moves, OwnerStep, RequestStep, PrepareStep, StartStep, EndStep, CollectStep, CommandStep, AskStep, AnswerStep, SendStep

\* An effect is sent once, for an accepted candidate.
LEMMA SentOnceKept ==
    ASSUME DbOK, CtlOK, WorldOK, CollectedOnce, SentOnce,
           Moves
    PROVE  SentOnce'
<1> USE DEF DbOK, CtlOK, WorldOK, At, Go, Return, Quiet, SentOnce, Effects
<1>1. CASE Approve
    BY <1>1 DEF Approve
<1>2. CASE Activate
    BY <1>2 DEF Activate
<1>3. CASE Stop
    BY <1>3 DEF Stop
<1>4. CASE Request \/ SaveRevision
    BY <1>4 DEF Request, SaveRevision
<1>5. CASE Claim
    BY <1>5 DEF Claim
<1>6. CASE Prepared \/ MakeObjects
    BY <1>6 DEF Prepared, MakeObjects
<1>7. CASE AskForSource \/ CopyObjects \/ Materialize
    BY <1>7 DEF AskForSource, CopyObjects, Materialize
<1>8. CASE StorePrepared
    BY <1>8 DEF StorePrepared
<1>9. CASE AdmitPrepared
    BY <1>9 DEF AdmitPrepared
<1>10. CASE StartPull
    BY <1>10 DEF StartPull
<1>11. CASE StartManaged
    BY <1>11 DEF StartManaged
<1>12. CASE BeginAttempt
    BY <1>12 DEF BeginAttempt
<1>13. CASE DispatchTurn
    BY <1>13 DEF DispatchTurn
<1>14. CASE ObserveTurn
    BY <1>14 DEF ObserveTurn
<1>15. CASE StoreReceipt
    BY <1>15 DEF StoreReceipt
<1>16. CASE Finish
    BY <1>16 DEF Finish
<1>17. CASE Witness
    BY <1>17 DEF Witness
<1>18. CASE StopManaged
    BY <1>18 DEF StopManaged
<1>19. CASE Quiesce
    BY <1>19 DEF Quiesce
<1>20. CASE Reconcile
    BY <1>20 DEF Reconcile
<1>21. CASE ConnectionMoved
    BY <1>21 DEF ConnectionMoved
<1>22. CASE CollectRetained
    BY <1>22 DEF CollectRetained, CollectedOnce, Collecting
<1>23. CASE Collect
    BY <1>23 DEF Collect
<1>24. CASE StorePatch \/ StoreCandidate
    BY <1>24 DEF StorePatch, StoreCandidate, CollectedOnce, Collecting
<1>25. CASE CheckStep
    BY <1>25 DEF CheckStep, FinishAttempt, ReservePure, RunPure, Commands, ReserveRun, DispatchRun
<1>26. CASE BindOwner
    BY <1>26 DEF BindOwner
<1>27. CASE Run
    BY <1>27 DEF Run
<1>28. CASE StoreResult
    BY <1>28 DEF StoreResult
<1>29. CASE SettleRun
    BY <1>29 DEF SettleRun
<1>30. CASE StoreEvidence
    BY <1>30 DEF StoreEvidence
<1>31. CASE DispatchReview
    BY <1>31 DEF DispatchReview
<1>32. CASE OpenSession
    BY <1>32 DEF OpenSession
<1>33. CASE Ask
    BY <1>33 DEF Ask
<1>34. CASE Reply
    BY <1>34 DEF Reply
<1>35. CASE ReviewUnknown
    BY <1>35 DEF ReviewUnknown
<1>36. CASE Lookup
    BY <1>36 DEF Lookup
<1>37. CASE ObserveReview
    BY <1>37 DEF ObserveReview
<1>38. CASE Outcome
    BY <1>38 DEF Outcome
<1>39. CASE DecideStep
    BY <1>39 DEF DecideStep, Reject, Current, Accept, CollectedOnce, Collecting, Reporting, Checking, Reviewing
<1>40. CASE AuthorizeStep
    BY <1>40 DEF AuthorizeStep, Publication, Topic, AuthorizePublication, DispatchPublication
<1>41. CASE SendOrRead
    BY <1>41 DEF SendOrRead
<1>42. CASE Readback
    <2>1. /\ DOMAIN db' = DOMAIN db /\ \A f \in {"send", "accepted", "kept"} : db'[f] = db[f]
          /\ UNCHANGED world
        BY <1>42 DEF Readback
    <2>2. (ctl'.pc = "observe" /\ ctl'.act = ctl.act /\ world[ctl.act] # << >>) \/ ctl' = Quiet
        BY <1>42 DEF Readback
    <2> QED
        BY <2>1, <2>2
<1>43. CASE ObservePublication
    BY <1>43 DEF ObservePublication
<1>44. CASE SettlePublication
    BY <1>44 DEF SettlePublication
<1>45. CASE FailStep
    BY <1>45 DEF FailStep, Abandon, Crash
<1>46. CASE Reported
    BY <1>46 DEF Reported
<1>47. CASE ReviewBegun
    BY <1>47 DEF ReviewBegun
<1>48. CASE CommandEnded
    BY <1>48 DEF CommandEnded
<1>49. CASE EffectSent
    BY <1>49, AppendToEmpty, SingleIsSome DEF EffectSent, Accepted
<1>50. CASE WorldMoved
    BY <1>50 DEF WorldMoved
<1>51. CASE Still
    BY <1>51 DEF Still
<1> HIDE DEF DbOK, CtlOK, WorldOK, At, Go, Return, Quiet, SentOnce, Effects
<1> QED
    BY <1>1, <1>2, <1>3, <1>4, <1>5, <1>6, <1>7, <1>8, <1>9, <1>10, <1>11, <1>12, <1>13, <1>14, <1>15, <1>16, <1>17,
        <1>18, <1>19, <1>20, <1>21, <1>22, <1>23, <1>24, <1>25, <1>26, <1>27, <1>28, <1>29, <1>30, <1>31, <1>32,
        <1>33, <1>34, <1>35, <1>36, <1>37, <1>38, <1>39, <1>40, <1>41, <1>42, <1>43, <1>44, <1>45, <1>46, <1>47,
        <1>48, <1>49, <1>50, <1>51
        DEF Moves, OwnerStep, RequestStep, PrepareStep, StartStep, EndStep, CollectStep, CommandStep, AskStep, AnswerStep, SendStep

\* What is accepted stays what was checked.
LEMMA AcceptedAsCheckedKept ==
    ASSUME DbOK, CtlOK, WorldOK, CollectedOnce, RunsOnce, AskedOnce, SentOnce, AcceptedAsChecked,
           Moves
    PROVE  AcceptedAsChecked'
<1>a. CASE Accept
    BY <1>a, AcceptKept
<1> USE DEF DbOK, CtlOK, WorldOK, At, Go, Return, Quiet, AcceptedAsChecked, Effects
<1>1. CASE Approve
    BY <1>1 DEF Approve
<1>2. CASE Activate
    BY <1>2 DEF Activate
<1>3. CASE Stop
    BY <1>3 DEF Stop
<1>4. CASE Request \/ SaveRevision
    BY <1>4 DEF Request, SaveRevision
<1>5. CASE Claim
    BY <1>5 DEF Claim
<1>6. CASE Prepared \/ MakeObjects
    BY <1>6 DEF Prepared, MakeObjects
<1>7. CASE AskForSource \/ CopyObjects \/ Materialize
    BY <1>7 DEF AskForSource, CopyObjects, Materialize
<1>8. CASE StorePrepared
    BY <1>8 DEF StorePrepared
<1>9. CASE AdmitPrepared
    BY <1>9 DEF AdmitPrepared
<1>10. CASE StartPull
    BY <1>10 DEF StartPull
<1>11. CASE StartManaged
    BY <1>11 DEF StartManaged
<1>12. CASE BeginAttempt
    BY <1>12 DEF BeginAttempt
<1>13. CASE DispatchTurn
    BY <1>13 DEF DispatchTurn
<1>14. CASE ObserveTurn
    BY <1>14 DEF ObserveTurn
<1>15. CASE StoreReceipt
    BY <1>15 DEF StoreReceipt
<1>16. CASE Finish
    BY <1>16 DEF Finish
<1>17. CASE Witness
    BY <1>17 DEF Witness
<1>18. CASE StopManaged
    BY <1>18 DEF StopManaged
<1>19. CASE Quiesce
    BY <1>19 DEF Quiesce
<1>20. CASE Reconcile
    BY <1>20 DEF Reconcile
<1>21. CASE ConnectionMoved
    BY <1>21 DEF ConnectionMoved
<1>22. CASE CollectStep
    BY <1>22 DEF CollectStep, CollectRetained, Collect, StorePatch, StoreCandidate, CollectedOnce, SentOnce,
        Collecting, Reporting, Checking, Reviewing
<1>23. CASE CheckStep
    BY <1>23 DEF CheckStep, FinishAttempt, ReservePure, RunPure, Commands, ReserveRun, DispatchRun
<1>24. CASE BindOwner \/ Run
    BY <1>24 DEF BindOwner, Run, CollectedOnce, RunsOnce, AskedOnce, Collecting, Reporting, Checking, Reviewing
<1>25. CASE StoreResult
    BY <1>25 DEF StoreResult, CollectedOnce, RunsOnce, AskedOnce, Collecting, Reporting, Checking, Reviewing
<1>26. CASE SettleRun \/ StoreEvidence
    BY <1>26 DEF SettleRun, StoreEvidence
<1>27. CASE DispatchReview \/ OpenSession
    BY <1>27 DEF DispatchReview, OpenSession
<1>28. CASE Ask
    BY <1>28 DEF Ask, CollectedOnce, RunsOnce, AskedOnce, Collecting, Reporting, Checking, Reviewing
<1>29. CASE Reply
    BY <1>29 DEF Reply, CollectedOnce, RunsOnce, AskedOnce, Collecting, Reporting, Checking, Reviewing
<1>30. CASE ReviewUnknown
    BY <1>30 DEF ReviewUnknown
<1>31. CASE Lookup
    BY <1>31 DEF Lookup, CollectedOnce, RunsOnce, AskedOnce, Collecting, Reporting, Checking, Reviewing
<1>32. CASE ObserveReview
    BY <1>32 DEF ObserveReview
<1>33. CASE Outcome
    BY <1>33 DEF Outcome
<1>34. CASE Reject \/ Current
    BY <1>34 DEF Reject, Current
<1>35. CASE AuthorizeStep
    BY <1>35 DEF AuthorizeStep, Publication, Topic, AuthorizePublication, DispatchPublication
<1>36. CASE SendStep
    BY <1>36 DEF SendStep, SendOrRead, Readback, ObservePublication, SettlePublication
<1>37. CASE FailStep
    BY <1>37 DEF FailStep, Abandon, Crash
<1>38. CASE Reported
    BY <1>38 DEF Reported
<1>39. CASE ReviewBegun
    BY <1>39 DEF ReviewBegun
<1>40. CASE CommandEnded
    BY <1>40 DEF CommandEnded
<1>41. CASE EffectSent
    BY <1>41, AppendToEmpty, SingleIsSome DEF EffectSent, Accepted, SentOnce
<1>42. CASE WorldMoved
    BY <1>42 DEF WorldMoved
<1>43. CASE Still
    BY <1>43 DEF Still
<1> HIDE DEF DbOK, CtlOK, WorldOK, At, Go, Return, Quiet, AcceptedAsChecked, Effects
<1> QED
    BY <1>a, <1>1, <1>2, <1>3, <1>4, <1>5, <1>6, <1>7, <1>8, <1>9, <1>10, <1>11, <1>12, <1>13, <1>14, <1>15, <1>16,
        <1>17, <1>18, <1>19, <1>20, <1>21, <1>22, <1>23, <1>24, <1>25, <1>26, <1>27, <1>28, <1>29, <1>30, <1>31,
        <1>32, <1>33, <1>34, <1>35, <1>36, <1>37, <1>38, <1>39, <1>40, <1>41, <1>42, <1>43
        DEF Moves, OwnerStep, RequestStep, PrepareStep, StartStep, EndStep, CommandStep, AskStep, AnswerStep, DecideStep

\* What a step may not start or send.
Unstarted ==
    /\ world'.turns = world.turns /\ world'.ran = world.ran /\ world'.asked = world.asked
    /\ world'.pr = world.pr /\ world'.comment = world.comment

\* Nothing starts and nothing is sent once the owner has stopped the Program.
LEMMA StoppedKept ==
    ASSUME DbOK, CtlOK, WorldOK, db.revoked,
           Moves
    PROVE  Unstarted
<1> USE DEF DbOK, CtlOK, WorldOK, Unstarted
<1>1. CASE OwnerStep
    BY <1>1 DEF OwnerStep, Approve, Activate, Stop
<1>2. CASE RequestStep
    BY <1>2 DEF RequestStep, Request, SaveRevision, Claim, Prepared, MakeObjects
<1>3. CASE PrepareStep
    BY <1>3 DEF PrepareStep, AskForSource, CopyObjects, Materialize, StorePrepared, AdmitPrepared
<1>4. CASE StartStep
    BY <1>4 DEF StartStep, StartPull, StartManaged, BeginAttempt, DispatchTurn, ObserveTurn, StoreReceipt,
        ClaimLive, ClaimKept
<1>5. CASE EndStep
    BY <1>5 DEF EndStep, Finish, Witness, StopManaged, Quiesce, Reconcile
<1>6. CASE CollectStep
    BY <1>6 DEF CollectStep, CollectRetained, Collect, StorePatch, StoreCandidate
<1>7. CASE CheckStep
    BY <1>7 DEF CheckStep, FinishAttempt, ReservePure, RunPure, Commands, ReserveRun, DispatchRun
<1>8. CASE CommandStep
    BY <1>8 DEF CommandStep, BindOwner, Run, StoreResult, SettleRun, StoreEvidence, ClaimLive, ClaimKept
<1>9. CASE AskStep
    BY <1>9 DEF AskStep, DispatchReview, OpenSession, Ask, Reply, MayCall, ClaimLive, ClaimKept
<1>10. CASE AnswerStep
    BY <1>10 DEF AnswerStep, ReviewUnknown, Lookup, ObserveReview, Outcome
<1>11. CASE DecideStep
    BY <1>11 DEF DecideStep, Reject, Current, Accept
<1>12. CASE AuthorizeStep
    BY <1>12 DEF AuthorizeStep, Publication, Topic, AuthorizePublication, DispatchPublication
<1>13. CASE SendStep
    BY <1>13 DEF SendStep, SendOrRead, Readback, ObservePublication, SettlePublication
<1>14. CASE FailStep
    BY <1>14 DEF FailStep, Abandon, Crash
<1>15. CASE Reported
    BY <1>15 DEF Reported
<1>16. CASE ReviewBegun
    BY <1>16 DEF ReviewBegun
<1>17. CASE CommandEnded
    BY <1>17 DEF CommandEnded
<1>18. CASE EffectSent
    BY <1>18 DEF EffectSent, Effects
<1>19. CASE WorldMoved
    BY <1>19 DEF WorldMoved
<1>20. CASE Still
    BY <1>20 DEF Still
<1>21. CASE ConnectionMoved
    BY <1>21 DEF ConnectionMoved
<1> HIDE DEF DbOK, CtlOK, WorldOK, Unstarted
<1> QED
    BY <1>1, <1>2, <1>3, <1>4, <1>5, <1>6, <1>7, <1>8, <1>9, <1>10, <1>11, <1>12, <1>13, <1>14, <1>15, <1>16, <1>17,
        <1>18, <1>19, <1>20, <1>21
        DEF Moves

-----------------------------------------------------------------------------
(* The theorems. *)

\* The invariant holds at the start,
LEMMA OrdinaryStart == Init => OrdinaryInv
<1> SUFFICES ASSUME Init PROVE OrdinaryInv
    OBVIOUS
<1> USE FirstRun DEF Init, Quiet, NoHost
<1>1. DbOK /\ CtlOK
    BY DEF DbOK, CtlOK, Effects
<1>2. WorldOK /\ DOMAIN host = {"conn", "handle"}
    BY DEF WorldOK, Contents, Bytes
<1>3. ClaimedOnce /\ ConnectionTrue
    BY DEF ClaimedOnce, ConnectionTrue, SettledIsQuiet, At
<1>4. CollectedOnce
    BY DEF CollectedOnce, Collecting, Reporting, Checking, Reviewing, At
<1>5. RunsOnce
    <2>1. /\ ctl.pc = "idle" /\ db.evidence = None /\ db.run = [i \in Runs |-> "none"]
          /\ db.result = [i \in Runs |-> None] /\ world.ran = [i \in Runs |-> << >>]
        OBVIOUS
    <2>2. \A i \in Runs : world.ran[i] = << >> /\ db.result[i] = None
        BY <2>1
    <2> QED
        BY <2>1, <2>2, NoneIsNoPass DEF RunsOnce, Checking, Reviewing, At
<1>6. AskedOnce
    BY DEF AskedOnce, At
<1>7. SentOnce /\ AcceptedAsChecked
    BY DEF SentOnce, AcceptedAsChecked, Effects, At
<1>8. CacheInv
    BY CacheStart
<1> QED
    BY <1>1, <1>2, <1>3, <1>4, <1>5, <1>6, <1>7, <1>8, Zenon DEF OrdinaryInv, OrdinaryTypeOK

\* and every step keeps it.
LEMMA OrdinaryStep == ASSUME OrdinaryInv, [Next]_vars PROVE OrdinaryInv'
<1>1. /\ OrdinaryTypeOK /\ DbOK /\ CtlOK /\ WorldOK /\ DOMAIN host = {"conn", "handle"}
      /\ ClaimedOnce /\ CollectedOnce /\ RunsOnce /\ AskedOnce /\ SentOnce
      /\ AcceptedAsChecked /\ ConnectionTrue /\ CacheInv
    BY Zenon DEF OrdinaryInv, OrdinaryTypeOK
<1>2. Moves
    BY <1>1, StepMoves
<1>3. DbOK' /\ CtlOK' /\ WorldOK' /\ DOMAIN host' = {"conn", "handle"}
    BY <1>1, <1>2, DbKept, CtlKept, WorldKept, HostKept
<1>4. ClaimedOnce' /\ ConnectionTrue'
    BY <1>1, <1>2, ClaimedOnceKept, ConnectionTrueKept
<1>5. CollectedOnce' /\ RunsOnce'
    BY <1>1, <1>2, CollectedOnceKept, RunsOnceKept
<1>6. AskedOnce' /\ SentOnce' /\ AcceptedAsChecked'
    BY <1>1, <1>2, AskedOnceKept, SentOnceKept, AcceptedAsCheckedKept
<1>7. CacheInv'
    BY <1>1, CacheOfStep, CacheKept
<1> QED
    BY <1>3, <1>4, <1>5, <1>6, <1>7, Zenon DEF OrdinaryInv, OrdinaryTypeOK

\* The inductive invariant of a unit of an ordinary Program.  (ports/ordinary.py, with
\* ordinary_workspace.py, ordinary_managed.py, ordinary_sync.py and kilo_review.py.)
THEOREM OrdinaryInvariant == Spec => []OrdinaryInv
<1>1. Init => OrdinaryInv
    BY OrdinaryStart
<1>2. OrdinaryInv /\ [Next]_vars => OrdinaryInv'
    BY OrdinaryStep
<1> QED
    BY <1>1, <1>2, PTL DEF Spec

\* Whatever is retried after lost answers, exceptions and crashes, there is one turn, one run
\* of each command, one prompt, one pull request and one comment.  (start(), check(),
\* dispatch_product_review(), publish().)
THEOREM OrdinaryEffectsHappenOnce == Spec => []EffectsOnce
<1>1. OrdinaryInv => EffectsOnce
    <2> SUFFICES ASSUME OrdinaryInv PROVE EffectsOnce
        OBVIOUS
    <2>1. Len(<< >>) <= 1 /\ \A x : Len(<<x>>) <= 1
        OBVIOUS
    <2>2. world.turns <= 1
        BY DEF OrdinaryInv, ClaimedOnce
    <2>3. Len(world.asked) <= 1
        BY <2>1, Zenon DEF OrdinaryInv, AskedOnce
    <2>4. \A i \in Runs : Len(world.ran[i]) <= 1
        BY <2>1, Zenon DEF OrdinaryInv, RunsOnce
    <2>5. Len(world.pr) <= 1 /\ Len(world.comment) <= 1
        BY <2>1, Zenon DEF OrdinaryInv, AcceptedAsChecked, Effects
    <2> QED
        BY <2>2, <2>3, <2>4, <2>5, Zenon DEF EffectsOnce
<1> QED
    BY <1>1, OrdinaryInvariant, PTL

\* The accepted content is the submitted and collected one; each command ran on it and passed,
\* the reviewer was asked about it and approved, and what is published is this content.
\* (report(), collect(), check(), publish().)
THEOREM OrdinaryAcceptanceIsChecked == Spec => []AcceptedAsChecked
<1>1. OrdinaryInv => AcceptedAsChecked
    BY Zenon DEF OrdinaryInv
<1> QED
    BY <1>1, OrdinaryInvariant, PTL

\* If the wait after SIGKILL returns in time, a managed claim that counts as settled has no
\* live process group, however often its connection was closed.  (witness(), finish(), stop(),
\* _close_unlocked().)
THEOREM OrdinarySettlementIsQuiet == ~KillMayHang => (Spec => []SettledIsQuiet)
<1> SUFFICES ASSUME ~KillMayHang PROVE Spec => []SettledIsQuiet
    OBVIOUS
<1>1. OrdinaryInv => SettledIsQuiet
    BY Zenon DEF OrdinaryInv, ConnectionTrue
<1> QED
    BY <1>1, OrdinaryInvariant, PTL

\* After the owner's stop no step starts or sends anything, whichever call the stop came into.
\* (stop_ordinary_program(), check_operation_delivery().)
THEOREM OrdinaryStopIsSilent == Spec => SilentAfterStop
<1>1. OrdinaryInv /\ [Next]_vars => [db.revoked => Unstarted]_vars
    <2> SUFFICES ASSUME OrdinaryInv, [Next]_vars, db.revoked PROVE Unstarted
        OBVIOUS
    <2>1. OrdinaryTypeOK /\ DbOK /\ CtlOK /\ WorldOK
        BY Zenon DEF OrdinaryInv, OrdinaryTypeOK
    <2>2. Moves
        BY <2>1, StepMoves
    <2> QED
        BY <2>1, <2>2, StoppedKept
<1> QED
    BY <1>1, OrdinaryInvariant, PTL DEF Spec, SilentAfterStop, Unstarted
=============================================================================
