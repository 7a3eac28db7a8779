---------------------------- MODULE SourceCache ----------------------------
(***************************************************************************)
(* The cache of source checkouts, adapters/source_cache.py, for one        *)
(* repository.  Processes acquire the checkout (clone it, or refresh the   *)
(* one that is there) and lease it for reading.  They exclude each other   *)
(* by a lock on one file that is never unlinked; the same file names the   *)
(* acquisition the checkout must match.  A process may be killed at any    *)
(* step.  The Git process it had started keeps running, and keeps the      *)
(* lock, whose descriptor it inherited.                                    *)
(***************************************************************************)
EXTENDS Naturals

CONSTANTS
    Users,      \* processes that use the cache
    MaxTokens,  \* bound: clones that are ever marked
    Nothing

ASSUME CacheAssumption ==
    /\ MaxTokens \in Nat \ {0}
    /\ Nothing \notin Users \cup 0..MaxTokens /\ Nothing \notin [by : Users, does : {"fetch", "clone"}]

VARIABLES
    lockFile,   \* the lock file: absent, empty, torn or written, and what it names
    locked,     \* the user whose open file description has the lock
    step,       \* step[u]: where u is in _lock(), acquire_source() or source_use()
    stage,      \* stage[u]: its staging directory: the token of its marker
    checkout,   \* the published checkout: [token, whole]
    git,        \* the user whose Git process runs, and what it does
    tokens      \* tokens drawn so far; 0 is the acquisition of a new lock file

cacheVars == <<lockFile, locked, step, stage, checkout, git, tokens>>

CacheInit ==
    /\ lockFile = [is |-> "absent", names |-> 0] /\ locked = Nothing
    /\ step = [u \in Users |-> "out"] /\ stage = [u \in Users |-> Nothing]
    /\ checkout = Nothing /\ git = Nothing /\ tokens = 0

Move(u, s) == step' = [step EXCEPT ![u] = s]

\* A lock file is read as JSON with the identity of the lock and of the root.
Legible == lockFile.is = "written"
Written(token) == [is |-> "written", names |-> token]

\* _owned(): the marker inside the checkout is the recorded acquisition.
Owned(c) == c # Nothing /\ lockFile = Written(c.token)

\* The descriptor is closed, which ends the lock; no file is unlinked.
Release(u) == Move(u, "out") /\ locked' = Nothing

-----------------------------------------------------------------------------
(* _lock() *)

\* O_CREAT | O_EXCL for acquire_source(); source_use() takes an existing file.
OpenToAcquire(u) ==
    /\ step[u] = "out"
    /\ lockFile' = IF lockFile.is = "absent" THEN [lockFile EXCEPT !.is = "empty"] ELSE lockFile
    /\ Move(u, IF lockFile.is = "absent" THEN "created" ELSE "opened")
    /\ UNCHANGED <<locked, stage, checkout, git, tokens>>

OpenToUse(u) ==
    /\ step[u] = "out" /\ lockFile.is # "absent"
    /\ Move(u, "leasing")
    /\ UNCHANGED <<lockFile, locked, stage, checkout, git, tokens>>

\* LOCK_TIMEOUT_SECONDS pass, or the lock file is refused.
GiveUp(u) ==
    /\ step[u] \in {"created", "opened", "leasing"}
    /\ locked # Nothing \/ (step[u] = "created" /\ checkout # Nothing)
                        \/ (step[u] # "created" /\ ~Legible)
    /\ Move(u, "out")
    /\ UNCHANGED <<lockFile, locked, stage, checkout, git, tokens>>

\* The creator of the file writes it; all others must be able to read it.
Lock(u) ==
    /\ locked = Nothing
    /\ \/ step[u] = "created" /\ checkout = Nothing /\ lockFile' = Written(0) /\ Move(u, "locked")
       \/ step[u] = "opened" /\ Legible /\ UNCHANGED lockFile /\ Move(u, "locked")
       \/ step[u] = "leasing" /\ Owned(checkout) /\ UNCHANGED lockFile /\ Move(u, "using")
    /\ locked' = u
    /\ UNCHANGED <<stage, checkout, git, tokens>>

\* The checkout that a lease is asked for does not belong to the cache.
RefuseLease(u) ==
    /\ step[u] = "leasing" /\ locked = Nothing /\ Legible /\ ~Owned(checkout)
    /\ Move(u, "out")
    /\ UNCHANGED <<lockFile, locked, stage, checkout, git, tokens>>

-----------------------------------------------------------------------------
(* acquire_source(), under the lock *)

\* An owned checkout is refreshed; Git changes it while it runs.
Fetch(u) ==
    /\ step[u] = "locked" /\ Owned(checkout)
    /\ git' = [by |-> u, does |-> "fetch"] /\ Move(u, "git")
    /\ checkout' = [checkout EXCEPT !.whole = FALSE]
    /\ UNCHANGED <<lockFile, locked, stage, tokens>>

\* Nothing is published: clone into a new staging directory.
Clone(u) ==
    /\ step[u] = "locked" /\ checkout = Nothing
    /\ git' = [by |-> u, does |-> "clone"] /\ Move(u, "git")
    /\ UNCHANGED <<lockFile, locked, stage, checkout, tokens>>

\* A checkout that is not owned is refused; so is one that fails its validation.
RefuseCheckout(u) ==
    /\ step[u] = "locked" /\ checkout # Nothing
    /\ Release(u)
    /\ UNCHANGED <<lockFile, stage, checkout, git, tokens>>

\* Git ends.  Its user, if it is still there, goes on or fails.
GitEnds ==
    /\ git # Nothing
    /\ git' = Nothing
    /\ checkout' = IF git.does = "fetch" THEN [checkout EXCEPT !.whole = TRUE] ELSE checkout
    /\ IF step[git.by] # "git" THEN locked' = Nothing /\ UNCHANGED step
       ELSE \/ Release(git.by)
            \/ git.does = "clone" /\ Move(git.by, "cloned") /\ UNCHANGED locked
    /\ UNCHANGED <<lockFile, stage, tokens>>

\* The marker, with a token of its own, is written into the staging directory.
Mark(u) ==
    /\ step[u] = "cloned" /\ tokens < MaxTokens
    /\ tokens' = tokens + 1
    /\ stage' = [stage EXCEPT ![u] = tokens']
    /\ Move(u, "marked")
    /\ UNCHANGED <<lockFile, locked, checkout, git>>

\* _record_acquisition() overwrites the lock file in place.
RecordAcquisition(u) ==
    /\ step[u] = "marked"
    /\ lockFile' = Written(stage[u])
    /\ Move(u, "recorded")
    /\ UNCHANGED <<locked, stage, checkout, git, tokens>>

\* Mutant: the checkout is put in place before it is recorded.
PublishFirst(u) ==
    /\ step[u] \in {"marked", "recorded"}
    /\ checkout' = [token |-> stage[u], whole |-> TRUE]
    /\ stage' = [stage EXCEPT ![u] = Nothing]
    /\ Release(u)
    /\ UNCHANGED <<lockFile, git, tokens>>

\* _publish(): a rename that replaces nothing.
Publish(u) ==
    /\ step[u] = "recorded" /\ checkout = Nothing
    /\ checkout' = [token |-> stage[u], whole |-> TRUE]
    /\ stage' = [stage EXCEPT ![u] = Nothing]
    /\ Release(u)
    /\ UNCHANGED <<lockFile, git, tokens>>

\* A lease ends.
EndUse(u) ==
    /\ step[u] = "using"
    /\ Release(u)
    /\ UNCHANGED <<lockFile, stage, checkout, git, tokens>>

\* u is killed, or gives up after an error.  In the middle of the write of the
\* acquisition the file is torn.  A Git process of u goes on, and holds the lock.
Kill(u) ==
    /\ Move(u, "out")
    /\ stage' = [stage EXCEPT ![u] = Nothing]
    /\ locked' = IF step[u] \in {"locked", "cloned", "marked", "recorded", "using"}
                 THEN Nothing ELSE locked
    /\ lockFile' \in {lockFile} \cup IF step[u] = "marked" THEN {[lockFile EXCEPT !.is = "torn"]} ELSE {}
    /\ UNCHANGED <<checkout, git, tokens>>

Acquire(u) ==
    \/ OpenToAcquire(u) \/ GiveUp(u) \/ Lock(u) \/ RefuseLease(u) \/ Fetch(u) \/ Clone(u)
    \/ RefuseCheckout(u) \/ Mark(u) \/ RecordAcquisition(u) \/ Publish(u)

-----------------------------------------------------------------------------
(* A checkout that can be used is the recorded one, and nobody reads it     *)
(* while Git changes it, also when the user that started Git is gone.       *)
(* (_lock(), acquire_source() and source_use().)                            *)
SourceConsistent ==
    /\ checkout # Nothing => Owned(checkout)
    /\ \A u \in Users : step[u] = "using" => checkout # Nothing /\ checkout.whole

-----------------------------------------------------------------------------
(* The inductive strengthening. *)

Waiting == {"out", "created", "opened", "leasing"}
Holding == {"locked", "git", "cloned", "marked", "recorded", "using"}

\* Who is past _lock() has the lock, a running Git has it for its user, and only a fetch
\* leaves a published checkout that is not whole.
CacheInv ==
    /\ step \in [Users -> Waiting \cup Holding] /\ DOMAIN stage = Users
    /\ lockFile = [is |-> lockFile.is, names |-> lockFile.names]
    /\ \A u \in Users :
        /\ step[u] \in Holding => locked = u
        /\ step[u] = "git" => git # Nothing
        /\ step[u] \in {"cloned", "marked", "recorded"} => checkout = Nothing
        /\ step[u] = "recorded" => lockFile = Written(stage[u])
    /\ git # Nothing => /\ git.by \in Users /\ locked = git.by /\ step[git.by] \in Waiting \cup {"git"}
                        /\ git.does \in {"fetch", "clone"} /\ (git.does = "clone" => checkout = Nothing)
                        /\ git.does = "fetch" => checkout = [token |-> checkout.token, whole |-> checkout.whole]
                                                 /\ lockFile = Written(checkout.token)
    /\ checkout # Nothing => /\ checkout = [token |-> checkout.token, whole |-> checkout.whole]
                             /\ git = Nothing => checkout.whole
    /\ SourceConsistent
=============================================================================
