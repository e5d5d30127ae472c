------------------------------ MODULE GitStore ------------------------------
(***************************************************************************)
(* The Git fact store with a remote (src/storage/git-store.ts) and the     *)
(* recovery of an invalid tail (src/storage/git-authority-recovery.ts).    *)
(* Every client has a clone; the authority is one ref of the remote, moved *)
(* by a push with a lease.  A commit is named by the chain of commits that *)
(* ends in it, as its hash covers its parent.                              *)
(***************************************************************************)
EXTENDS SequencesExt, Naturals

CONSTANTS
    Clients,
    Commits,      \* [id, files, notReady, done]: the files of a commit, and
                  \* whether it claims work that is not ready or is DONE
    MaxCommits    \* bound on the length of the authority

VARIABLES
    remote,   \* the chain the remote's ref names
    objects,  \* the commits in each client's clone
    ref,      \* the local ref of each clone
    pc,
    listed,   \* what ls-remote printed
    known,    \* what head() returned
    next,     \* the commit cas is to install
    outcome   \* how the last append ended

vars == <<remote, objects, ref, pc, listed, known, next, outcome>>

None == [phase |-> "none"]
Null == [phase |-> "null"]
Appended(commit) == [phase |-> "appended", commit |-> commit]

\* A commit and its ancestors, which a fetch transfers
Reachable(chain) == {SubSeq(chain, 1, n) : n \in 1 .. Len(chain)}

Init ==
    /\ remote = << >>
    /\ objects = [c \in Clients |-> {}]
    /\ ref = [c \in Clients |-> << >>]
    /\ pc = [c \in Clients |-> "idle"]
    /\ listed = [c \in Clients |-> << >>]
    /\ known = [c \in Clients |-> << >>]
    /\ next = [c \in Clients |-> << >>]
    /\ outcome = [c \in Clients |-> None]

Goto(c, there) == pc' = [pc EXCEPT ![c] = there]
SetRef(c, chain) == ref' = [ref EXCEPT ![c] = chain]

-----------------------------------------------------------------------------
(* head                                                                    *)

\* git ls-remote: no line means no authority yet
ListRemote(c) ==
    /\ pc[c] = "idle"
    /\ listed' = [listed EXCEPT ![c] = remote]
    /\ IF remote = << >>
       THEN known' = [known EXCEPT ![c] = << >>] /\ SetRef(c, << >>) /\ UNCHANGED pc
       ELSE Goto(c, "listed") /\ UNCHANGED <<known, ref>>
    /\ UNCHANGED <<remote, objects, next, outcome>>

\* Mutant: only the tip is fetched.
FetchedTip(chain) == {chain}

FetchedObjects(chain) == Reachable(chain)

\* git fetch +ref:ref; the remote may have moved since ls-remote
Fetch(c) ==
    /\ pc[c] = "listed"
    /\ remote # << >>
    /\ objects' = [objects EXCEPT ![c] = @ \cup FetchedObjects(remote)]
    /\ SetRef(c, remote)
    /\ known' = [known EXCEPT ![c] = listed[c]]
    /\ Goto(c, "idle")
    /\ UNCHANGED <<remote, listed, next, outcome>>

\* AUTHORITY_UNREACHABLE
FetchFails(c) ==
    /\ pc[c] = "listed"
    /\ Goto(c, "idle")
    /\ UNCHANGED <<remote, objects, ref, listed, known, next, outcome>>

-----------------------------------------------------------------------------
(* history                                                                 *)

HistoryPaths ==
    {"graph-patch.json", "claim.json", "source-revision.json", "execution-authority.json",
     "effect-reservation.json", "receipt.json"}

FactPaths == HistoryPaths \cup {"effect-release.json"}

\* The files of a commit that history reads back
ReadFiles(commit) == {path \in HistoryPaths : path \in commit.files}

\* replayProjection(store.history(head)) does not throw.  Replay refuses a
\* claim of work that is not ready, and a release whose fact is not read back.
Replays(chain) ==
    \A n \in 1 .. Len(chain) :
        /\ ~chain[n].notReady
        /\ {"effect-release.json"} \cap chain[n].files \subseteq ReadFiles(chain[n])

-----------------------------------------------------------------------------
(* append                                                                  *)

\* The kernel replayed the head it appends to; commit-tree needs its parent,
\* and makes a commit that no clone has yet.
CreateCommit(c, commit) ==
    /\ pc[c] = "idle"
    /\ \A d \in Clients : \A chain \in objects[d] : commit # Last(chain)
    /\ Len(known[c]) < MaxCommits
    /\ known[c] = << >> \/ known[c] \in objects[c]
    /\ Replays(known[c])
    /\ next' = [next EXCEPT ![c] = Append(known[c], commit)]
    /\ objects' = [objects EXCEPT ![c] = @ \cup {next'[c]}]
    /\ outcome' = [outcome EXCEPT ![c] = None]
    /\ Goto(c, "pushing")
    /\ UNCHANGED <<remote, ref, listed, known>>

\* Mutant: push --force without a lease.
ForcePush(expected) == TRUE

\* --force-with-lease=ref:expected, which the remote compares
LeaseHolds(expected) == remote = expected

\* What cas does to the ref of the remote, for append and for recovery
Push(c, from, to) ==
    /\ pc[c] = from
    /\ LeaseHolds(known[c])
    /\ remote' = next[c]
    /\ Goto(c, to)
    /\ UNCHANGED <<objects, ref, listed, known, next, outcome>>

PushAppend(c) == Push(c, "pushing", "pushed")

\* The lease does not hold, or git push failed before or after the remote
\* moved its ref: append returns null either way.
PushNotOk(c) ==
    /\ \/ pc[c] = "pushing"
       \/ pc[c] = "pushed"
    /\ outcome' = [outcome EXCEPT ![c] = Null]
    /\ Goto(c, "idle")
    /\ UNCHANGED <<remote, objects, ref, listed, known, next>>

\* update-ref of the clone, without an expected value
UpdateRef(c) ==
    /\ pc[c] = "pushed"
    /\ SetRef(c, next[c])
    /\ outcome' = [outcome EXCEPT ![c] = Appended(next[c])]
    /\ Goto(c, "idle")
    /\ UNCHANGED <<remote, objects, listed, known, next>>

-----------------------------------------------------------------------------
(* recoverInvalidDoneClaimTail                                             *)

\* Mutant: any tail that replay refuses is dropped, whatever else it holds.
AnyTail(tail) == tail.notReady /\ tail.done

\* CLAIM_WHILE_NOT_READY, and nothing but the claim and its revision
RecoverableTail(tail) ==
    /\ tail.notReady
    /\ tail.done
    /\ "claim.json" \in tail.files
    /\ FactPaths \cap tail.files \subseteq {"claim.json", "source-revision.json"}

BeginRecovery(c) ==
    /\ pc[c] = "idle"
    /\ Len(known[c]) > 1
    /\ known[c] \in objects[c]
    /\ Replays(Front(known[c]))
    /\ RecoverableTail(Last(known[c]))
    /\ next' = [next EXCEPT ![c] = Front(known[c])]
    /\ outcome' = [outcome EXCEPT ![c] = None]
    /\ Goto(c, "recovering")
    /\ UNCHANGED <<remote, objects, ref, listed, known>>

PushRecovery(c) == Push(c, "recovering", "recovered")

\* AUTHORITY_RECOVERY_CAS_CONFLICT, or the recovery returned
EndRecovery(c) ==
    /\ pc[c] \in {"recovering", "recovered"}
    /\ ref' = IF pc[c] = "recovered" THEN [ref EXCEPT ![c] = next[c]] ELSE ref
    /\ Goto(c, "idle")
    /\ UNCHANGED <<remote, objects, listed, known, next, outcome>>

\* The process dies; its clone stays.
Crash(c) ==
    /\ \/ pc[c] # "idle"
       \/ known[c] # << >>
    /\ Goto(c, "idle")
    /\ known' = [known EXCEPT ![c] = << >>]
    /\ outcome' = [outcome EXCEPT ![c] = None]
    /\ UNCHANGED <<remote, objects, ref, listed, next>>

Next ==
    \E c \in Clients :
        \/ ListRemote(c) \/ Fetch(c) \/ FetchFails(c)
        \/ \E commit \in Commits : CreateCommit(c, commit)
        \/ PushAppend(c) \/ PushNotOk(c) \/ UpdateRef(c)
        \/ BeginRecovery(c) \/ PushRecovery(c) \/ EndRecovery(c)
        \/ Crash(c)

Spec == Init /\ [][Next]_vars

-----------------------------------------------------------------------------
(* Properties                                                              *)

Chains == UNION {[1 .. n -> Commits] : n \in 0 .. MaxCommits}

\* The type invariant: in particular a clone holds the ancestors of every
\* commit it holds, so that rev-list can walk them.
TypeOK ==
    /\ remote \in Chains
    /\ \A c \in Clients :
          /\ objects[c] \subseteq Chains
          /\ \A chain \in objects[c] : Reachable(chain) \subseteq objects[c]
          /\ {ref[c], listed[c], known[c], next[c]} \subseteq Chains
          /\ pc[c] \in {"idle", "listed", "pushing", "pushed", "recovering", "recovered"}
          /\ outcome[c].phase \in {"none", "null", "appended"}

\* A claim that never took effect: replay refuses it wherever it stands.
IsInvalidClaim(commit) ==
    commit.notReady /\ commit.files \subseteq {"claim.json", "source-revision.json"}

\* The authority moves by one commit at a time, and only a tail that holds
\* nothing but a refused claim is ever taken back: no reservation, release
\* or receipt is lost, however pushes and recoveries of clones interleave.
AuthorityOnlyGrows ==
    [][\/ \E commit \in Commits : remote' = Append(remote, commit)
       \/ remote # << >> /\ remote' = Front(remote) /\ IsInvalidClaim(Last(remote))]_remote

\* A commit append returned stays in the authority, unless it was such a
\* claim.
AcknowledgedCommitStays ==
    \A c \in Clients :
        outcome[c].phase = "appended" =>
            \/ IsPrefix(outcome[c].commit, remote)
            \/ IsInvalidClaim(Last(outcome[c].commit))

\* A head that head() returned can be read from the clone, although the
\* remote may move between ls-remote and fetch, or was taken back.
KnownHeadReadable ==
    \A c \in Clients :
        known[c] # << >> /\ IsPrefix(known[c], remote) => known[c] \in objects[c]

\* history gives back the facts that were appended, as the store of facts
\* every replay starts from.
HistoryReturnsFacts ==
    \A c \in Clients : \A n \in 1 .. Len(known[c]) :
        ReadFiles(known[c][n]) = known[c][n].files
=============================================================================
