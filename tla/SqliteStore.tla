---------------------------- MODULE SqliteStore -----------------------------
(***************************************************************************)
(* The SQLite fact store (src/storage/sqlite.ts): several processes open   *)
(* one database, initialize it if it is new, and append in transactions    *)
(* that hold SQLite's single write lock from BEGIN IMMEDIATE on.  A crash   *)
(* or a ROLLBACK discards what a transaction staged.                       *)
(***************************************************************************)
EXTENDS Naturals, Sequences

CONSTANTS
    Clients,
    Facts,
    MaxCommits,   \* bound on the length of the log
    NoClient      \* nobody holds the write lock

ASSUME StoreAssumption == MaxCommits \in Nat /\ NoClient \notin Clients

NoAuthority == [present |-> FALSE, head |-> << >>, sequence |-> 0]
SCHEMA_BUSY_RETRIES == 4

VARIABLES
    authority,  \* the row singleton = 1: [present, head, sequence]
    rows,       \* fact_commits: sequence -> [id, parent, fact]
    writer,     \* holder of the write lock
    pc,         \* where each client is in open or append
    busy,       \* attempts of initializeStorage that found the lock taken
    known,      \* the last head a client read
    request,    \* arguments of append: [expected, fact]
    staged,     \* the row an open transaction inserted
    outcome     \* how the last call of append ended

dbVars == <<authority, rows>>
callVars == <<known, request, staged, outcome>>
vars == <<authority, rows, writer, pc, busy, known, request, staged, outcome>>

NoRequest == [expected |-> << >>, fact |-> "none"]
NoRow == [id |-> << >>, parent |-> << >>, fact |-> "none"]
None == [phase |-> "idle"]
Lost == [phase |-> "refused"]
Threw == [phase |-> "thrown"]
Committed(id) == [phase |-> "returned", result |-> id]

\* canonicalDigest of sequence, parent, message and files.  canonicalJson drops
\* what JSON.stringify drops, so the digest history takes of the files it
\* parses back is the one append took of the files it was given.
CommitId(parent, fact) == Append(parent, fact)

Init ==
    /\ authority = NoAuthority
    /\ rows = << >>
    /\ writer = NoClient
    /\ pc = [c \in Clients |-> "closed"]
    /\ busy = [c \in Clients |-> 0]
    /\ known = [c \in Clients |-> << >>]
    /\ request = [c \in Clients |-> NoRequest]
    /\ staged = [c \in Clients |-> NoRow]
    /\ outcome = [c \in Clients |-> None]

Goto(c, there) == pc' = [pc EXCEPT ![c] = there]
Lock(c) == writer = NoClient /\ writer' = c

\* Mutant: the transaction is left open.
StayLocked == UNCHANGED writer

\* COMMIT or ROLLBACK
Unlock == writer' = NoClient

-----------------------------------------------------------------------------
(* The constructor                                                         *)

storageReady == authority.present

Open(c) ==
    /\ pc[c] = "closed"
    /\ Goto(c, IF storageReady THEN "idle" ELSE "initializing")
    /\ busy' = [busy EXCEPT ![c] = 0]
    /\ UNCHANGED <<dbVars, writer, callVars>>

\* initializeStorage looks again, and then asks for the write lock.
InitializeAttempt(c) ==
    /\ pc[c] = "initializing"
    /\ Goto(c, IF storageReady THEN "idle" ELSE "unready")
    /\ UNCHANGED <<dbVars, writer, busy, callVars>>

\* Whoever held the lock meanwhile may have initialized the database.
LockSchema(c) ==
    /\ pc[c] = "unready"
    /\ Lock(c)
    /\ Goto(c, "creating")
    /\ UNCHANGED <<dbVars, busy, callVars>>

\* Mutant: attempt === SCHEMA_BUSY_RETRIES, one attempt too many.
SchemaBusyOnceMore(c) ==
    /\ pc[c] = "unready"
    /\ \E other \in Clients \ {c} : pc[other] # "closed"
    /\ busy' = [busy EXCEPT ![c] = @ + 1]
    /\ Goto(c, IF busy'[c] > SCHEMA_BUSY_RETRIES THEN "closed" ELSE "initializing")
    /\ UNCHANGED <<dbVars, writer, callVars>>

\* SQLITE_BUSY, from the write lock or from PRAGMA journal_mode = WAL while
\* another connection is open: another attempt, or the constructor throws.
SchemaBusy(c) ==
    /\ pc[c] = "unready"
    /\ \E other \in Clients \ {c} : pc[other] # "closed"
    /\ busy' = [busy EXCEPT ![c] = @ + 1]
    /\ Goto(c, IF busy'[c] = SCHEMA_BUSY_RETRIES THEN "closed" ELSE "initializing")
    /\ UNCHANGED <<dbVars, writer, callVars>>

\* Mutant: INSERT OR REPLACE.
ReplaceAuthorityRow == [present |-> TRUE, head |-> << >>, sequence |-> 0]

\* INSERT OR IGNORE INTO authority
InsertAuthorityRow ==
    IF storageReady THEN authority ELSE [present |-> TRUE, head |-> << >>, sequence |-> 0]

CreateTables(c) ==
    /\ pc[c] = "creating"
    /\ authority' = InsertAuthorityRow
    /\ Unlock
    /\ Goto(c, "idle")
    /\ UNCHANGED <<rows, busy, callVars>>

\* Any other error: ROLLBACK, and the constructor throws.
CreateFails(c) ==
    /\ pc[c] = "creating"
    /\ Unlock
    /\ Goto(c, "closed")
    /\ UNCHANGED <<dbVars, busy, callVars>>

-----------------------------------------------------------------------------
(* head and append                                                         *)

ReadHead(c) ==
    /\ pc[c] = "idle"
    /\ known[c] # authority.head
    /\ known' = [known EXCEPT ![c] = authority.head]
    /\ UNCHANGED <<dbVars, writer, pc, busy, request, staged, outcome>>

\* Control leaves append with a result.
Finish(c, result) ==
    /\ Goto(c, "idle")
    /\ outcome' = [outcome EXCEPT ![c] = result]
    /\ request' = [request EXCEPT ![c] = NoRequest]
    /\ staged' = [staged EXCEPT ![c] = NoRow]
    /\ UNCHANGED <<busy, known>>

BeginAppend(c, fact) ==
    /\ pc[c] = "idle"
    /\ Len(known[c]) < MaxCommits
    /\ request' = [request EXCEPT ![c] = [expected |-> known[c], fact |-> fact]]
    /\ outcome' = [outcome EXCEPT ![c] = None]
    /\ Goto(c, "waiting")
    /\ UNCHANGED <<dbVars, writer, busy, known, staged>>

\* BEGIN IMMEDIATE waits for the write lock, busy_timeout at most.
BeginImmediate(c) ==
    /\ pc[c] = "waiting"
    /\ Lock(c)
    /\ Goto(c, "locked")
    /\ UNCHANGED <<dbVars, busy, callVars>>

\* Mutant: without busy_timeout as a limit, a client waits as long as it takes.
BusyForEver(c) ==
    /\ pc[c] = "waiting"
    /\ writer # NoClient
    /\ UNCHANGED vars

BusyTimeout(c) ==
    /\ pc[c] = "waiting"
    /\ writer # NoClient
    /\ Finish(c, Threw)
    /\ UNCHANGED <<dbVars, writer>>

\* Mutant: the expected head is not compared.
AnyHead(expected) == TRUE

HeadIsExpected(expected) == authority.head = expected

\* authority.head !== expectedHead, or the UPDATE changed no row: ROLLBACK.
Stale(c) ==
    /\ pc[c] \in {"locked", "inserted"}
    /\ ~HeadIsExpected(request[c].expected)
    /\ Unlock
    /\ Finish(c, Lost)
    /\ UNCHANGED dbVars

\* INSERT INTO fact_commits, at the next sequence number
Insert(c) ==
    /\ pc[c] = "locked"
    /\ HeadIsExpected(request[c].expected)
    /\ authority.sequence + 1 \notin DOMAIN rows
    /\ staged' = [staged EXCEPT ![c] =
          [id |-> CommitId(request[c].expected, request[c].fact),
           parent |-> request[c].expected, fact |-> request[c].fact]]
    /\ Goto(c, "inserted")
    /\ UNCHANGED <<dbVars, writer, busy, known, request, outcome>>

\* UPDATE authority ... WHERE sequence = ? AND head = ?, and COMMIT.  The
\* row and the head become durable together.
Commit(c) ==
    /\ pc[c] = "inserted"
    /\ HeadIsExpected(request[c].expected)
    /\ authority' = [present |-> TRUE, head |-> staged[c].id, sequence |-> authority.sequence + 1]
    /\ rows' = [n \in DOMAIN rows \cup {authority.sequence + 1} |->
          IF n = authority.sequence + 1 THEN staged[c] ELSE rows[n]]
    /\ Unlock
    /\ Goto(c, "committed")
    /\ UNCHANGED <<busy, callVars>>

\* Any statement throws: ROLLBACK.
Rollback(c) ==
    /\ pc[c] \in {"locked", "inserted"}
    /\ Unlock
    /\ Finish(c, Threw)
    /\ UNCHANGED dbVars

ReturnCommit(c) ==
    /\ pc[c] = "committed"
    /\ Finish(c, Committed(staged[c].id))
    /\ UNCHANGED <<dbVars, writer>>

\* history(head) returns the facts head names and does not throw: no unknown
\* head, sequence gap, parent mismatch or digest mismatch.
Reads(head) ==
    \E n \in DOMAIN rows :
        /\ rows[n].id = head
        /\ \A i \in 1 .. n :
              /\ i \in DOMAIN rows
              /\ rows[i].parent = IF i = 1 THEN << >> ELSE rows[i - 1].id
              /\ rows[i].id = CommitId(rows[i].parent, rows[i].fact)
              /\ rows[i].fact = head[i]

\* The process dies; SQLite discards what it staged and frees its lock.
Crash(c) ==
    /\ pc[c] # "closed"
    /\ Goto(c, "closed")
    /\ writer' = IF writer = c THEN NoClient ELSE writer
    /\ request' = [request EXCEPT ![c] = NoRequest]
    /\ staged' = [staged EXCEPT ![c] = NoRow]
    /\ outcome' = [outcome EXCEPT ![c] = None]
    /\ known' = [known EXCEPT ![c] = << >>]
    /\ UNCHANGED <<dbVars, busy>>

-----------------------------------------------------------------------------
Running(c) ==
    \/ InitializeAttempt(c) \/ LockSchema(c) \/ SchemaBusy(c) \/ CreateTables(c) \/ CreateFails(c)
    \/ BeginImmediate(c) \/ BusyTimeout(c) \/ Stale(c) \/ Insert(c) \/ Commit(c)
    \/ Rollback(c) \/ ReturnCommit(c)

Next ==
    \E c \in Clients :
        \/ Open(c) \/ ReadHead(c) \/ Crash(c) \/ Running(c)
        \/ \E fact \in Facts : BeginAppend(c, fact)

Spec == Init /\ [][Next]_vars

\* append and the constructor are synchronous: a client that is inside one
\* runs on until it returns, throws or crashes.
FairSpec == Spec /\ \A c \in Clients : WF_vars(Running(c))

-----------------------------------------------------------------------------
(* Properties                                                              *)

Heads == UNION {[1 .. n -> Facts] : n \in 0 .. MaxCommits}
Rows == [id : Heads, parent : Heads, fact : Facts]
Requests == [expected : {head \in Heads : Len(head) < MaxCommits}, fact : Facts]
PCs == {"closed", "initializing", "unready", "creating", "idle", "waiting", "locked",
        "inserted", "committed"}

\* The type invariant.
TypeOK ==
    /\ authority \in [present : BOOLEAN, head : Heads, sequence : 0 .. MaxCommits]
    /\ DOMAIN rows \subseteq 1 .. MaxCommits
    /\ \A n \in DOMAIN rows : rows[n] \in Rows
    /\ writer \in Clients \cup {NoClient}
    /\ pc \in [Clients -> PCs]
    /\ busy \in [Clients -> 0 .. SCHEMA_BUSY_RETRIES]
    /\ known \in [Clients -> Heads]
    /\ request \in [Clients -> Requests \cup {NoRequest}]
    /\ staged \in [Clients -> Rows \cup {NoRow}]
    /\ outcome \in [Clients -> {None, Lost, Threw} \cup {Committed(id) : id \in Heads}]

\* history never throws for a head the store gave out: the rows below it stay
\* a gapless chain, whatever other processes append, roll back or initialize.
KnownHeadsReplay ==
    \A c \in Clients :
        /\ known[c] # << >> => Reads(known[c])
        /\ outcome[c].phase = "returned" => Reads(outcome[c].result)

Calling(c) == pc[c] \in {"waiting", "locked", "inserted"}
InTransaction(c) == pc[c] \in {"creating", "locked", "inserted"}
Tip(n) == IF n = 0 THEN << >> ELSE rows[n].id
OnChain(head) == \E n \in 0 .. authority.sequence : head = Tip(n)

Exclusive == \A c \in Clients : writer = c <=> InTransaction(c)

Staged(c) ==
    /\ authority.head = request[c].expected
    /\ staged[c] = [id |-> CommitId(request[c].expected, request[c].fact),
                    parent |-> request[c].expected, fact |-> request[c].fact]

Transactions ==
    \A c \in Clients :
        /\ pc[c] \in {"initializing", "unready"} => busy[c] < SCHEMA_BUSY_RETRIES
        /\ Calling(c) => request[c] \in Requests
        /\ pc[c] = "inserted" => Staged(c)

Chain ==
    /\ ~authority.present => authority.sequence = 0
    /\ DOMAIN rows = 1 .. authority.sequence
    /\ authority.head = Tip(authority.sequence)
    /\ \A n \in DOMAIN rows :
          /\ rows[n].parent = Tip(n - 1)
          /\ rows[n].id = CommitId(rows[n].parent, rows[n].fact)
          /\ Len(rows[n].id) = n
          /\ \A i \in 1 .. n : rows[n].id[i] = rows[i].fact

Remembered ==
    \A c \in Clients :
        /\ OnChain(known[c])
        /\ pc[c] = "committed" => staged[c].id # << >> /\ OnChain(staged[c].id)
        /\ outcome[c].phase = "returned" =>
              outcome[c].result # << >> /\ OnChain(outcome[c].result)

\* SQLite's write lock is held exactly by the client inside a transaction;
\* what that client read before it inserted its row still holds when it
\* commits; the rows are the chain the head names, one row per sequence
\* number; and every head a client remembers is a point of that chain.
StoreInvariant == TypeOK /\ Exclusive /\ Transactions /\ Chain /\ Remembered

Call(c) ==
    IF Calling(c) THEN [phase |-> "pending", expected |-> request[c].expected,
                        fact |-> request[c].fact]
    ELSE IF pc[c] = "committed" THEN Committed(staged[c].id)
    ELSE outcome[c]

Calls == [c \in Clients |-> Call(c)]

Contract == INSTANCE FactStore WITH log <- authority.head, call <- Calls

\* Transactions, crashes and the initialization race implement the contract
\* of a fact store: the head moves only by an append that expected it.
ImplementsFactStore == Contract!Spec

\* A call of append ends: the write lock is never held for ever.
AppendReturns == \A c \in Clients : Calling(c) ~> ~Calling(c)
=============================================================================
