---------------------------- MODULE SqliteProofs ----------------------------
(* The SQLite store keeps its chain of facts and implements FactStore, for *)
(* every set of clients and facts and every length of the log.             *)
EXTENDS SqliteStore, TLAPS, SequenceTheorems

-----------------------------------------------------------------------------
(* Heads                                                                   *)

\* A head is a sequence of at most MaxCommits facts.
LEMMA HeadType ==
    ASSUME NEW s
    PROVE  s \in Heads <=> s \in Seq(Facts) /\ Len(s) <= MaxCommits
  <1>1. ASSUME s \in Heads PROVE s \in Seq(Facts) /\ Len(s) <= MaxCommits
    <2>1. PICK n \in 0 .. MaxCommits : s \in [1 .. n -> Facts]
      BY <1>1, Zenon DEF Heads
    <2>2. n \in Nat /\ n <= MaxCommits
      BY <2>1, StoreAssumption
    <2> QED BY <2>1, <2>2
  <1>2. ASSUME s \in Seq(Facts), Len(s) <= MaxCommits PROVE s \in Heads
    <2>1. Len(s) \in 0 .. MaxCommits /\ s \in [1 .. Len(s) -> Facts]
      BY <1>2, StoreAssumption
    <2> QED BY <2>1, Zenon DEF Heads
  <1> QED BY <1>1, <1>2, Zenon

\* The empty head, and the head after one more commit.
LEMMA HeadCases ==
    /\ << >> \in Heads /\ Len(<< >>) = 0
    /\ \A s \in Heads, f \in Facts : Len(s) < MaxCommits =>
          /\ CommitId(s, f) \in Heads /\ Len(CommitId(s, f)) = Len(s) + 1
          /\ \A i \in 1 .. Len(s) : CommitId(s, f)[i] = s[i]
          /\ CommitId(s, f)[Len(s) + 1] = f
  <1>1. << >> \in Heads /\ Len(<< >>) = 0
    <2>1. << >> \in Seq(Facts) /\ Len(<< >>) = 0 /\ Len(<< >>) <= MaxCommits
      BY StoreAssumption
    <2> QED BY <2>1, HeadType, Zenon
  <1>2. ASSUME NEW s \in Heads, NEW f \in Facts, Len(s) < MaxCommits
        PROVE  /\ CommitId(s, f) \in Heads /\ Len(CommitId(s, f)) = Len(s) + 1
               /\ \A i \in 1 .. Len(s) : CommitId(s, f)[i] = s[i]
               /\ CommitId(s, f)[Len(s) + 1] = f
    <2>1. s \in Seq(Facts)
      BY HeadType, Zenon
    <2>2. /\ CommitId(s, f) \in Seq(Facts) /\ Len(CommitId(s, f)) = Len(s) + 1
          /\ \A i \in 1 .. Len(s) : CommitId(s, f)[i] = s[i]
          /\ CommitId(s, f)[Len(s) + 1] = f
      BY <2>1, AppendProperties DEF CommitId
    <2>3. Len(s) + 1 <= MaxCommits
      BY <1>2, <2>1, StoreAssumption, LenProperties
    <2>4. CommitId(s, f) \in Heads
      BY <2>2, <2>3, HeadType
    <2> QED BY <2>2, <2>4
  <1> QED BY <1>1, <1>2, Zenon
-----------------------------------------------------------------------------
(* Steps that leave the database alone                                     *)

\* Heads on the chain stay on it, and the chain stays one.
LEMMA ChainUntouched ==
    ASSUME Chain, UNCHANGED dbVars
    PROVE  Chain' /\ \A head : OnChain(head) => OnChain(head)'
  BY Zenon DEF Chain, dbVars, OnChain, Tip

\* A step of one client that neither touches the database nor calls append.
LEMMA QuietStep ==
    ASSUME StoreInvariant, TypeOK', Exclusive', NEW c \in Clients, UNCHANGED <<dbVars, callVars>>,
           \A d \in Clients \ {c} : pc'[d] = pc[d],
           pc'[c] \notin {"inserted", "committed"}, Calling(c)' => Calling(c),
           \A d \in Clients : pc'[d] \in {"initializing", "unready"} => busy'[d] < SCHEMA_BUSY_RETRIES
    PROVE  StoreInvariant'
  <1> USE DEF StoreInvariant, callVars
  <1>1. Chain' /\ \A head : OnChain(head) => OnChain(head)'
    BY ChainUntouched, Zenon
  <1>2. Transactions'
    BY Zenon DEF Transactions, Staged, Calling, dbVars, CommitId
  <1>3. Remembered'
    BY <1>1, Zenon DEF Remembered
  <1> QED BY <1>1, <1>2, <1>3, Zenon

\* A step by which append returns or throws.
LEMMA FinishStep ==
    ASSUME StoreInvariant, NEW c \in Clients, NEW result, Finish(c, result), UNCHANGED dbVars,
           writer' = IF InTransaction(c) THEN NoClient ELSE writer,
           \/ result \in {Lost, Threw}
           \/ \E head \in Heads : result = Committed(head) /\ head # << >> /\ OnChain(head)
    PROVE  StoreInvariant'
  <1> USE DEF StoreInvariant, Finish, Goto
  <1>1. Chain' /\ \A head : OnChain(head) => OnChain(head)'
    BY ChainUntouched, Zenon
  <1>2. TypeOK'
    BY ZenonT(30) DEF TypeOK, PCs, dbVars
  <1>3. Exclusive'
    BY StoreAssumption, Zenon DEF Exclusive, InTransaction, TypeOK
  <1>4. Transactions'
    BY Zenon DEF Transactions, Staged, Calling, dbVars, TypeOK, CommitId
  <1>5. Remembered'
    BY <1>1, SMTT(30) DEF Remembered, TypeOK, Lost, Threw, Committed
  <1> QED BY <1>1, <1>2, <1>3, <1>4, <1>5, Zenon
\* The constructor takes, waits for or gives up the write lock.
LEMMA OpeningStep ==
    ASSUME StoreInvariant, NEW c \in Clients,
           Open(c) \/ InitializeAttempt(c) \/ LockSchema(c) \/ SchemaBusy(c) \/ CreateFails(c)
    PROVE  StoreInvariant'
  <1> USE DEF Open, InitializeAttempt, LockSchema, SchemaBusy, CreateFails, Goto, Lock, Unlock
  <1>1. UNCHANGED <<dbVars, callVars>> /\ \A d \in Clients \ {c} : pc'[d] = pc[d]
    BY Zenon DEF StoreInvariant, TypeOK
  <1>2. pc'[c] \in {"closed", "idle", "initializing", "unready", "creating"}
    BY Zenon DEF StoreInvariant, TypeOK
  <1>3. /\ busy' \in [Clients -> 0 .. SCHEMA_BUSY_RETRIES]
        /\ \A d \in Clients :
              pc'[d] \in {"initializing", "unready"} => busy'[d] < SCHEMA_BUSY_RETRIES
    BY SMTT(30) DEF StoreInvariant, TypeOK, Transactions, SCHEMA_BUSY_RETRIES
  <1>4. TypeOK'
    BY <1>1, <1>2, <1>3, Zenon DEF StoreInvariant, TypeOK, PCs, dbVars, callVars
  <1>5. Exclusive'
    <2>1. CASE LockSchema(c)
      BY <2>1, StoreAssumption, SMTT(30) DEF StoreInvariant, TypeOK, Exclusive, InTransaction
    <2>2. CASE CreateFails(c)
      BY <2>2, StoreAssumption, SMTT(30) DEF StoreInvariant, TypeOK, Exclusive, InTransaction
    <2>3. CASE Open(c) \/ InitializeAttempt(c) \/ SchemaBusy(c)
      BY <2>3, SMTT(30) DEF StoreInvariant, TypeOK, Exclusive, InTransaction
    <2> QED BY <2>1, <2>2, <2>3, Zenon
  <1> QED BY <1>1, <1>2, <1>3, <1>4, <1>5, QuietStep, Zenon DEF Calling

\* INSERT OR IGNORE: whoever creates the tables keeps the head.
LEMMA CreateTablesKeeps ==
    ASSUME StoreInvariant, NEW c \in Clients, CreateTables(c)
    PROVE  authority' = [present |-> TRUE, head |-> authority.head, sequence |-> authority.sequence]
  <1> USE DEF CreateTables
  <1>1. authority \in [present : BOOLEAN, head : Heads, sequence : 0 .. MaxCommits]
    BY Zenon DEF StoreInvariant, TypeOK
  <1>2. ~authority.present => authority.sequence = 0 /\ authority.head = << >>
    BY SMTT(30) DEF StoreInvariant, Chain, Tip
  <1>3. CASE authority.present
    <2>1. authority = [present |-> authority.present, head |-> authority.head,
                       sequence |-> authority.sequence]
      BY <1>1, SMTT(30)
    <2>2. authority.present = TRUE
      BY <1>1, <1>3, Zenon
    <2> QED BY <1>3, <2>1, <2>2, Zenon DEF InsertAuthorityRow, storageReady
  <1>4. CASE ~authority.present
    BY <1>2, <1>4, Zenon DEF InsertAuthorityRow, storageReady
  <1> QED BY <1>3, <1>4, Zenon

\* The authority row is inserted once, and then ignored.
LEMMA CreateTablesStep ==
    ASSUME StoreInvariant, NEW c \in Clients, CreateTables(c)
    PROVE  StoreInvariant'
  <1> USE DEF CreateTables, Goto, Unlock
  <1>1. authority' = [present |-> TRUE, head |-> authority.head, sequence |-> authority.sequence]
    BY CreateTablesKeeps, Zenon
  <1>2. /\ authority'.present /\ authority'.head = authority.head
        /\ authority'.sequence = authority.sequence /\ rows' = rows
    BY <1>1
  <1>3. TypeOK'
    <2>1. authority' \in [present : BOOLEAN, head : Heads, sequence : 0 .. MaxCommits]
      BY <1>1, SMTT(30) DEF StoreInvariant, TypeOK
    <2> QED BY <2>1, Zenon DEF StoreInvariant, TypeOK, PCs, callVars
  <1>4. Exclusive'
    BY StoreAssumption, SMTT(30) DEF StoreInvariant, TypeOK, Exclusive, InTransaction
  <1>5. Transactions'
    BY <1>2, Zenon DEF StoreInvariant, TypeOK, Transactions, Staged, Calling, callVars, CommitId
  <1>6. Chain' /\ \A head : OnChain(head) => OnChain(head)'
    BY <1>2, SMTT(30) DEF StoreInvariant, Chain, Tip, OnChain
  <1>7. Remembered'
    BY <1>6, Zenon DEF StoreInvariant, TypeOK, Remembered, callVars
  <1> QED BY <1>3, <1>4, <1>5, <1>6, <1>7, Zenon DEF StoreInvariant

-----------------------------------------------------------------------------
(* Steps of head and append                                                *)

\* A head that was read is the end of the chain.
LEMMA ReadHeadStep ==
    ASSUME StoreInvariant, NEW c \in Clients, ReadHead(c)
    PROVE  StoreInvariant'
  <1> USE DEF StoreInvariant, ReadHead
  <1>1. authority.head \in Heads /\ OnChain(authority.head)
    BY SMTT(30) DEF TypeOK, Chain, OnChain
  <1>2. TypeOK'
    BY <1>1, Zenon DEF TypeOK, dbVars
  <1>3. Exclusive' /\ Transactions'
    BY Zenon DEF Exclusive, InTransaction, Transactions, Staged, Calling, dbVars, CommitId
  <1>4. Chain' /\ \A head : OnChain(head) => OnChain(head)'
    BY ChainUntouched, Zenon
  <1>5. Remembered'
    BY <1>1, <1>4, Zenon DEF Remembered, TypeOK
  <1> QED BY <1>2, <1>3, <1>4, <1>5, Zenon

\* append is given a head that its client read.
LEMMA BeginAppendStep ==
    ASSUME StoreInvariant, NEW c \in Clients, NEW fact \in Facts, BeginAppend(c, fact)
    PROVE  StoreInvariant'
  <1> USE DEF StoreInvariant, BeginAppend, Goto
  <1>1. [expected |-> known[c], fact |-> fact] \in Requests
    BY SMTT(30) DEF TypeOK, Requests
  <1>2. TypeOK'
    BY <1>1, Zenon DEF TypeOK, PCs, dbVars
  <1>3. Exclusive'
    BY Zenon DEF Exclusive, InTransaction, TypeOK
  <1>4. Transactions'
    BY <1>1, Zenon DEF Transactions, Staged, Calling, dbVars, TypeOK, CommitId
  <1>5. Chain' /\ \A head : OnChain(head) => OnChain(head)'
    BY ChainUntouched, Zenon
  <1>6. Remembered'
    BY <1>5, Zenon DEF Remembered, TypeOK, None
  <1> QED BY <1>2, <1>3, <1>4, <1>5, <1>6, Zenon

\* BEGIN IMMEDIATE succeeds for one client at a time.
LEMMA BeginImmediateStep ==
    ASSUME StoreInvariant, NEW c \in Clients, BeginImmediate(c)
    PROVE  StoreInvariant'
  <1> USE DEF BeginImmediate, Goto, Lock
  <1>1. TypeOK'
    BY Zenon DEF StoreInvariant, TypeOK, PCs, dbVars, callVars
  <1>2. Exclusive'
    BY StoreAssumption, SMTT(30) DEF StoreInvariant, Exclusive, InTransaction, TypeOK
  <1>3. \A d \in Clients :
          pc'[d] \in {"initializing", "unready"} => busy'[d] < SCHEMA_BUSY_RETRIES
    BY Zenon DEF StoreInvariant, Transactions, TypeOK
  <1> QED BY <1>1, <1>2, <1>3, QuietStep, Zenon DEF StoreInvariant, Calling, TypeOK

\* The calls of append that change nothing.
LEMMA FruitlessStep ==
    ASSUME StoreInvariant, NEW c \in Clients,
           BusyTimeout(c) \/ Stale(c) \/ Rollback(c) \/ ReturnCommit(c)
    PROVE  StoreInvariant'
  <1>1. CASE BusyTimeout(c)
    BY <1>1, FinishStep, Zenon DEF BusyTimeout, InTransaction
  <1>2. CASE Stale(c)
    BY <1>2, FinishStep, Zenon DEF Stale, InTransaction, Unlock
  <1>3. CASE Rollback(c)
    BY <1>3, FinishStep, Zenon DEF Rollback, InTransaction, Unlock
  <1>4. CASE ReturnCommit(c)
    <2>1. staged[c].id # << >> /\ OnChain(staged[c].id) /\ staged[c].id \in Heads
      BY <1>4, HeadCases, SMTT(30) DEF ReturnCommit, StoreInvariant, Remembered, TypeOK, Rows, NoRow
    <2> QED BY <1>4, <2>1, FinishStep, Zenon DEF ReturnCommit, InTransaction
  <1> QED BY <1>1, <1>2, <1>3, <1>4, Zenon

\* A row is inserted under the head the transaction compared.
LEMMA InsertStep ==
    ASSUME StoreInvariant, NEW c \in Clients, Insert(c)
    PROVE  StoreInvariant'
  <1> USE DEF StoreInvariant, Insert, Goto
  <1> DEFINE row == [id |-> CommitId(request[c].expected, request[c].fact),
                     parent |-> request[c].expected, fact |-> request[c].fact]
  <1>1. request[c] \in Requests
    BY Zenon DEF Transactions, Calling
  <1>2. /\ request[c].expected \in Heads /\ Len(request[c].expected) < MaxCommits
        /\ request[c].fact \in Facts
    BY <1>1, SMTT(30) DEF Requests
  <1>3. row \in Rows
    <2>1. CommitId(request[c].expected, request[c].fact) \in Heads
      BY <1>2, HeadCases, Zenon
    <2> QED BY <1>2, <2>1, SMTT(30) DEF Rows
  <1>4. /\ staged' = [staged EXCEPT ![c] = row] /\ pc' = [pc EXCEPT ![c] = "inserted"]
        /\ UNCHANGED <<dbVars, writer, busy, known, request, outcome>>
        /\ pc[c] = "locked"
    BY Zenon
  <1>5. Staged(c)'
    BY <1>4, Zenon DEF Staged, HeadIsExpected, TypeOK, dbVars, CommitId
  <1> HIDE DEF row, Insert
  <1>6. TypeOK'
    BY <1>3, <1>4, Zenon DEF TypeOK, PCs, dbVars
  <1>7. Exclusive'
    BY <1>4, Zenon DEF Exclusive, InTransaction, TypeOK
  <1>8. Transactions'
    BY <1>1, <1>4, <1>5, Zenon DEF Transactions, Staged, Calling, dbVars, TypeOK, CommitId
  <1>9. Chain' /\ \A head : OnChain(head) => OnChain(head)'
    BY <1>4, ChainUntouched, Zenon
  <1>10. Remembered'
    BY <1>4, <1>9, Zenon DEF Remembered, TypeOK
  <1> QED BY <1>6, <1>7, <1>8, <1>9, <1>10, Zenon

\* The process dies, with or without the write lock.
LEMMA CrashStep ==
    ASSUME StoreInvariant, NEW c \in Clients, Crash(c)
    PROVE  StoreInvariant'
  <1> USE DEF StoreInvariant, Crash, Goto
  <1>1. TypeOK'
    BY HeadCases, Zenon DEF TypeOK, PCs, dbVars
  <1>2. Exclusive'
    BY StoreAssumption, SMTT(30) DEF Exclusive, InTransaction, TypeOK
  <1>3. Transactions'
    BY Zenon DEF Transactions, Staged, Calling, dbVars, TypeOK, CommitId
  <1>4. Chain' /\ \A head : OnChain(head) => OnChain(head)'
    BY ChainUntouched, Zenon
  <1>5. OnChain(<< >>)
    BY SMTT(30) DEF TypeOK, OnChain, Tip
  <1>6. Remembered'
    BY <1>4, <1>5, Zenon DEF Remembered, TypeOK, None
  <1> QED BY <1>1, <1>2, <1>3, <1>4, <1>6, Zenon

\* COMMIT: the row becomes the last of the chain and the head names it.
LEMMA CommitStep ==
    ASSUME StoreInvariant, NEW c \in Clients, Commit(c)
    PROVE  StoreInvariant'
  <1> USE DEF StoreInvariant, Commit, Goto, Unlock
  <1> SUFFICES ASSUME NEW n, n = authority.sequence, NEW row, row = staged[c]
               PROVE  StoreInvariant'
    BY Zenon
  <1>1. /\ request[c] \in Requests /\ n \in Nat /\ n <= MaxCommits
        /\ authority.head = request[c].expected
        /\ row = [id |-> CommitId(request[c].expected, request[c].fact),
                  parent |-> request[c].expected, fact |-> request[c].fact]
    BY StoreAssumption, SMTT(30) DEF Transactions, Staged, Calling, TypeOK
  <1>2. authority.head \in Heads /\ Len(authority.head) < MaxCommits /\ request[c].fact \in Facts
    BY <1>1, SMTT(30) DEF Requests
  <1>3. Len(authority.head) = n
    BY <1>1, HeadCases, SMTT(30) DEF Chain, Tip
  <1>4. /\ row.id \in Heads /\ Len(row.id) = n + 1 /\ row.id = CommitId(authority.head, row.fact)
        /\ \A i \in 1 .. n : row.id[i] = authority.head[i]
        /\ row.id[n + 1] = row.fact
        /\ row.parent = authority.head /\ row \in Rows
    <2>1. row.fact = request[c].fact /\ row.parent = authority.head
          /\ row.id = CommitId(authority.head, row.fact)
      BY <1>1, SMTT(30)
    <2>2. /\ row.id \in Heads /\ Len(row.id) = n + 1
          /\ \A i \in 1 .. n : row.id[i] = authority.head[i]
          /\ row.id[n + 1] = row.fact
      BY <1>2, <1>3, <2>1, HeadCases, SMTT(30)
    <2>3. row \in Rows
      BY <1>1, <1>2, <2>1, <2>2, SMTT(30) DEF Rows
    <2> QED BY <2>1, <2>2, <2>3, Zenon
  <1>5. /\ authority' = [present |-> TRUE, head |-> row.id, sequence |-> n + 1]
        /\ rows' = [k \in DOMAIN rows \cup {n + 1} |-> IF k = n + 1 THEN row ELSE rows[k]]
    BY Zenon
  <1>6. /\ authority'.present /\ authority'.head = row.id /\ authority'.sequence = n + 1
        /\ DOMAIN rows = 1 .. n /\ DOMAIN rows' = 1 .. n + 1 /\ rows'[n + 1] = row
        /\ \A k \in 1 .. n : rows'[k] = rows[k]
    <2>1. DOMAIN rows = 1 .. n
      BY Zenon DEF Chain
    <2> QED BY <1>1, <1>5, <2>1, SMTT(30)
  <1>7. TypeOK'
    <2>1. n + 1 \in 0 .. MaxCommits
      BY <1>1, <1>2, <1>3, StoreAssumption, SMTT(30)
    <2>2. authority' \in [present : BOOLEAN, head : Heads, sequence : 0 .. MaxCommits]
      BY <1>4, <1>5, <2>1, SMTT(30)
    <2>3. DOMAIN rows' \subseteq 1 .. MaxCommits
      BY <1>1, <1>6, <2>1, StoreAssumption, SMTT(30)
    <2>4. \A k \in DOMAIN rows' : rows'[k] \in Rows
      BY <1>1, <1>4, <1>6, SMTT(30) DEF TypeOK
    <2> QED BY <2>2, <2>3, <2>4, Zenon DEF TypeOK, PCs, callVars
  <1>8. Exclusive'
    BY StoreAssumption, SMTT(30) DEF Exclusive, InTransaction, TypeOK
  <1>9. Transactions'
    <2>1. \A d \in Clients : pc'[d] # "inserted"
      BY SMTT(30) DEF Exclusive, InTransaction, TypeOK
    <2> QED BY <2>1, Zenon DEF Transactions, Calling, TypeOK, callVars
  <1>10. \A k \in 0 .. n : Tip(k)' = Tip(k)
    BY <1>1, <1>6, SMTT(30) DEF Tip
  <1>11. Tip(n + 1)' = row.id /\ Tip(n) = authority.head
    BY <1>1, <1>6, SMTT(30) DEF Tip, Chain
  <1>12. \A head : OnChain(head) => OnChain(head)'
    BY <1>1, <1>6, <1>10, SMTT(30) DEF OnChain
  <1>13. OnChain(row.id)'
    BY <1>1, <1>6, <1>11, SMTT(30) DEF OnChain
  <1>14. Remembered'
    <2>1. row.id # << >>
      BY <1>1, <1>4, HeadCases, SMTT(30)
    <2> QED BY <2>1, <1>12, <1>13, Zenon DEF Remembered, TypeOK, callVars
  <1>15. Chain'
    <2> SUFFICES ASSUME NEW k \in 1 .. n + 1
                 PROVE  /\ rows'[k].parent = Tip(k - 1)'
                        /\ rows'[k].id = CommitId(rows'[k].parent, rows'[k].fact)
                        /\ Len(rows'[k].id) = k
                        /\ \A i \in 1 .. k : rows'[k].id[i] = rows'[i].fact
      BY <1>6, <1>11, Zenon DEF Chain, CommitId
    <2>1. CASE k = n + 1
      <3>1. \A i \in 1 .. n : authority.head[i] = rows'[i].fact
        BY <1>1, <1>6, <1>11, SMTT(30) DEF Chain, Tip
      <3>2. rows'[k] = row /\ Tip(k - 1)' = authority.head
        <4>1. k - 1 = n /\ n \in 0 .. n
          BY <1>1, <2>1, SMTT(30)
        <4> QED BY <1>6, <1>10, <1>11, <2>1, <4>1, Zenon
      <3>3. \A i \in 1 .. k : row.id[i] = rows'[i].fact
        <4> SUFFICES ASSUME NEW i \in 1 .. k PROVE row.id[i] = rows'[i].fact
          BY Zenon
        <4>1. i \in 1 .. n \/ i = n + 1
          BY <1>1, <2>1, SMTT(30)
        <4> QED BY <1>4, <1>6, <3>1, <4>1, ZenonT(30)
      <3> QED BY <1>4, <2>1, <3>2, <3>3, Zenon
    <2>2. CASE k # n + 1
      <3>1. k \in 1 .. n /\ k - 1 \in 0 .. n /\ k \in DOMAIN rows
        BY <1>1, <1>6, <2>2, SMTT(30)
      <3>2. /\ rows[k].parent = Tip(k - 1)
            /\ rows[k].id = CommitId(rows[k].parent, rows[k].fact)
            /\ Len(rows[k].id) = k
            /\ \A i \in 1 .. k : rows[k].id[i] = rows[i].fact
        BY <3>1, Zenon DEF Chain
      <3>3. \A i \in 1 .. k : rows'[i] = rows[i]
        BY <1>1, <1>6, <3>1, SMTT(30)
      <3>4. rows'[k] = rows[k] /\ Tip(k - 1)' = Tip(k - 1)
        BY <1>6, <1>10, <3>1, Zenon
      <3> QED BY <3>2, <3>3, <3>4, Zenon
    <2> QED BY <2>1, <2>2, Zenon
  <1> QED BY <1>7, <1>8, <1>9, <1>14, <1>15, Zenon

-----------------------------------------------------------------------------
(* The invariant of the store                                              *)

\* A database that does not exist yet satisfies the invariant.
LEMMA InitInvariant == Init => StoreInvariant
  <1> SUFFICES ASSUME Init PROVE StoreInvariant
    BY Zenon
  <1> USE DEF Init
  <1>1. authority.head = << >> /\ authority.sequence = 0 /\ ~authority.present
    BY SMTT(30) DEF NoAuthority
  <1>2. DOMAIN rows = {} /\ 1 .. 0 = {}
    BY SMTT(30)
  <1>3. authority \in [present : BOOLEAN, head : Heads, sequence : 0 .. MaxCommits]
    BY HeadCases, StoreAssumption, SMTT(30) DEF NoAuthority
  <1>4. TypeOK
    <2>1. busy \in [Clients -> 0 .. SCHEMA_BUSY_RETRIES]
      BY SMTT(30) DEF SCHEMA_BUSY_RETRIES
    <2> QED BY <1>2, <1>3, <2>1, HeadCases, Zenon DEF TypeOK, PCs
  <1>5. Exclusive /\ Transactions
    BY StoreAssumption, SMTT(30) DEF Exclusive, Transactions, InTransaction, Calling
  <1>6. Chain
    BY <1>1, <1>2, Zenon DEF Chain, Tip
  <1>7. Remembered
    <2>1. OnChain(<< >>)
      BY <1>1, SMTT(30) DEF OnChain, Tip
    <2>2. \A c \in Clients : known[c] = << >> /\ pc[c] = "closed" /\ outcome[c].phase = "idle"
      BY Zenon DEF None
    <2> QED BY <2>1, <2>2, Zenon DEF Remembered
  <1> QED BY <1>4, <1>5, <1>6, <1>7, Zenon DEF StoreInvariant

\* Every step of a client preserves the invariant, and so does stuttering.
LEMMA NextInvariant == StoreInvariant /\ [Next]_vars => StoreInvariant'
  <1> SUFFICES ASSUME StoreInvariant, [Next]_vars PROVE StoreInvariant'
    BY Zenon
  <1>1. CASE UNCHANGED vars
    <2> USE <1>1 DEF StoreInvariant, vars
    <2>1. TypeOK'
      BY Zenon DEF TypeOK
    <2>2. Exclusive' /\ Transactions'
      BY Zenon DEF Exclusive, InTransaction, Transactions, Calling, Staged, CommitId
    <2>3. Chain' /\ \A head : OnChain(head) => OnChain(head)'
      BY ChainUntouched, Zenon DEF dbVars
    <2>4. Remembered'
      BY <2>3, Zenon DEF Remembered
    <2> QED BY <2>1, <2>2, <2>3, <2>4, Zenon
  <1>2. CASE Next
    <2> SUFFICES ASSUME NEW c \in Clients,
                        \/ Open(c) \/ ReadHead(c) \/ Crash(c) \/ Running(c)
                        \/ \E fact \in Facts : BeginAppend(c, fact)
                 PROVE  StoreInvariant'
      BY <1>2, Zenon DEF Next
    <2>1. CASE Running(c)
      BY <2>1, OpeningStep, CreateTablesStep, BeginImmediateStep, FruitlessStep, InsertStep,
         CommitStep, Zenon DEF Running
    <2> QED BY <2>1, OpeningStep, ReadHeadStep, CrashStep, BeginAppendStep, Zenon
  <1> QED BY <1>1, <1>2, Zenon

\* In every state the write lock, the staged rows, the chain of commits and the
\* heads that clients remember agree (append, history and initializeStorage).
THEOREM StoreIsInvariant == Spec => []StoreInvariant
  BY InitInvariant, NextInvariant, PTL DEF Spec

\* A head on the chain is the empty one or names its facts.
LEMMA ChainReads ==
    ASSUME StoreInvariant, NEW head, OnChain(head), head # << >>
    PROVE  Reads(head)
  <1>1. PICK n \in 0 .. authority.sequence : head = Tip(n)
    BY Zenon DEF OnChain
  <1>2. authority.sequence \in Nat
    BY StoreAssumption, SMTT(30) DEF StoreInvariant, TypeOK
  <1>3. n \in DOMAIN rows /\ head = rows[n].id
    BY <1>1, <1>2, SMTT(30) DEF StoreInvariant, Chain, Tip
  <1>4. ASSUME NEW i \in 1 .. n
        PROVE  /\ i \in DOMAIN rows
               /\ rows[i].parent = IF i = 1 THEN << >> ELSE rows[i - 1].id
               /\ rows[i].id = CommitId(rows[i].parent, rows[i].fact)
               /\ rows[i].fact = head[i]
    <2>1. i \in DOMAIN rows /\ (i - 1 = 0 <=> i = 1)
      BY <1>1, <1>2, SMTT(30) DEF StoreInvariant, Chain
    <2> QED BY <1>3, <2>1, Zenon DEF StoreInvariant, Chain, Tip
  <1> QED BY <1>3, <1>4, Zenon DEF Reads

\* history finds the facts of every head that head or append returned.
THEOREM HeadsReplay == Spec => []KnownHeadsReplay
  <1>1. StoreInvariant => KnownHeadsReplay
    BY ChainReads, Zenon DEF KnownHeadsReplay, StoreInvariant, Remembered
  <1> QED BY <1>1, StoreIsInvariant, PTL

-----------------------------------------------------------------------------
(* The store implements its contract                                       *)

\* What the calls of append are doing changes only for the client that steps.
LEMMA CallsOfOthers ==
    ASSUME NEW c \in Clients,
           \A d \in Clients \ {c} : /\ pc'[d] = pc[d] /\ request'[d] = request[d]
                                    /\ staged'[d] = staged[d] /\ outcome'[d] = outcome[d]
    PROVE  Calls' = [Calls EXCEPT ![c] = Call(c)']
  <1>1. \A d \in Clients \ {c} : Call(d)' = Call(d)
    BY Zenon DEF Call, Calling, Committed
  <1>2. Calls' = [d \in Clients |-> Call(d)']
    BY Zenon DEF Calls
  <1>3. [Calls EXCEPT ![c] = Call(c)'] =
          [d \in Clients |-> IF d = c THEN Call(c)' ELSE Call(d)]
    BY Zenon DEF Calls
  <1> QED BY <1>1, <1>2, <1>3, Zenon

\* A step that leaves the head and the state of the client's call alone.
LEMMA Invisible ==
    ASSUME NEW c \in Clients, Calls' = [Calls EXCEPT ![c] = Call(c)'],
           Call(c)' = Call(c), authority'.head = authority.head
    PROVE  [Contract!Next]_(Contract!vars)
  <1>1. Calls' = Calls
    BY Zenon DEF Calls
  <1> QED BY <1>1, Zenon DEF Contract!vars

\* Calls that are refused, throw or are forgotten.
LEMMA Ended ==
    ASSUME NEW c \in Clients, Calls' = [Calls EXCEPT ![c] = Call(c)'],
           authority'.head = authority.head,
           \/ Calling(c) /\ Call(c)' = Threw
           \/ Calling(c) /\ authority.head # request[c].expected /\ Call(c)' = Lost
           \/ Call(c).phase # "idle" /\ Call(c)' = None
    PROVE  Contract!Next
  <1>1. Calls[c] = Call(c)
    BY Zenon DEF Calls
  <1>2. Calling(c) => Call(c).phase = "pending" /\ Call(c).expected = request[c].expected
    BY SMTT(30) DEF Call
  <1> QED BY <1>1, <1>2, Zenon DEF Contract!Next, Contract!Throw, Contract!Refuse, Contract!Forget,
      Contract!Thrown, Contract!Refused, Contract!Idle, Threw, Lost, None

\* The constructor, head, and the inner steps of append are invisible.
LEMMA InvisibleStep ==
    ASSUME StoreInvariant, NEW c \in Clients,
           \/ Open(c) \/ InitializeAttempt(c) \/ LockSchema(c) \/ SchemaBusy(c) \/ CreateFails(c)
           \/ CreateTables(c) \/ ReadHead(c) \/ BeginImmediate(c) \/ Insert(c) \/ ReturnCommit(c)
    PROVE  [Contract!Next]_(Contract!vars)
  <1> USE DEF Goto, callVars, dbVars
  <1>1. authority'.head = authority.head
    <2>1. CASE CreateTables(c)
      BY <2>1, CreateTablesKeeps, SMTT(30)
    <2> QED BY <2>1, Zenon DEF Open, InitializeAttempt, LockSchema, SchemaBusy, CreateFails, ReadHead,
               BeginImmediate, Insert, ReturnCommit
  <1>2. \A d \in Clients \ {c} : /\ pc'[d] = pc[d] /\ request'[d] = request[d]
                                 /\ staged'[d] = staged[d] /\ outcome'[d] = outcome[d]
    BY ZenonT(30) DEF StoreInvariant, TypeOK, Open, InitializeAttempt, LockSchema, SchemaBusy,
       CreateFails, CreateTables, ReadHead, BeginImmediate, Insert, ReturnCommit, Finish
  <1>3. Call(c)' = Call(c)
    <2>1. CASE \/ Open(c) \/ InitializeAttempt(c) \/ LockSchema(c) \/ SchemaBusy(c) \/ CreateFails(c)
               \/ CreateTables(c) \/ ReadHead(c)
      BY <2>1, Zenon DEF StoreInvariant, TypeOK, Call, Calling, Open, InitializeAttempt, LockSchema,
         SchemaBusy, CreateFails, CreateTables, ReadHead
    <2>2. CASE BeginImmediate(c) \/ Insert(c)
      BY <2>2, Zenon DEF StoreInvariant, TypeOK, Call, Calling, BeginImmediate, Insert
    <2>3. CASE ReturnCommit(c)
      BY <2>3, Zenon DEF StoreInvariant, TypeOK, Call, Calling, ReturnCommit, Finish, Committed
    <2> QED BY <2>1, <2>2, <2>3, Zenon
  <1> QED BY <1>1, <1>2, <1>3, CallsOfOthers, Invisible, Zenon

\* append is called, with a head of at most MaxCommits facts.
LEMMA InvokeStep ==
    ASSUME StoreInvariant, NEW c \in Clients, NEW fact \in Facts, BeginAppend(c, fact)
    PROVE  Contract!Next
  <1> USE DEF BeginAppend, Goto, dbVars
  <1>1. Calls' = [Calls EXCEPT ![c] = Call(c)']
    BY CallsOfOthers, Zenon DEF StoreInvariant, TypeOK
  <1>2. Call(c)' = Contract!Pending(known[c], fact)
    BY SMTT(30) DEF StoreInvariant, TypeOK, Call, Calling, Contract!Pending
  <1>3. Calls[c].phase # "pending"
    <2>1. Calls[c] = outcome[c]
      BY Zenon DEF Calls, Call, Calling
    <2>2. outcome[c] \in {None, Lost, Threw} \cup {Committed(id) : id \in Heads}
      BY Zenon DEF StoreInvariant, TypeOK
    <2> QED BY <2>1, <2>2, SMTT(30) DEF None, Lost, Threw, Committed
  <1>4. known[c] \in Contract!Heads
    BY Zenon DEF StoreInvariant, TypeOK, Heads, Contract!Heads
  <1> QED BY <1>1, <1>2, <1>3, <1>4, Zenon DEF Contract!Next, Contract!Invoke

\* COMMIT is the step at which the append takes effect.
LEMMA SucceedStep ==
    ASSUME StoreInvariant, NEW c \in Clients, Commit(c)
    PROVE  Contract!Next
  <1> USE DEF Commit, Goto, callVars
  <1>1. Calls' = [Calls EXCEPT ![c] = Call(c)']
    BY CallsOfOthers, Zenon DEF StoreInvariant, TypeOK
  <1>2. /\ authority.head = request[c].expected
        /\ staged[c].id = Append(request[c].expected, request[c].fact)
    <2>1. Staged(c)
      BY Zenon DEF StoreInvariant, Transactions
    <2> HIDE DEF Commit
    <2> QED BY <2>1, SMTT(30) DEF Staged, CommitId
  <1>3. authority'.head = staged[c].id
    BY Zenon
  <1>4. /\ Calls[c].phase = "pending" /\ Calls[c].expected = request[c].expected
        /\ Calls[c].fact = request[c].fact
    <2>1. Calls[c] = [phase |-> "pending", expected |-> request[c].expected, fact |-> request[c].fact]
      BY Zenon DEF Calls, Call, Calling
    <2> HIDE DEF Commit
    <2> QED BY <2>1, SMTT(30)
  <1>5. Call(c)' = Contract!Returned(authority'.head)
    BY <1>3, Zenon DEF StoreInvariant, TypeOK, Call, Calling, Committed, Contract!Returned
  <1> QED BY <1>1, <1>2, <1>3, <1>4, <1>5, Zenon DEF Contract!Next, Contract!Succeed

\* A lost race, a busy database, an error and a crash leave no fact behind.
LEMMA EndedStep ==
    ASSUME StoreInvariant, NEW c \in Clients,
           BusyTimeout(c) \/ Stale(c) \/ Rollback(c) \/ Crash(c)
    PROVE  [Contract!Next]_(Contract!vars)
  <1> USE DEF Finish, Goto, dbVars
  <1>1. authority'.head = authority.head
    BY Zenon DEF BusyTimeout, Stale, Rollback, Crash
  <1>2. Calls' = [Calls EXCEPT ![c] = Call(c)']
    BY CallsOfOthers, Zenon DEF StoreInvariant, TypeOK, BusyTimeout, Stale, Rollback, Crash
  <1>3. CASE BusyTimeout(c) \/ Rollback(c)
    <2>1. Calling(c) /\ Call(c)' = Threw
      BY <1>3, Zenon DEF BusyTimeout, Rollback, StoreInvariant, TypeOK, Call, Calling
    <2> QED BY <1>1, <1>2, <2>1, Ended, Zenon
  <1>4. CASE Stale(c)
    <2>1. Calling(c) /\ authority.head # request[c].expected /\ Call(c)' = Lost
      BY <1>4, Zenon DEF Stale, HeadIsExpected, StoreInvariant, TypeOK, Call, Calling
    <2> QED BY <1>1, <1>2, <2>1, Ended, Zenon
  <1>5. CASE Crash(c)
    <2>1. Call(c)' = None
      BY <1>5, Zenon DEF Crash, StoreInvariant, TypeOK, Call, Calling
    <2>2. CASE Call(c).phase # "idle"
      BY <1>1, <1>2, <2>1, <2>2, Ended, Zenon
    <2>3. CASE Call(c).phase = "idle"
      <3>1. Call(c) = outcome[c]
        BY <2>3, SMTT(30) DEF Call, Committed
      <3>2. outcome[c] = None
        <4>1. outcome[c] \in {None, Lost, Threw} \cup {Committed(id) : id \in Heads}
          BY Zenon DEF StoreInvariant, TypeOK
        <4> QED BY <2>3, <3>1, <4>1, SMTT(30) DEF None, Lost, Threw, Committed
      <3> QED BY <1>1, <1>2, <2>1, <3>1, <3>2, Invisible, Zenon
    <2> QED BY <2>2, <2>3, Zenon
  <1> QED BY <1>3, <1>4, <1>5, Zenon

\* The SQLite transactions, with crashes, busy clients and the race of several
\* constructors, implement the fact store contract.
THEOREM SqliteImplementsFactStore == Spec => ImplementsFactStore
  <1>1. Init => Contract!Init
    <2> SUFFICES ASSUME Init PROVE Contract!Init
      BY Zenon
    <2>1. authority.head = << >>
      BY SMTT(30) DEF Init, NoAuthority
    <2>2. \A c \in Clients : Call(c) = None
      BY Zenon DEF Init, Call, Calling
    <2> QED BY <2>1, <2>2, Zenon DEF Contract!Init, Contract!Idle, Calls, None
  <1>2. StoreInvariant /\ [Next]_vars => [Contract!Next]_(Contract!vars)
    <2> SUFFICES ASSUME StoreInvariant, [Next]_vars PROVE [Contract!Next]_(Contract!vars)
      BY Zenon
    <2>1. CASE UNCHANGED vars
      BY <2>1, Zenon DEF vars, Contract!vars, Calls, Call, Calling, Committed
    <2>2. CASE Next
      <3> SUFFICES ASSUME NEW c \in Clients,
                          \/ Open(c) \/ ReadHead(c) \/ Crash(c) \/ Running(c)
                          \/ \E fact \in Facts : BeginAppend(c, fact)
                   PROVE  [Contract!Next]_(Contract!vars)
        BY <2>2, Zenon DEF Next
      <3>1. CASE Running(c)
        BY <3>1, InvisibleStep, EndedStep, SucceedStep, Zenon DEF Running
      <3> QED BY <3>1, InvisibleStep, EndedStep, InvokeStep, Zenon
    <2> QED BY <2>1, <2>2, Zenon
  <1> QED BY <1>1, <1>2, StoreIsInvariant, PTL DEF Spec, ImplementsFactStore, Contract!Spec
=============================================================================
