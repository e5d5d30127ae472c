----------------------------- MODULE FactStore ------------------------------
(***************************************************************************)
(* What a durable fact store promises (src/authority/store.ts): a log of   *)
(* facts with one head, and append(expectedHead, files) which adds a fact  *)
(* exactly when the head is still the expected one.                        *)
(*                                                                         *)
(* The identifier of a commit is a digest that covers the identifier of    *)
(* its parent, so a head is represented by the chain of facts it names.    *)
(***************************************************************************)
EXTENDS Naturals, Sequences

CONSTANTS
    Clients,      \* processes with the store open
    Facts,        \* what append may be given
    MaxCommits    \* bound on the length of the log

VARIABLES
    log,    \* the chain the head names
    call    \* what each client's call of append is doing, or returned

Heads == UNION {[1 .. n -> Facts] : n \in 0 .. MaxCommits}

Idle == [phase |-> "idle"]
Pending(expected, fact) == [phase |-> "pending", expected |-> expected, fact |-> fact]
Returned(result) == [phase |-> "returned", result |-> result]
Refused == [phase |-> "refused"]    \* append returned null
Thrown == [phase |-> "thrown"]      \* append threw

vars == <<log, call>>

Init ==
    /\ log = << >>
    /\ call = [c \in Clients |-> Idle]

Invoke(c) ==
    /\ call[c].phase # "pending"
    /\ \E expected \in Heads, fact \in Facts :
          call' = [call EXCEPT ![c] = Pending(expected, fact)]
    /\ UNCHANGED log

\* The fact is durable and its commit becomes the head.
Succeed(c) ==
    /\ call[c].phase = "pending"
    /\ call[c].expected = log
    /\ log' = Append(log, call[c].fact)
    /\ call' = [call EXCEPT ![c] = Returned(log')]

\* A stale expected head leaves no fact behind.
Refuse(c) ==
    /\ call[c].phase = "pending"
    /\ call[c].expected # log
    /\ call' = [call EXCEPT ![c] = Refused]
    /\ UNCHANGED log

\* Neither does an append that throws.
Throw(c) ==
    /\ call[c].phase = "pending"
    /\ call' = [call EXCEPT ![c] = Thrown]
    /\ UNCHANGED log

\* The client takes the result, or crashes and never learns it; a client
\* that crashes before the append took effect leaves nothing behind.
Forget(c) ==
    /\ call[c].phase # "idle"
    /\ call' = [call EXCEPT ![c] = Idle]
    /\ UNCHANGED log

Next == \E c \in Clients : Invoke(c) \/ Succeed(c) \/ Refuse(c) \/ Throw(c) \/ Forget(c)

Spec == Init /\ [][Next]_vars
=============================================================================
