----------------------------- MODULE MCGitStore -----------------------------
(* Commits and symmetry for model checking GitStore.                       *)
EXTENDS GitStore, TLC

Commit(n, files, refused) == [id |-> n, files |-> files, notReady |-> refused, done |-> refused]

Claim(n) == Commit(n, {"claim.json", "source-revision.json"}, FALSE)
RefusedClaim(n) == Commit(n, {"claim.json"}, TRUE)
RefusedReservation(n) == Commit(n, {"claim.json", "effect-reservation.json"}, TRUE)
Release(n) == Commit(n, {"receipt.json", "effect-release.json"}, FALSE)

ClaimCommits == {Claim(1), Claim(2), RefusedClaim(3), RefusedReservation(4)}
ReleaseCommits == {Claim(1), Release(2)}
ClientSymmetry == Permutations(Clients)
=============================================================================
