----------------------------- MODULE HashCache -----------------------------
(***************************************************************************)
(* The operations of internal/pipeline/hashcache.go on the slot of ONE key *)
(* of the per-sink dedup cache.  Every method of hashCache holds the       *)
(* cache's mutex from its first to its last line and touches one key (only *)
(* DeletePrefix touches several), so each is an atomic function from the   *)
(* slot before to the slot after, and that is how it is written here.      *)
(*                                                                         *)
(* A missing key is the slot Absent, whose version is 0: it is what Go's   *)
(* c.data[key] yields for a missing key, and no stored entry has version 0 *)
(* because Reserve, ReserveDelete and StoreIfAbsent all store at least 1.  *)
(* Hashes and UIDs are numbers, 0 standing for the empty string.           *)
(***************************************************************************)
EXTENDS Naturals

(***************************************************************************)
(* CacheEntry.  json says whether a diff baseline is stored (JSON != nil); *)
(* the baseline's content is the state hash names.  run is                 *)
(* ModifiedSinceCheckpoint and pending is PendingDelete.  stamp is a       *)
(* history field the code does not have: the timestamp of the write whose  *)
(* state the entry describes, for properties that compare ages.            *)
(***************************************************************************)
CacheEntry == [uid: Nat, hash: Nat, json: BOOLEAN, run: Nat,
               version: Nat, pending: BOOLEAN, stamp: Nat]

Absent == [uid |-> 0, hash |-> 0, json |-> FALSE, run |-> 0,
           version |-> 0, pending |-> FALSE, stamp |-> 0]

Present(cur) == cur.version > 0

(***************************************************************************)
(* Here and in the other modules, an operator marked "mutant" is a         *)
(* plausible slip in the operator that follows it.  No specification uses  *)
(* it; a property that is worth stating fails when it takes the            *)
(* original's place.                                                       *)
(***************************************************************************)

\* The version Reserve hands to its caller, and the slot it leaves behind.
ReservedVersion(cur) == cur.version + 1

Reserve(cur, entry) == [entry EXCEPT !.version = ReservedVersion(cur)]

\* Mutant: stores the entry whatever the key's version.
CommitAlways(cur, expectedVersion, entry) == [entry EXCEPT !.version = expectedVersion]

\* Stores entry under the version it was issued, unless the key moved on.
CommitIfCurrent(cur, expectedVersion, entry) ==
    IF cur.version = expectedVersion
    THEN [entry EXCEPT !.version = expectedVersion]
    ELSE cur

DeleteIfCurrent(cur, expectedVersion) ==
    IF Present(cur) /\ cur.version = expectedVersion THEN Absent ELSE cur

(***************************************************************************)
(* ReserveDelete: why a delete claim is granted or refused (expectedUID 0  *)
(* is the caller that trusts whatever the cache holds), and the slot a     *)
(* granted claim leaves behind.                                            *)
(***************************************************************************)
DeleteClaimOutcome(cur, expectedUID) ==
    CASE ~Present(cur) -> "absent"
      [] Present(cur) /\ cur.pending -> "inFlight"
      [] Present(cur) /\ ~cur.pending /\ expectedUID # 0 /\ cur.uid # expectedUID
            -> "uidMismatch"
      [] OTHER -> "claimed"

ReserveDelete(cur) == [cur EXCEPT !.version = cur.version + 1, !.pending = TRUE]

\* Mutant: the claim outlives the write it was made for.
UnclaimNothing(cur, expectedVersion) == cur

UnclaimDelete(cur, expectedVersion) ==
    IF Present(cur) /\ cur.version = expectedVersion
    THEN [cur EXCEPT !.pending = FALSE]
    ELSE cur
=============================================================================
