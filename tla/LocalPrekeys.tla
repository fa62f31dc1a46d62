---------------------------- MODULE LocalPrekeys ----------------------------
(***************************************************************************)
(* The private halves of a user's one-time prekeys, one file per prekey in *)
(* <name>_prekeys/, and consume_prekey (src/secxfer/keystore.py), which a  *)
(* decryption calls once its preamble is verified.  Calls of several       *)
(* processes interleave at every operation on the directory, and a process *)
(* may die between two of them.                                            *)
(***************************************************************************)
EXTENDS Integers, FiniteSets

CONSTANTS Key,      \* prekey ids
          Call,     \* calls of consume_prekey
          None,     \* not a prekey id
          MaxAtOnce \* how many calls may be under way at the same time; a number

VARIABLES
    disk,   \* "key": <id>.key, "used": <id>.key.used, "gone": no file
    pc,     \* where each call stands
    want,   \* the prekey_id it was called with, None before
    isLast  \* its local variable is_last

vars == <<disk, pc, want, isLast>>

OnDisk == {k \in Key : disk[k] = "key"}

Active(c) == pc[c] \in {"counted", "reading", "renaming", "renamed", "read"}

TypeOK ==
    /\ disk \in [Key -> {"key", "used", "gone"}]
    /\ pc \in [Call -> {"idle", "counted", "reading", "renaming", "renamed",
                        "read", "reused", "consumed", "raised", "dead"}]
    /\ want \in [Call -> Key \cup {None}]
    /\ isLast \in [Call -> BOOLEAN]

\* generate_keypair wrote all the files.
Init ==
    /\ disk = [k \in Key |-> "key"]
    /\ pc = [c \in Call |-> "idle"]
    /\ want = [c \in Call |-> None]
    /\ isLast = [c \in Call |-> FALSE]

\* Variant: len(all_keys) < 1
AtMostOneOnDiskStrict == OnDisk = {}

\* len(all_keys) <= 1
AtMostOneOnDisk == \A j, k \in OnDisk : j = k

\* The call for prekey k begins and lists the directory.
Count(c, k) ==
    /\ pc[c] = "idle"
    /\ Cardinality({d \in Call : Active(d)}) < MaxAtOnce
    /\ want' = [want EXCEPT ![c] = k]
    /\ isLast' = [isLast EXCEPT ![c] = AtMostOneOnDisk]
    /\ pc' = [pc EXCEPT ![c] = "counted"]
    /\ UNCHANGED disk

\* is_last and pk_path.exists()
Decide(c) ==
    /\ pc[c] = "counted"
    /\ pc' = [pc EXCEPT ![c] = IF isLast[c] /\ disk[want[c]] = "key"
                               THEN "reading" ELSE "renaming"]
    /\ UNCHANGED <<disk, want, isLast>>

\* The last resort key is read and stays; read_bytes raises FileNotFoundError
\* if another process renamed the file meanwhile.
ReadLast(c) ==
    /\ pc[c] = "reading"
    /\ pc' = [pc EXCEPT ![c] = IF disk[want[c]] = "key" THEN "reused" ELSE "raised"]
    /\ UNCHANGED <<disk, want, isLast>>

\* Variant: a copy instead of the rename.
RenameCopy(c) ==
    /\ pc[c] = "renaming"
    /\ pc' = [pc EXCEPT ![c] = IF disk[want[c]] = "key" THEN "renamed" ELSE "raised"]
    /\ UNCHANGED <<disk, want, isLast>>

Rename(c) ==
    /\ pc[c] = "renaming"
    /\ \/ /\ disk[want[c]] = "key"
          /\ disk' = [disk EXCEPT ![want[c]] = "used"]
          /\ pc' = [pc EXCEPT ![c] = "renamed"]
       \/ /\ disk[want[c]] # "key"
          /\ pc' = [pc EXCEPT ![c] = "raised"]
          /\ UNCHANGED disk
    /\ UNCHANGED <<want, isLast>>

ReadRenamed(c) ==
    /\ pc[c] = "renamed"
    /\ pc' = [pc EXCEPT ![c] = "read"]
    /\ UNCHANGED <<disk, want, isLast>>

\* Variant: the file is left behind.
RemoveNothing(c) ==
    /\ pc[c] = "read"
    /\ pc' = [pc EXCEPT ![c] = "consumed"]
    /\ UNCHANGED <<disk, want, isLast>>

Remove(c) ==
    /\ pc[c] = "read"
    /\ disk' = [disk EXCEPT ![want[c]] = "gone"]
    /\ pc' = [pc EXCEPT ![c] = "consumed"]
    /\ UNCHANGED <<want, isLast>>

\* The process is killed.
Die(c) ==
    /\ Active(c)
    /\ pc' = [pc EXCEPT ![c] = "dead"]
    /\ UNCHANGED <<disk, want, isLast>>

Next ==
    \E c \in Call : \/ \E k \in Key : Count(c, k)
                    \/ Decide(c) \/ ReadLast(c) \/ Rename(c)
                    \/ ReadRenamed(c) \/ Remove(c) \/ Die(c)

Spec == Init /\ [][Next]_vars

-----------------------------------------------------------------------------
(* Properties. *)

\* Two calls never consume the same prekey file, and no file of a consumed
\* prekey is left: its private half is gone for good.
ConsumedOnce ==
    \A c \in Call : pc[c] = "consumed" =>
        /\ disk[want[c]] = "gone"
        /\ \A d \in Call : d # c /\ want[d] = want[c] =>
               pc[d] \notin {"renamed", "read", "consumed"}

\* A .key.used file belongs to exactly one call, which is between its rename
\* and its remove or was killed there: nothing else leaves key material behind.
ResidueAccounted ==
    \A k \in Key : disk[k] = "used" =>
        \E c \in Call : want[c] = k /\ pc[c] \in {"renamed", "read", "dead"}

\* A key is given to two calls only as the last resort key: of two calls that
\* got the same key, one found no other key in the directory.
SharedOnlyAsLastResort ==
    \A c, d \in Call :
        /\ c # d /\ want[c] = want[d]
        /\ pc[c] \in {"reused", "consumed"} /\ pc[d] \in {"reused", "consumed"}
        => \/ pc[c] = "reused" /\ isLast[c]
           \/ pc[d] = "reused" /\ isLast[d]

\* "If it is the very last pre-key for the identity, it acts as a Last Resort
\* Pre-Key and is NOT consumed": a user never runs out of prekey files.  Two
\* calls at once that each count two files consume both.
LastResortKept == Key # {} => OnDisk # {}
=============================================================================
