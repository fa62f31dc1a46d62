------------------------------ MODULE Delivery ------------------------------
(***************************************************************************)
(* The life of a prekey from end to end: the directory and the calls of    *)
(* send (KdcPrekeys) together with the prekey files of one user, the       *)
(* Reader (LocalPrekeys).  upload_keys publishes what is on the Reader's   *)
(* disk, a sender reserves a row and uploads a file made with it, and the  *)
(* Reader decrypts the file, which consumes the private half.              *)
(*                                                                         *)
(* upload_keys reads the directory first and then talks to the server      *)
(* twice: when its bundle arrives, prekeys of it may have been consumed.   *)
(***************************************************************************)
EXTENDS KdcPrekeys

CONSTANTS Reader,    \* the user whose disk is followed
          MaxAtOnce  \* bound: decryptions at the same time

ASSUME ReaderAssumption == Reader \in User

VARIABLES disk,     \* the Reader's prekey files, as in LocalPrekeys
          tries,    \* tries[s]: where the decryption of the file of s stands
          want,     \* the prekey of its preamble
          isLast,   \* consume_prekey's local variable
          bundle    \* what a call of upload_keys read; {} when none is under way

local == <<disk, tries, want, isLast>>
dvars == <<vars, local, bundle>>

OwnKeys == {p \in Prekey : OwnerOf[p] = Reader}

\* The call of consume_prekey for the file of s is named s.
Local == INSTANCE LocalPrekeys WITH Key <- OwnKeys, Call <- Session, pc <- tries

DInit == Init /\ Local!Init /\ bundle = {}

\* get_unused_prekeys: every <id>.key on the disk.
ReadBundle ==
    /\ bundle = {}
    /\ bundle' = Local!OnDisk
    /\ UNCHANGED <<vars, local>>

\* The bundle arrives (the challenge and the rest of /register are in
\* KdcRegister), or one of the two requests fails.
Publish ==
    /\ bundle # {}
    /\ Register(Reader, bundle) \/ UNCHANGED vars
    /\ bundle' = {}
    /\ UNCHANGED local

\* A stored file is downloaded and decrypted as far as its preamble; of a body
\* that was cut the preamble may be there.
Decrypt(s) ==
    /\ s \in files
    /\ ReceiverOf[s] = Reader
    /\ Local!Count(s, offer[s])
    /\ UNCHANGED <<vars, bundle>>

ConsumeStep(s) ==
    /\ \/ Local!Decide(s) \/ Local!ReadLast(s) \/ Local!Rename(s)
       \/ Local!ReadRenamed(s) \/ Local!Remove(s) \/ Local!Die(s)
    /\ UNCHANGED <<vars, bundle>>

\* All that KdcPrekeys does; the Reader registers by Publish only.
Directory ==
    /\ \/ Tick \/ Crash
       \/ \E u \in User \ {Reader}, B \in SUBSET Prekey : Register(u, B)
       \/ \E s \in Session : KeysHandler(s) \/ UploadHandler(s) \/ ClientStep(s)
    /\ UNCHANGED <<local, bundle>>

DNext == \/ Directory \/ ReadBundle \/ Publish
         \/ \E s \in Session : Decrypt(s) \/ ConsumeStep(s)

DSpec == DInit /\ [][DNext]_dvars

FairDSpec == DSpec /\ Fairness

-----------------------------------------------------------------------------
(* Properties. *)

\* Every row the directory may still hand out has its private half on the
\* owner's disk: also when upload_keys publishes a bundle it read before some
\* of its prekeys were consumed.
OfferedIsOnDisk ==
    \A p \in RowsOf(Reader) \ used : disk[p] = "key"

\* A stored file that nobody tried to decrypt yet can be decrypted: the private
\* half of its prekey is on the Reader's disk, whatever was decrypted, killed
\* or registered again in between.
FirstTryHasKey ==
    \A s \in files : ReceiverOf[s] = Reader /\ tries[s] = "idle" =>
        disk[offer[s]] = "key"
=============================================================================
