----------------------------- MODULE ReplayLog -----------------------------
(***************************************************************************)
(* replay_log.py: the log of tool calls, its rotation into shards and a     *)
(* process that dies in between.  Records are numbered.                     *)
(***************************************************************************)
EXTENDS Naturals, Sequences, SequencesExt

CONSTANTS
    MaxBytes,   \* max_bytes, in records; 0 never rotates
    MaxRecords, \* bound: records written
    MaxFaults   \* bound: crashes and failed rotations

ASSUME ReplayAssumption ==
    MaxBytes \in Nat /\ MaxRecords \in Nat /\ MaxFaults \in Nat

VARIABLES
    active,     \* the records in the active file
    shards,     \* the complete shards, oldest first
    rotating,   \* where _rotate_locked is: "no", "closed", "zipped", "unlinked"
    fp,         \* whether the active file is open
    written,    \* ghost: the records that record() returned for
    faults

lvars == <<active, shards, rotating, fp, written, faults>>

LogInit ==
    /\ active = <<>> /\ shards = <<>>
    /\ rotating = "no" /\ fp = TRUE /\ written = 0 /\ faults = 0

(* The file is too long for one more record; an empty one is rotated too. *)
Full == MaxBytes > 0 /\ Len(active) + 1 > MaxBytes

(* record, under the lock: rotation comes before the write.  With the file   *)
(* closed (an earlier rotation failed) its assertion fails, and nothing is   *)
(* written.                                                                  *)
record ==
    /\ fp /\ rotating = "no" /\ written < MaxRecords /\ ~Full
    /\ active' = Append(active, written + 1) /\ written' = written + 1
    /\ UNCHANGED <<shards, rotating, fp, faults>>

RotateClose ==
    /\ fp /\ rotating = "no" /\ written < MaxRecords /\ Full
    /\ rotating' = "closed" /\ fp' = FALSE
    /\ UNCHANGED <<active, shards, written, faults>>

(* Mutant: the file is moved out of the way before it is copied. *)
UnlinkThenZip ==
    /\ rotating = "closed" /\ rotating' = "zipped" /\ active' = <<>>
    /\ UNCHANGED <<shards, fp, written, faults>>

(* The shard gets a name nobody has and a copy of the file. *)
RotateZip ==
    /\ rotating = "closed" /\ rotating' = "zipped"
    /\ shards' = Append(shards, active)
    /\ UNCHANGED <<active, fp, written, faults>>

(* The copy fails (a full disk): the exception leaves the file closed. *)
RotateFails ==
    /\ rotating = "closed" /\ faults < MaxFaults
    /\ rotating' = "no" /\ faults' = faults + 1
    /\ UNCHANGED <<active, shards, fp, written>>

RotateUnlink ==
    /\ rotating = "zipped" /\ rotating' = "unlinked"
    /\ active' = <<>>
    /\ UNCHANGED <<shards, fp, written, faults>>

_open ==
    /\ rotating = "unlinked" /\ rotating' = "no" /\ fp' = TRUE
    /\ UNCHANGED <<active, shards, written, faults>>

(* The process dies, in the middle of the copy at worst (the torn shard is   *)
(* none of `shards`), and starts again on the active file as it is.          *)
CrashRestart ==
    /\ faults < MaxFaults /\ faults' = faults + 1
    /\ rotating' = "no" /\ fp' = TRUE
    /\ UNCHANGED <<active, shards, written>>

LogNext == record \/ RotateClose \/ RotateZip \/ RotateFails \/ RotateUnlink \/ _open \/ CrashRestart

LogSpec == LogInit /\ [][LogNext]_lvars

InOrder(s) == \A i, j \in DOMAIN s : i < j => s[i] < s[j]

(* Every record that was written is in the active file or in a complete      *)
(* shard, and the shards and the active file, in their order, hold them in   *)
(* the order they were written, also after a crash within a rotation; one    *)
(* that follows the copy leaves the copied records twice.                    *)
NoRecordLost ==
    /\ Range(active) \cup UNION {Range(s) : s \in Range(shards)} = 1..written
    /\ InOrder(active) /\ \A s \in Range(shards) : InOrder(s)

(* What makes it inductive: the file is only emptied once it is a shard.     *)
LogInv ==
    /\ written \in Nat /\ active \in Seq(Nat) /\ shards \in Seq(Seq(Nat))
    /\ rotating \in {"no", "closed", "zipped", "unlinked"}
    /\ rotating = "zipped" => active \in Range(shards)
    /\ NoRecordLost
=============================================================================
