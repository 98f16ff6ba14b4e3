-------------------------- MODULE RecoveryUpdater --------------------------
(***************************************************************************)
(* The firmware update of src/recovery/recovery_updater.cpp: the image is  *)
(* written to two eMMC boot partitions, one after the other, each mapped   *)
(* into memory; the token area of a partition is saved before and put back *)
(* after, and its checksums are computed again.                            *)
(*                                                                         *)
(* The kernel is external: a store to the mapping reaches the eMMC at any  *)
(* later moment, and at the latest when the partition is closed.  The      *)
(* power may be lost between any two steps; the updater then starts over.  *)
(***************************************************************************)
EXTENDS Integers, Sequences

CONSTANTS Images,            \* firmware files
          Size,              \* of each, in blocks
          NumBlocks,         \* of a partition; the token area follows block 1
          Headers,           \* of each: the IFWI major in each FIP header
          IfwiBytes,         \* low and high byte of the device's IFWI major
          ParsedTokens,      \* inputs: how many bytes of fw_version parse
          MaxAttempts,       \* bound: calls of mofd.flash_ifwi
          MaxLosses,         \* bound: power losses
          NULL

ASSUME RecoveryAssumption ==
    /\ Headers \in [Images -> Seq(Nat)]
    /\ Size \in [Images -> Nat] /\ NumBlocks \in Nat \ {0, 1}
    /\ IfwiBytes \in [1 .. 2 -> 0 .. 255] /\ ParsedTokens \subseteq 0 .. 32
    /\ MaxAttempts \in Nat /\ MaxLosses \in Nat
    /\ "old" \notin Images /\ "garbage" \notin Images
    /\ NULL \notin Images \cup Int

Partitions == 0 .. 1
Blocks     == 1 .. NumBlocks
Fields     == {"tokens", "xor"}

VARIABLES disk,              \* what each partition keeps without power
          cache,             \* what the mapping of each shows
          writable,          \* force_ro of each partition is 0
          pc, boot_index, boot_partition_writable, token_data,   \* the updater
          image,             \* the file it was called with
          got,               \* how many of its blocks it read
          result,            \* what it returned, or NULL
          attempts, losses,
          sound,             \* history: both were intact when it was called
          before,            \* history: what each held then
          lockFailed         \* history: those it failed to make read-only

vars == <<disk, cache, writable, pc, boot_index, boot_partition_writable,
          token_data, image, got, result, attempts, losses, sound, before,
          lockFailed>>

history == <<attempts, losses, sound, before>>

\* A partition: its firmware, block by block the file it is of, its token area,
\* and the contents its checksums were computed from.
Partition(firmware, tokens) ==
    [firmware |-> firmware, tokens |-> tokens, xor |-> <<firmware, tokens>>]

Complete(partition) == partition.xor = <<partition.firmware, partition.tokens>>

Of(file) == [b \in Blocks |-> file]

\* Whole, of one firmware, and with the tokens of the device.
Intact(partition) ==
    /\ Complete(partition) /\ partition.tokens = "device"
    /\ \E file \in Images \cup {"old"} : partition.firmware = Of(file)

Init ==
    /\ disk = [p \in Partitions |-> Partition(Of("old"), "device")]
    /\ cache = disk
    /\ writable = [p \in Partitions |-> FALSE]
    /\ pc = "idle" /\ boot_index = 0 /\ boot_partition_writable = FALSE
    /\ token_data = NULL /\ image = NULL /\ got = 0 /\ result = NULL
    /\ attempts = 0 /\ losses = 0
    /\ sound = TRUE /\ before = disk
    /\ lockFailed = {}

-----------------------------------------------------------------------------
\* get_image_fw_rev: a header that leaves the major null does not change it.
ImageMajor(file) ==
    LET h == Headers[file]
        major[i \in 0 .. Len(h)] ==
            IF i = 0 THEN 0 ELSE IF h[i] # 0 THEN h[i] ELSE major[i - 1]
    IN  major[Len(h)]

\* get_current_fw_rev: bytes 18 and 19.  A text that stops to parse is no error;
\* the bytes from there on are 0.
DeviceMajor(parsed) ==
    (IF parsed > 18 THEN IfwiBytes[1] ELSE 0)
        + 256 * (IF parsed > 19 THEN IfwiBytes[2] ELSE 0)

\* check_ifwi_file_scu_emmc: a header is found, and the majors agree.
check_ifwi_file(file, parsed) ==
    Headers[file] # <<>> /\ ImageMajor(file) = DeviceMajor(parsed)

\* mofd.flash_ifwi is called and reads n blocks of the file, whose size it took
\* before.  The result of fread is ignored: after a short read the rest of the
\* buffer is what malloc left there, which may hold any header or none.  Opening
\* the file, or reading the versions of the device, may fail whatever it is.
FlashIfwi(file, parsed, n) ==
    /\ pc = "idle" /\ attempts < MaxAttempts
    /\ image' = file
    /\ attempts' = attempts + 1
    /\ before' = disk
    /\ boot_index' = 0 /\ boot_partition_writable' = FALSE
    /\ token_data' = NULL
    /\ LET bothIntact == \A p \in Partitions : Intact(disk[p])
       IN  \/ /\ n < Size[file] \/ check_ifwi_file(file, parsed)
              /\ pc' = "unlock" /\ result' = NULL /\ got' = n
              /\ sound' = (bothIntact /\ n >= NumBlocks)
           \/ /\ pc' = "idle" /\ result' = -1 /\ got' = 0
              /\ sound' = bothIntact
    /\ UNCHANGED <<disk, cache, writable, losses, lockFailed>>

\* Mutant: the flag that the error path looks at is not set.
Unlock_Unmarked ==
    /\ pc = "unlock"
    /\ writable' = [writable EXCEPT ![boot_index] = TRUE]
    /\ pc' = "map"
    /\ UNCHANGED <<disk, cache, boot_index, boot_partition_writable, token_data,
                   image, got, result, history, lockFailed>>

\* The partition is made writable, ...
Unlock ==
    /\ pc = "unlock"
    /\ writable' = [writable EXCEPT ![boot_index] = TRUE]
    /\ boot_partition_writable' = TRUE
    /\ pc' = "map"
    /\ UNCHANGED <<disk, cache, boot_index, token_data, image, got, result, history,
                   lockFailed>>

\* ... opened and mapped.
OpenAndMap ==
    /\ pc = "map"
    /\ pc' = "save"
    /\ UNCHANGED <<disk, cache, writable, boot_index, boot_partition_writable,
                   token_data, image, got, result, history, lockFailed>>

\* Any of the three may fail.
StepFails ==
    /\ pc \in {"unlock", "map"}
    /\ pc' = "error"
    /\ UNCHANGED <<disk, cache, writable, boot_index, boot_partition_writable,
                   token_data, image, got, result, history, lockFailed>>

\* The first Size[image] blocks of a partition are overwritten; what is longer
\* than the partition is cut off.
Overwritten(firmware) ==
    [b \in Blocks |-> IF b > Size[image] THEN firmware[b]
                      ELSE IF b <= got THEN image ELSE "garbage"]

\* What the mapping shows after the image is copied: with the rest the image's
\* own token area, if it is long enough, and its own checksums.
Copied(partition) ==
    [firmware |-> Overwritten(partition.firmware),
     tokens   |-> IF Size[image] > 1 THEN "image" ELSE partition.tokens,
     xor      |-> <<[b \in Blocks |-> IF b > Size[image] THEN NULL ELSE image],
                    "image">>]

\* Mutant: the token area is copied out after the image was copied in.
WriteImage_SaveLate ==
    /\ pc = "save"
    /\ cache' = [cache EXCEPT ![boot_index] = Copied(@)]
    /\ token_data' = cache'[boot_index].tokens
    /\ pc' = "restore"
    /\ UNCHANGED <<disk, writable, boot_index, boot_partition_writable, image,
                   got, result, history, lockFailed>>

\* The token area is copied out before.
WriteImage ==
    /\ pc = "save"
    /\ token_data' = cache[boot_index].tokens
    /\ cache' = [cache EXCEPT ![boot_index] = Copied(@)]
    /\ pc' = "restore"
    /\ UNCHANGED <<disk, writable, boot_index, boot_partition_writable, image,
                   got, result, history, lockFailed>>

RestoreTokens ==
    /\ pc = "restore"
    /\ cache' = [cache EXCEPT ![boot_index].tokens = token_data]
    /\ pc' = "xor"
    /\ UNCHANGED <<disk, writable, boot_index, boot_partition_writable,
                   token_data, image, got, result, history, lockFailed>>

\* Mutant: the checksums stay those of the image file.
XorUpdate_Skipped ==
    /\ pc = "xor"
    /\ pc' = "close"
    /\ UNCHANGED <<disk, cache, writable, boot_index, boot_partition_writable,
                   token_data, image, got, result, history, lockFailed>>

\* xor_update: the checksums are those of what the mapping holds now.
XorUpdate ==
    /\ pc = "xor"
    /\ cache' = [cache EXCEPT ![boot_index] = Partition(@.firmware, @.tokens)]
    /\ pc' = "close"
    /\ UNCHANGED <<disk, writable, boot_index, boot_partition_writable,
                   token_data, image, got, result, history, lockFailed>>

\* munmap and close: the last close of a partition writes back what is left.
Close ==
    /\ pc = "close"
    /\ disk' = [disk EXCEPT ![boot_index] = cache[boot_index]]
    /\ pc' = "lock"
    /\ UNCHANGED <<cache, writable, boot_index, boot_partition_writable,
                   token_data, image, got, result, history, lockFailed>>

MorePartitions == boot_index + 1 < 2

\* The partition is made read-only again and the next one has its turn.
Lock ==
    /\ pc = "lock"
    /\ writable' = [writable EXCEPT ![boot_index] = FALSE]
    /\ lockFailed' = lockFailed \ {boot_index}
    /\ boot_partition_writable' = FALSE
    /\ IF MorePartitions
       THEN pc' = "unlock" /\ boot_index' = boot_index + 1 /\ UNCHANGED result
       ELSE pc' = "idle" /\ result' = 0 /\ UNCHANGED boot_index
    /\ UNCHANGED <<disk, cache, token_data, image, got, history>>

LockFails ==
    /\ pc = "lock"
    /\ pc' = "error"
    /\ UNCHANGED <<disk, cache, writable, boot_index, boot_partition_writable,
                   token_data, image, got, result, history, lockFailed>>

\* err_boot1: a partition that was made writable is made read-only, if that works.
ErrorPath ==
    /\ pc = "error"
    /\ \/ /\ boot_partition_writable
          /\ writable' = [writable EXCEPT ![boot_index] = FALSE]
          /\ lockFailed' = lockFailed \ {boot_index}
       \/ /\ boot_partition_writable
          /\ lockFailed' = lockFailed \union {boot_index}
          /\ UNCHANGED writable
       \/ /\ ~boot_partition_writable
          /\ UNCHANGED <<writable, lockFailed>>
    /\ pc' = "idle" /\ result' = -1
    /\ UNCHANGED <<disk, cache, boot_index, boot_partition_writable, token_data,
                   image, got, history>>

-----------------------------------------------------------------------------
\* External: the kernel writes a dirty page back, in an order of its own: one
\* of the firmware ...
WriteBlock(p, b) ==
    /\ disk[p].firmware[b] # cache[p].firmware[b]
    /\ disk' = [disk EXCEPT ![p].firmware[b] = cache[p].firmware[b]]
    /\ UNCHANGED <<cache, writable, pc, boot_index, boot_partition_writable,
                   token_data, image, got, result, history, lockFailed>>

\* ... or one of the tokens or the checksums.
WriteBack(p, field) ==
    /\ disk[p][field] # cache[p][field]
    /\ disk' = [disk EXCEPT ![p][field] = cache[p][field]]
    /\ UNCHANGED <<cache, writable, pc, boot_index, boot_partition_writable,
                   token_data, image, got, result, history, lockFailed>>

\* External: the power goes.  The eMMC keeps what was written back, and its
\* boot partitions come up read-only.
PowerLoss ==
    /\ losses < MaxLosses
    /\ losses' = losses + 1
    /\ cache' = disk
    /\ writable' = [p \in Partitions |-> FALSE] /\ lockFailed' = {}
    /\ pc' = "idle" /\ boot_index' = 0 /\ boot_partition_writable' = FALSE
    /\ token_data' = NULL /\ image' = NULL /\ got' = 0 /\ result' = NULL
    /\ UNCHANGED <<disk, attempts, sound, before>>

Next ==
    \/ \E file \in Images, parsed \in ParsedTokens :
           \E n \in 0 .. Size[file] : FlashIfwi(file, parsed, n)
    \/ Unlock \/ OpenAndMap \/ StepFails
    \/ WriteImage \/ RestoreTokens \/ XorUpdate \/ Close
    \/ Lock \/ LockFails \/ ErrorPath
    \/ \E p \in Partitions, b \in Blocks : WriteBlock(p, b)
    \/ \E p \in Partitions, field \in Fields : WriteBack(p, field)
    \/ PowerLoss

Spec == Init /\ [][Next]_vars

-----------------------------------------------------------------------------
(* An update that began with two intact partitions, and read a whole        *)
(* partition from its file, leaves one on the eMMC at every moment, wherever *)
(* it fails or loses the power and whatever the kernel wrote back by then:   *)
(* one firmware, checksums that fit and the tokens of the device             *)
(* (write_umip_emmc works on one partition at a time).  A read that is cut   *)
(* short and a file shorter than a partition are no errors to the code       *)
(* (recovery_updater.cpp 199-203, 338) and are not covered.                  *)
OnePartitionIntact == sound => \E p \in Partitions : Intact(disk[p])

(* When flash_ifwi succeeds both partitions hold what it read of the file,   *)
(* and past the end of the file what they held before, with checksums that   *)
(* fit and the tokens each had before the call, also where an earlier call   *)
(* was cut off.  Nothing is said of blocks of the file that it did not read. *)
SuccessMeansBoth ==
    result = 0 => \A p \in Partitions :
        /\ Complete(disk[p])
        /\ disk[p].tokens = before[p].tokens
        /\ \A b \in Blocks :
              /\ b <= got => disk[p].firmware[b] = image
              /\ b > Size[image] => disk[p].firmware[b] = before[p].firmware[b]

(* Once the updater has returned, on any path, a boot partition is writable *)
(* only if the last try to make it read-only failed (err_boot1 repeats it). *)
ReadOnlyAfterwards ==
    pc = "idle" => {p \in Partitions : writable[p]} \subseteq lockFailed

Turn == IF pc = "idle" THEN NULL ELSE boot_index

Updated == INSTANCE TwoSlotUpdate
    WITH Files <- Images, Length <- Size, Last <- NumBlocks, None <- NULL,
         slot <- disk, turn <- Turn, file <- image, kept <- before

(* Whatever the kernel wrote back by then, the eMMC gets what was read of    *)
(* the file a partition at a time: the second is not touched before the      *)
(* first has all of it, checksums that fit and its own tokens, success means *)
(* both have, and a call that fails leaves each as it was or as it is to be  *)
(* (write_umip_emmc).                                                        *)
ImplementsTwoSlotUpdate == Updated!Spec

=============================================================================
