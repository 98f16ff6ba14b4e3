------------------------ MODULE RecoveryUpdaterProofs ------------------------
(***************************************************************************)
(* Proofs about RecoveryUpdater, for any set of files, any number of calls *)
(* and of power losses, and any order in which the kernel writes back.     *)
(***************************************************************************)
EXTENDS RecoveryUpdater, TLAPS

TokenAreas == {"device", "image"}
Sources    == Images \union {"old", "garbage"}
Firmwares  == [Blocks -> Sources]
Contents   == [firmware : Firmwares, tokens : TokenAreas,
               xor : [Blocks -> Sources \union {NULL}] \X TokenAreas]

IntactContents == { c \in Contents : Intact(c) }

\* The mapping of the partition under work holds stores of the updater.
Dirty == pc \in {"restore", "xor", "close"}

\* The updater works on the file and has not failed.
Working == Dirty \/ pc \in {"unlock", "map", "save", "lock"}

\* What the call is to leave in each partition.
Goal == [p \in Partitions |-> Partition(Overwritten(before[p].firmware), before[p].tokens)]

TypeOK ==
    /\ disk \in [Partitions -> Contents] /\ cache \in [Partitions -> Contents]
    /\ writable \in [Partitions -> BOOLEAN]
    /\ Working \/ pc \in {"idle", "error"}
    /\ boot_index \in Partitions /\ boot_partition_writable \in BOOLEAN
    /\ pc # "idle" => image \in Images /\ got \in 0 .. Size[image]
    /\ pc = "restore" => token_data \in TokenAreas
    /\ before \in [Partitions -> Contents] /\ sound \in BOOLEAN

\* Only the partition under work may differ from its mapping.
OthersWrittenBack ==
    \A p \in Partitions : disk[p] # cache[p] => Dirty /\ p = boot_index

\* What the mapping of the partition under work shows at each step.
WorkInMapping ==
    /\ pc = "restore" => token_data = before[boot_index].tokens
    /\ pc \in {"xor", "close"} => cache[boot_index].tokens = before[boot_index].tokens
    /\ Dirty => cache[boot_index].firmware = Overwritten(before[boot_index].firmware)
    /\ pc = "close" => Complete(cache[boot_index])

\* A partition the updater is done with holds what it is to; one still to come
\* holds what it held.
Progress ==
    Working => \A p \in Partitions :
        /\ p < boot_index \/ (p = boot_index /\ pc = "lock") => disk[p] = Goal[p]
        /\ p > boot_index \/ (p = boot_index /\ pc \in {"unlock", "map", "save"}) =>
             disk[p] = before[p]

\* When the update began with two intact partitions and a whole image, at most
\* the one under work is damaged; while the updater is idle, one that a power
\* loss cut off.
AtMostOneDamaged ==
    sound => /\ pc # "idle" => \A p \in Partitions :
                    disk[p] \in IntactContents \/ (Dirty /\ p = boot_index)
             /\ pc # "idle" => \A p \in Partitions : Goal[p] \in IntactContents
             /\ \E p \in Partitions : disk[p] \in IntactContents

\* What was made writable is under work, or could not be made read-only.
WritableIsUnderWork ==
    \A p \in Partitions : writable[p] =>
        \/ p \in lockFailed
        \/ pc # "idle" /\ p = boot_index /\ boot_partition_writable

\* The result is that of the last call, once it ended.
ResultIsFinal == result = 0 => pc = "idle"

\* A call that succeeded has both partitions hold what they are to.
SuccessIsGoal ==
    result = 0 => /\ image \in Images /\ got \in 0 .. Size[image]
                  /\ \A p \in Partitions : disk[p] = Goal[p]

IInv == /\ TypeOK /\ OthersWrittenBack /\ WorkInMapping /\ Progress
        /\ AtMostOneDamaged /\ WritableIsUnderWork /\ ResultIsFinal
        /\ SuccessIsGoal

-----------------------------------------------------------------------------
\* A partition whose checksums fit is determined by its firmware and tokens.
LEMMA WholePartition ==
    ASSUME NEW c \in Contents, Complete(c)
    PROVE  c = Partition(c.firmware, c.tokens)
BY DEF Contents, Complete, Partition

\* What xor_update leaves: checksums that fit, the rest as it was
\* (recovery_updater.cpp 131-146).
LEMMA PartitionFacts ==
    ASSUME NEW firmware \in Firmwares, NEW tokens \in TokenAreas
    PROVE  LET c == Partition(firmware, tokens)
           IN  /\ c \in Contents /\ Complete(c)
               /\ c.firmware = firmware /\ c.tokens = tokens
<1>1. firmware \in [Blocks -> Sources \union {NULL}]
  BY DEF Firmwares
<1> QED
  BY <1>1 DEF Contents, Complete, Partition

\* Copying the image leaves every block of the file, of what the buffer held
\* besides, or of the partition (recovery_updater.cpp 199-203).
LEMMA OverwrittenFacts ==
    ASSUME image \in Images, NEW firmware \in Firmwares
    PROVE  Overwritten(firmware) \in Firmwares
BY DEF Overwritten, Firmwares, Sources

\* What a call is to leave has checksums that fit and the tokens from before.
LEMMA GoalFacts ==
    ASSUME image \in Images, before \in [Partitions -> Contents], NEW p \in Partitions
    PROVE  /\ Goal[p] \in Contents /\ Complete(Goal[p])
           /\ Goal[p].firmware = Overwritten(before[p].firmware)
           /\ Goal[p].tokens = before[p].tokens
           /\ Goal[p] = Partition(Overwritten(before[p].firmware), before[p].tokens)
<1>1. before[p].firmware \in Firmwares /\ before[p].tokens \in TokenAreas
  <2>1. before[p] \in Contents
    OBVIOUS
  <2> QED
    BY <2>1 DEF Contents
<1>2. Overwritten(before[p].firmware) \in Firmwares
  BY <1>1, OverwrittenFacts
<1>3. Goal[p] = Partition(Overwritten(before[p].firmware), before[p].tokens)
  BY DEF Goal
<1> QED
  BY <1>1, <1>2, <1>3, PartitionFacts

\* It stays the same while the call does.
LEMMA GoalSame ==
    ASSUME UNCHANGED <<image, got, before>>
    PROVE  Goal' = Goal
BY DEF Goal, Overwritten

\* A partition becomes writable only while it is under work, and is marked so.
LEMMA UnlockInv ==
    ASSUME IInv, Unlock
    PROVE  IInv'
<1>0. Goal' = Goal
  BY GoalSame DEF Unlock, history
<1>1. TypeOK'
  BY DEF Unlock, history, IInv, TypeOK, Working, Dirty
<1>2. OthersWrittenBack'
  BY DEF Unlock, history, IInv, OthersWrittenBack, Dirty
<1>3. WorkInMapping'
  BY DEF Unlock, history, IInv, WorkInMapping, Dirty
<1>4. Progress'
  BY <1>0 DEF Unlock, history, IInv, Progress, Working, Dirty
<1>5. AtMostOneDamaged'
  BY <1>0 DEF Unlock, history, IInv, AtMostOneDamaged, Dirty
<1>6. WritableIsUnderWork'
  BY DEF Unlock, history, IInv, TypeOK, WritableIsUnderWork
<1>7. ResultIsFinal' /\ SuccessIsGoal'
  BY <1>0 DEF Unlock, history, IInv, ResultIsFinal, SuccessIsGoal
<1> QED
  BY <1>1, <1>2, <1>3, <1>4, <1>5, <1>6, <1>7 DEF IInv

\* Opening and mapping change no contents.
LEMMA OpenAndMapInv ==
    ASSUME IInv, OpenAndMap
    PROVE  IInv'
<1>0. Goal' = Goal
  BY GoalSame DEF OpenAndMap, history
<1>1. TypeOK'
  BY DEF OpenAndMap, history, IInv, TypeOK, Working, Dirty
<1>2. OthersWrittenBack'
  BY DEF OpenAndMap, history, IInv, OthersWrittenBack, Dirty
<1>3. WorkInMapping'
  BY DEF OpenAndMap, history, IInv, WorkInMapping, Dirty
<1>4. Progress'
  BY <1>0 DEF OpenAndMap, history, IInv, Progress, Working, Dirty
<1>5. AtMostOneDamaged'
  BY <1>0 DEF OpenAndMap, history, IInv, AtMostOneDamaged, Dirty
<1>6. WritableIsUnderWork'
  BY DEF OpenAndMap, history, IInv, TypeOK, WritableIsUnderWork
<1>7. ResultIsFinal' /\ SuccessIsGoal'
  BY <1>0 DEF OpenAndMap, history, IInv, ResultIsFinal, SuccessIsGoal
<1> QED
  BY <1>1, <1>2, <1>3, <1>4, <1>5, <1>6, <1>7 DEF IInv

\* A failure before the first store leaves every partition as it was.
LEMMA StepFailsInv ==
    ASSUME IInv, StepFails
    PROVE  IInv'
<1>0. Goal' = Goal
  BY GoalSame DEF StepFails, history
<1>1. TypeOK'
  BY DEF StepFails, history, IInv, TypeOK, Working, Dirty
<1>2. OthersWrittenBack'
  BY DEF StepFails, history, IInv, OthersWrittenBack, Dirty
<1>3. WorkInMapping'
  BY DEF StepFails, history, IInv, WorkInMapping, Dirty
<1>4. Progress'
  BY <1>0 DEF StepFails, history, IInv, Progress, Working, Dirty
<1>5. AtMostOneDamaged'
  BY <1>0 DEF StepFails, history, IInv, AtMostOneDamaged, Dirty
<1>6. WritableIsUnderWork'
  BY DEF StepFails, history, IInv, TypeOK, WritableIsUnderWork
<1>7. ResultIsFinal' /\ SuccessIsGoal'
  BY <1>0 DEF StepFails, history, IInv, ResultIsFinal, SuccessIsGoal
<1> QED
  BY <1>1, <1>2, <1>3, <1>4, <1>5, <1>6, <1>7 DEF IInv

\* The token area is copied out of the partition before the image overwrites it
\* (recovery_updater.cpp 195-206).
LEMMA WriteImageInv ==
    ASSUME IInv, WriteImage
    PROVE  IInv'
<1>0. Goal' = Goal
  BY GoalSame DEF WriteImage, history
<1> DEFINE old == cache[boot_index]
<1>a. /\ boot_index \in Partitions /\ image \in Images /\ old \in Contents
      /\ old = before[boot_index]
  BY DEF WriteImage, IInv, TypeOK, OthersWrittenBack, Progress, Working, Dirty
<1>b. /\ Copied(old) \in Contents
      /\ Copied(old).firmware = Overwritten(old.firmware)
  <2>1. old.firmware \in Firmwares /\ old.tokens \in TokenAreas
    BY <1>a DEF Contents
  <2>2. Overwritten(old.firmware) \in Firmwares
    BY <1>a, <2>1, OverwrittenFacts
  <2>3. [b \in Blocks |-> IF b > Size[image] THEN NULL ELSE image]
            \in [Blocks -> Sources \union {NULL}]
    BY <1>a DEF Sources
  <2>4. (IF Size[image] > 1 THEN "image" ELSE old.tokens) \in TokenAreas
    BY <2>1 DEF TokenAreas
  <2> HIDE DEF old
  <2> QED
    BY <2>2, <2>3, <2>4 DEF Copied, Contents, TokenAreas
<1>c. cache' = [cache EXCEPT ![boot_index] = Copied(old)]
  BY DEF WriteImage
<1>1. TypeOK'
  <2>1. token_data' \in TokenAreas
    BY <1>a DEF WriteImage, Contents
  <2>2. cache' \in [Partitions -> Contents]
    BY <1>b, <1>c DEF IInv, TypeOK
  <2> QED
    BY <2>1, <2>2 DEF WriteImage, history, IInv, TypeOK, Working, Dirty
<1>2. OthersWrittenBack'
  BY <1>c
  DEF WriteImage, history, IInv, TypeOK, OthersWrittenBack, Working, Dirty,
      Partitions
<1>3. WorkInMapping'
  <2>1. cache'[boot_index].firmware = Overwritten(before[boot_index].firmware)
    BY <1>a, <1>b, <1>c DEF IInv, TypeOK
  <2>2. token_data' = before[boot_index].tokens
    BY <1>a DEF WriteImage
  <2>3. Overwritten(before[boot_index].firmware)' = Overwritten(before[boot_index].firmware)
    BY DEF WriteImage, history, Overwritten
  <2> QED
    BY <2>1, <2>2, <2>3 DEF WriteImage, history, WorkInMapping, Dirty
<1>4. Progress'
  BY <1>0 DEF WriteImage, history, IInv, TypeOK, Progress, Working, Dirty, Partitions
<1>5. AtMostOneDamaged'
  BY <1>0 DEF WriteImage, history, IInv, AtMostOneDamaged, Dirty
<1>6. WritableIsUnderWork'
  BY DEF WriteImage, history, IInv, WritableIsUnderWork
<1>7. ResultIsFinal' /\ SuccessIsGoal'
  BY <1>0 DEF WriteImage, history, IInv, ResultIsFinal, SuccessIsGoal
<1> QED
  BY <1>1, <1>2, <1>3, <1>4, <1>5, <1>6, <1>7 DEF IInv

\* The token area put back is the one the partition had before the call.
LEMMA RestoreTokensInv ==
    ASSUME IInv, RestoreTokens
    PROVE  IInv'
<1>0. Goal' = Goal
  BY GoalSame DEF RestoreTokens, history
<1> DEFINE new == [cache[boot_index] EXCEPT !.tokens = token_data]
<1>a. /\ boot_index \in Partitions
      /\ cache[boot_index] \in Contents /\ token_data \in TokenAreas
  BY DEF RestoreTokens, IInv, TypeOK
<1>b. /\ new \in Contents /\ new.tokens = token_data
      /\ new.firmware = cache[boot_index].firmware
  BY <1>a DEF Contents
<1>c. cache' = [cache EXCEPT ![boot_index] = new]
  BY DEF RestoreTokens
<1> HIDE DEF new
<1>1. TypeOK'
  <2>1. cache' \in [Partitions -> Contents]
    BY <1>b, <1>c DEF IInv, TypeOK
  <2> QED
    BY <2>1 DEF RestoreTokens, history, IInv, TypeOK, Working, Dirty
<1>2. OthersWrittenBack'
  BY <1>c
  DEF RestoreTokens, history, IInv, TypeOK, OthersWrittenBack, Dirty
<1>3. WorkInMapping'
  <2>1. cache'[boot_index] = new
    BY <1>a, <1>c DEF IInv, TypeOK
  <2>2. Overwritten(before[boot_index].firmware)' = Overwritten(before[boot_index].firmware)
    BY DEF RestoreTokens, history, Overwritten
  <2> QED
    BY <1>b, <2>1, <2>2 DEF RestoreTokens, history, IInv, WorkInMapping, Dirty
<1>4. Progress'
  BY <1>0 DEF RestoreTokens, history, IInv, TypeOK, Progress, Working, Dirty, Partitions
<1>5. AtMostOneDamaged'
  BY <1>0 DEF RestoreTokens, history, IInv, AtMostOneDamaged, Dirty
<1>6. WritableIsUnderWork'
  BY DEF RestoreTokens, history, IInv, WritableIsUnderWork
<1>7. ResultIsFinal' /\ SuccessIsGoal'
  BY <1>0 DEF RestoreTokens, history, IInv, ResultIsFinal, SuccessIsGoal
<1> QED
  BY <1>1, <1>2, <1>3, <1>4, <1>5, <1>6, <1>7 DEF IInv

\* The checksums are computed after the token area was put back.
LEMMA XorUpdateInv ==
    ASSUME IInv, XorUpdate
    PROVE  IInv'
<1>0. Goal' = Goal
  BY GoalSame DEF XorUpdate, history
<1> DEFINE summed == Partition(cache[boot_index].firmware, cache[boot_index].tokens)
<1>a. /\ summed \in Contents /\ Complete(summed)
      /\ summed.firmware = cache[boot_index].firmware
      /\ summed.tokens = cache[boot_index].tokens
      /\ cache' = [cache EXCEPT ![boot_index] = summed]
  <2>1. cache[boot_index] \in Contents
    BY DEF IInv, TypeOK
  <2>2. /\ cache[boot_index].firmware \in Firmwares
        /\ cache[boot_index].tokens \in TokenAreas
    BY <2>1 DEF Contents
  <2> QED
    BY <2>2, PartitionFacts DEF XorUpdate
<1> HIDE DEF summed
<1>1. TypeOK'
  BY <1>a DEF XorUpdate, history, IInv, TypeOK, Working, Dirty
<1>2. OthersWrittenBack'
  BY <1>a DEF XorUpdate, history, IInv, TypeOK, OthersWrittenBack, Dirty
<1>3. WorkInMapping'
  <2>1. cache'[boot_index] = summed
    BY <1>a DEF IInv, TypeOK
  <2>2. Overwritten(before[boot_index].firmware)' = Overwritten(before[boot_index].firmware)
    BY DEF XorUpdate, history, Overwritten
  <2> QED
    BY <1>a, <2>1, <2>2
    DEF XorUpdate, history, IInv, WorkInMapping, Complete, Dirty
<1>4. Progress'
  BY <1>0 DEF XorUpdate, history, IInv, TypeOK, Progress, Working, Dirty, Partitions
<1>5. AtMostOneDamaged'
  BY <1>0 DEF XorUpdate, history, IInv, AtMostOneDamaged, Dirty
<1>6. WritableIsUnderWork'
  BY DEF XorUpdate, history, IInv, WritableIsUnderWork
<1>7. ResultIsFinal' /\ SuccessIsGoal'
  BY <1>0 DEF XorUpdate, history, IInv, ResultIsFinal, SuccessIsGoal
<1> QED
  BY <1>1, <1>2, <1>3, <1>4, <1>5, <1>6, <1>7 DEF IInv

\* Closing writes back the rest: the partition holds what it is to.
LEMMA CloseInv ==
    ASSUME IInv, Close
    PROVE  IInv'
<1>0. Goal' = Goal
  BY GoalSame DEF Close, history
<1>a. boot_index \in Partitions /\ cache[boot_index] = Goal[boot_index]
  <2>1. /\ boot_index \in Partitions /\ image \in Images
        /\ before \in [Partitions -> Contents] /\ cache[boot_index] \in Contents
    BY DEF Close, IInv, TypeOK
  <2>2. /\ Complete(cache[boot_index])
        /\ cache[boot_index].firmware = Overwritten(before[boot_index].firmware)
        /\ cache[boot_index].tokens = before[boot_index].tokens
    BY DEF Close, IInv, WorkInMapping, Dirty
  <2> QED
    BY <2>1, <2>2, WholePartition, GoalFacts
<1>b. /\ disk' \in [Partitions -> Contents] /\ disk'[boot_index] = Goal[boot_index]
      /\ \A p \in Partitions \ {boot_index} : disk'[p] = disk[p]
  BY <1>a DEF Close, IInv, TypeOK
<1>1. TypeOK'
  BY <1>b DEF Close, history, IInv, TypeOK, Working, Dirty
<1>2. OthersWrittenBack'
  BY <1>a, <1>b DEF Close, history, IInv, OthersWrittenBack, Dirty
<1>3. WorkInMapping'
  BY DEF Close, history, WorkInMapping, Dirty
<1>4. Progress'
  BY <1>0, <1>a, <1>b
  DEF Close, history, IInv, Progress, Working, Dirty, Partitions
<1>5. AtMostOneDamaged'
  BY <1>0, <1>a, <1>b DEF Close, history, IInv, AtMostOneDamaged, Dirty
<1>6. WritableIsUnderWork'
  BY DEF Close, history, IInv, WritableIsUnderWork
<1>7. ResultIsFinal' /\ SuccessIsGoal'
  BY DEF Close, history, IInv, ResultIsFinal, SuccessIsGoal
<1> QED
  BY <1>1, <1>2, <1>3, <1>4, <1>5, <1>6, <1>7 DEF IInv

\* The next partition has its turn when this one is done; after the last one
\* the call succeeds, with both done.
LEMMA LockInv ==
    ASSUME IInv, Lock
    PROVE  IInv'
<1>0. Goal' = Goal
  BY GoalSame DEF Lock, history
<1>1. TypeOK'
  <2>1. writable' \in [Partitions -> BOOLEAN]
    BY DEF Lock, IInv, TypeOK
  <2>2. boot_partition_writable' \in BOOLEAN
    BY DEF Lock, IInv, TypeOK
  <2>3. boot_index' \in Partitions
    BY DEF Lock, IInv, TypeOK, MorePartitions, Partitions
  <2> QED
    BY <2>1, <2>2, <2>3 DEF Lock, history, IInv, TypeOK, Working, Dirty
<1>2. OthersWrittenBack'
  BY DEF Lock, history, IInv, OthersWrittenBack, Dirty
<1>3. WorkInMapping'
  BY DEF Lock, history, WorkInMapping, Dirty
<1>4. Progress'
  BY <1>0
  DEF Lock, history, MorePartitions, IInv, TypeOK, Progress, Working, Dirty,
      Partitions
<1>5. AtMostOneDamaged'
  BY <1>0 DEF Lock, history, IInv, AtMostOneDamaged, Dirty
<1>6. WritableIsUnderWork'
  BY DEF Lock, history, MorePartitions, IInv, TypeOK, WritableIsUnderWork,
         Partitions
<1>7. ResultIsFinal'
  BY DEF Lock, history, MorePartitions, IInv, ResultIsFinal
<1>8. SuccessIsGoal'
  <2>1. SUFFICES ASSUME result' = 0
                 PROVE  /\ image \in Images /\ got \in 0 .. Size[image]
                        /\ \A p \in Partitions : disk[p] = Goal[p]
    BY <1>0 DEF Lock, history, SuccessIsGoal
  <2>2. boot_index = 1
    BY <2>1 DEF Lock, IInv, ResultIsFinal, TypeOK, Partitions, MorePartitions
  <2>3. \A p \in Partitions : disk[p] = Goal[p]
    BY <2>2 DEF Lock, IInv, Progress, Working, Partitions
  <2> QED
    BY <2>3 DEF Lock, IInv, TypeOK
<1> QED
  BY <1>1, <1>2, <1>3, <1>4, <1>5, <1>6, <1>7, <1>8 DEF IInv

\* Locking fails only when the partition is done.
LEMMA LockFailsInv ==
    ASSUME IInv, LockFails
    PROVE  IInv'
<1>0. Goal' = Goal
  BY GoalSame DEF LockFails, history
<1>1. TypeOK'
  BY DEF LockFails, history, IInv, TypeOK, Working, Dirty
<1>2. OthersWrittenBack'
  BY DEF LockFails, history, IInv, OthersWrittenBack, Dirty
<1>3. WorkInMapping'
  BY DEF LockFails, history, IInv, WorkInMapping, Dirty
<1>4. Progress'
  BY <1>0 DEF LockFails, history, IInv, Progress, Working, Dirty
<1>5. AtMostOneDamaged'
  BY <1>0 DEF LockFails, history, IInv, AtMostOneDamaged, Dirty
<1>6. WritableIsUnderWork'
  BY DEF LockFails, history, IInv, TypeOK, WritableIsUnderWork
<1>7. ResultIsFinal' /\ SuccessIsGoal'
  BY <1>0 DEF LockFails, history, IInv, ResultIsFinal, SuccessIsGoal
<1> QED
  BY <1>1, <1>2, <1>3, <1>4, <1>5, <1>6, <1>7 DEF IInv

\* The error path touches no contents.
LEMMA ErrorPathInv ==
    ASSUME IInv, ErrorPath
    PROVE  IInv'
<1>0. Goal' = Goal
  BY GoalSame DEF ErrorPath, history
<1>1. TypeOK'
  <2>1. writable' \in [Partitions -> BOOLEAN]
    BY DEF ErrorPath, IInv, TypeOK
  <2>2. boot_partition_writable' \in BOOLEAN
    BY DEF ErrorPath, IInv, TypeOK
  <2> QED
    BY <2>1, <2>2 DEF ErrorPath, history, IInv, TypeOK, Working, Dirty
<1>2. OthersWrittenBack'
  BY DEF ErrorPath, history, IInv, OthersWrittenBack, Dirty
<1>3. WorkInMapping' /\ Progress'
  BY DEF ErrorPath, history, WorkInMapping, Progress, Working, Dirty
<1>4. AtMostOneDamaged'
  BY <1>0 DEF ErrorPath, history, IInv, AtMostOneDamaged, Dirty
<1>5. WritableIsUnderWork'
  BY DEF ErrorPath, history, IInv, TypeOK, WritableIsUnderWork
<1>6. ResultIsFinal' /\ SuccessIsGoal'
  BY DEF ErrorPath, ResultIsFinal, SuccessIsGoal
<1> QED
  BY <1>1, <1>2, <1>3, <1>4, <1>5, <1>6 DEF IInv

\* Whatever was written back of the partition under work, the other one is as
\* it was or done.
LEMMA PowerLossInv ==
    ASSUME IInv, PowerLoss
    PROVE  IInv'
<1>1. TypeOK'
  <2>1. writable' \in [Partitions -> BOOLEAN]
    BY DEF PowerLoss, IInv, TypeOK
  <2>2. boot_partition_writable' \in BOOLEAN
    BY DEF PowerLoss, IInv, TypeOK
  <2> QED
    BY <2>1, <2>2 DEF PowerLoss, history, IInv, TypeOK, Working, Dirty,
       Partitions
<1>2. OthersWrittenBack' /\ WorkInMapping' /\ Progress'
  BY DEF PowerLoss, OthersWrittenBack, WorkInMapping, Progress, Working, Dirty
<1>3. AtMostOneDamaged'
  BY DEF PowerLoss, IInv, AtMostOneDamaged
<1>4. WritableIsUnderWork'
  BY DEF PowerLoss, WritableIsUnderWork
<1>5. ResultIsFinal' /\ SuccessIsGoal'
  BY RecoveryAssumption DEF PowerLoss, ResultIsFinal, SuccessIsGoal
<1> QED
  BY <1>1, <1>2, <1>3, <1>4, <1>5 DEF IInv

\* The device starts with two intact, read-only partitions.
LEMMA InitInv == Init => IInv
<1> SUFFICES ASSUME Init PROVE IInv
  OBVIOUS
<1>1. Partition(Of("old"), "device") \in IntactContents
  <2>1. Of("old") \in Firmwares /\ "device" \in TokenAreas
    BY DEF Of, Firmwares, Sources, TokenAreas
  <2> QED
    BY <2>1, PartitionFacts DEF IntactContents, Intact
<1>2. disk \in [Partitions -> Contents] /\ \A p \in Partitions : disk[p] \in IntactContents
  BY <1>1 DEF Init, IntactContents
<1>3. TypeOK
  <2>1. writable \in [Partitions -> BOOLEAN]
    BY DEF Init
  <2>2. boot_partition_writable \in BOOLEAN /\ sound \in BOOLEAN
    BY DEF Init
  <2> QED
    BY <1>2, <2>1, <2>2 DEF Init, TypeOK, Working, Dirty, Partitions
<1>4. OthersWrittenBack /\ WorkInMapping /\ Progress
  BY DEF Init, OthersWrittenBack, WorkInMapping, Progress, Working, Dirty
<1>5. AtMostOneDamaged /\ WritableIsUnderWork
  BY <1>2 DEF Init, AtMostOneDamaged, WritableIsUnderWork, Partitions
<1>6. ResultIsFinal /\ SuccessIsGoal
  BY RecoveryAssumption DEF Init, ResultIsFinal, SuccessIsGoal
<1> QED
  BY <1>3, <1>4, <1>5, <1>6 DEF IInv

\* A call takes stock of the two partitions and changes neither.
LEMMA FlashIfwiInv ==
    ASSUME IInv, NEW file \in Images, NEW parsed \in ParsedTokens,
           NEW n \in 0 .. Size[file], FlashIfwi(file, parsed, n)
    PROVE  IInv'
<1>0. /\ image' = file /\ before' = disk
      /\ UNCHANGED <<disk, cache, writable, losses, lockFailed>>
      /\ \/ pc' = "unlock" /\ result' = NULL /\ got' = n
         \/ pc' = "idle" /\ result' = -1 /\ got' = 0
      /\ sound' => \A p \in Partitions : Intact(disk[p])
      /\ sound' /\ pc' # "idle" => got' >= NumBlocks
  BY DEF FlashIfwi
<1>1. TypeOK'
  <2>1. before' \in [Partitions -> Contents]
    BY DEF FlashIfwi, IInv, TypeOK
  <2>2. boot_partition_writable' \in BOOLEAN /\ sound' \in BOOLEAN
    BY DEF FlashIfwi
  <2>3. pc' # "idle" => image' \in Images /\ got' \in 0 .. Size[image']
    BY <1>0
  <2>4. boot_index' \in Partitions
    BY DEF FlashIfwi, Partitions
  <2>5. /\ disk' \in [Partitions -> Contents] /\ cache' \in [Partitions -> Contents]
        /\ writable' \in [Partitions -> BOOLEAN]
    BY <1>0 DEF IInv, TypeOK
  <2>6. pc' \in {"unlock", "idle"}
    BY <1>0
  <2> QED
    BY <2>1, <2>2, <2>3, <2>4, <2>5, <2>6 DEF TypeOK, Working, Dirty
<1>2. OthersWrittenBack' /\ WorkInMapping'
  BY DEF FlashIfwi, IInv, OthersWrittenBack, WorkInMapping, Dirty
<1>3. Progress'
  <2>1. boot_index' = 0
    BY DEF FlashIfwi
  <2>2. pc' # "lock" /\ \A p \in Partitions : ~(p < 0) /\ disk'[p] = before'[p]
    BY <1>0 DEF Partitions
  <2> QED
    BY <2>1, <2>2 DEF Progress
<1>4. AtMostOneDamaged'
  <2>1. SUFFICES ASSUME sound'
                 PROVE  \A p \in Partitions :
                            /\ disk[p] \in IntactContents
                            /\ pc' # "idle" => Goal'[p] \in IntactContents
    BY <1>0 DEF AtMostOneDamaged, Partitions
  <2>2. \A p \in Partitions : disk[p] \in Contents /\ Intact(disk[p])
    BY <1>0, <2>1 DEF IInv, TypeOK
  <2>3. ASSUME pc' # "idle", NEW p \in Partitions
        PROVE  Goal'[p] \in IntactContents
    <3>1. /\ got' \in 0 .. Size[image'] /\ got' >= NumBlocks
          /\ image' \in Images /\ before' = disk
      BY <1>0, <2>1, <2>3
    <3>2. disk[p].firmware \in Firmwares /\ disk[p].tokens = "device"
      BY <2>2 DEF Contents, Intact
    <3>3. Overwritten(disk[p].firmware)' = Of(image')
      <4>1. \A b \in Blocks : b <= got' /\ ~(b > Size[image'])
        BY <3>1, RecoveryAssumption DEF Blocks
      <4> QED
        BY <1>0, <3>1, <4>1 DEF Overwritten, Of
    <3>4. Goal'[p] = Partition(Of(image'), "device")
      BY <1>0, <3>1, <3>2, <3>3 DEF Goal, Overwritten
    <3>5. Of(image') \in Firmwares /\ "device" \in TokenAreas
      BY <3>1 DEF Of, Firmwares, Sources, TokenAreas
    <3> QED
      BY <3>1, <3>4, <3>5, PartitionFacts DEF IntactContents, Intact
  <2> QED
    BY <2>2, <2>3 DEF IntactContents
<1>5. WritableIsUnderWork'
  BY <1>0 DEF FlashIfwi, IInv, WritableIsUnderWork
<1>6. ResultIsFinal' /\ SuccessIsGoal'
  BY <1>0, RecoveryAssumption DEF ResultIsFinal, SuccessIsGoal
<1> QED
  BY <1>1, <1>2, <1>3, <1>4, <1>5, <1>6 DEF IInv

\* A page of the partition under work is written back; the other partition and
\* the call are as they were.
LEMMA PageWritten ==
    ASSUME IInv, Dirty, disk' \in [Partitions -> Contents],
           \A q \in Partitions \ {boot_index} : disk'[q] = disk[q],
           UNCHANGED <<cache, writable, pc, boot_index, boot_partition_writable,
                       token_data, image, got, result, history, lockFailed>>
    PROVE  IInv'
<1>0. Goal' = Goal
  BY GoalSame DEF history
<1>1. TypeOK' /\ OthersWrittenBack'
  BY DEF history, IInv, TypeOK, OthersWrittenBack, Working, Dirty
<1>2. WorkInMapping'
  BY DEF history, IInv, WorkInMapping, Dirty, Overwritten
<1>3. Progress'
  BY <1>0 DEF history, IInv, TypeOK, Progress, Working, Dirty, Partitions
<1>4. AtMostOneDamaged'
  <2>1. \E q \in Partitions : q # boot_index
    BY DEF Partitions
  <2> QED
    BY <1>0, <2>1 DEF history, IInv, AtMostOneDamaged, Dirty
<1>5. WritableIsUnderWork'
  BY DEF history, IInv, WritableIsUnderWork
<1>6. ResultIsFinal' /\ SuccessIsGoal'
  BY DEF history, IInv, ResultIsFinal, SuccessIsGoal, Dirty
<1> QED
  BY <1>1, <1>2, <1>3, <1>4, <1>5, <1>6 DEF IInv

\* The kernel writes back pages of the partition under work only, in any order.
LEMMA WriteBlockInv ==
    ASSUME IInv, NEW p \in Partitions, NEW b \in Blocks, WriteBlock(p, b)
    PROVE  IInv'
<1>1. Dirty /\ p = boot_index
  BY DEF WriteBlock, IInv, OthersWrittenBack
<1>2. /\ disk[p] \in Contents
      /\ disk[p].firmware \in Firmwares /\ cache[p].firmware[b] \in Sources
  BY DEF IInv, TypeOK, Contents, Firmwares
<1>3. [disk[p].firmware EXCEPT ![b] = cache[p].firmware[b]] \in Firmwares
  BY <1>2 DEF Firmwares
<1>4. [disk[p] EXCEPT !.firmware = [@ EXCEPT ![b] = cache[p].firmware[b]]] \in Contents
  BY <1>2, <1>3 DEF Contents
<1>5. /\ disk' \in [Partitions -> Contents]
      /\ \A q \in Partitions \ {boot_index} : disk'[q] = disk[q]
  BY <1>1, <1>4 DEF WriteBlock, IInv, TypeOK
<1> QED
  BY <1>1, <1>5, PageWritten DEF WriteBlock

\* The same of the pages of the token area and of the checksums.
LEMMA WriteBackInv ==
    ASSUME IInv, NEW p \in Partitions, NEW field \in Fields, WriteBack(p, field)
    PROVE  IInv'
<1>1. Dirty /\ p = boot_index
  BY DEF WriteBack, IInv, OthersWrittenBack
<1>2. [disk[p] EXCEPT ![field] = cache[p][field]] \in Contents
  <2>1. disk[p] \in Contents /\ cache[p] \in Contents
    BY DEF IInv, TypeOK
  <2>2. CASE field = "tokens"
    BY <2>1, <2>2 DEF Contents
  <2>3. CASE field = "xor"
    BY <2>1, <2>3 DEF Contents
  <2> QED
    BY <2>2, <2>3 DEF Fields
<1>3. /\ disk' \in [Partitions -> Contents]
      /\ \A q \in Partitions \ {boot_index} : disk'[q] = disk[q]
  BY <1>1, <1>2 DEF WriteBack, IInv, TypeOK
<1> QED
  BY <1>1, <1>3, PageWritten DEF WriteBack

\* Every step keeps the invariant.
LEMMA NextInv == IInv /\ [Next]_vars => IInv'
<1> SUFFICES ASSUME IInv, [Next]_vars PROVE IInv'
  OBVIOUS
<1>1. ASSUME NEW file \in Images, NEW parsed \in ParsedTokens,
             NEW n \in 0 .. Size[file], FlashIfwi(file, parsed, n)
      PROVE  IInv'
  BY <1>1, FlashIfwiInv
<1>2. CASE Unlock \/ OpenAndMap \/ StepFails
  BY <1>2, UnlockInv, OpenAndMapInv, StepFailsInv
<1>3. CASE WriteImage \/ RestoreTokens \/ XorUpdate \/ Close
  BY <1>3, WriteImageInv, RestoreTokensInv, XorUpdateInv, CloseInv
<1>4. CASE Lock \/ LockFails \/ ErrorPath
  BY <1>4, LockInv, LockFailsInv, ErrorPathInv
<1>5. ASSUME NEW p \in Partitions, NEW b \in Blocks, WriteBlock(p, b)
      PROVE  IInv'
  BY <1>5, WriteBlockInv
<1>6. ASSUME NEW p \in Partitions, NEW field \in Fields, WriteBack(p, field)
      PROVE  IInv'
  BY <1>6, WriteBackInv
<1>7. CASE PowerLoss
  BY <1>7, PowerLossInv
<1>8. CASE UNCHANGED vars
  BY <1>8
  DEF vars, IInv, TypeOK, OthersWrittenBack, WorkInMapping, Progress,
      AtMostOneDamaged, WritableIsUnderWork, ResultIsFinal, SuccessIsGoal,
      Working, Dirty, Goal, Overwritten
<1> QED
  BY <1>1, <1>2, <1>3, <1>4, <1>5, <1>6, <1>7, <1>8 DEF Next

\* The inductive invariant: which partition differs from its mapping, what the
\* mapping shows at each step, which partitions are done, to come or damaged,
\* and which are writable.
THEOREM InvariantHolds == Spec => []IInv
BY InitInv, NextInv, PTL DEF Spec

\* What the invariant says of an update that began with two intact partitions.
LEMMA OneIntact == IInv => OnePartitionIntact
BY DEF IInv, AtMostOneDamaged, IntactContents, OnePartitionIntact

\* Wherever write_umip_emmc fails or loses the power, and whatever the kernel
\* wrote back by then, an update that began with two intact partitions and read
\* a whole one from its file leaves one whole on the eMMC.
THEOREM OneAlwaysIntact == Spec => []OnePartitionIntact
BY InvariantHolds, OneIntact, PTL

\* What a call that succeeded left in both partitions.
LEMMA GoalIsSuccess == IInv => SuccessMeansBoth
<1> SUFFICES ASSUME IInv, result = 0, NEW p \in Partitions
             PROVE  /\ Complete(disk[p])
                    /\ disk[p].tokens = before[p].tokens
                    /\ \A b \in Blocks :
                          /\ b <= got => disk[p].firmware[b] = image
                          /\ b > Size[image] =>
                                disk[p].firmware[b] = before[p].firmware[b]
  BY DEF SuccessMeansBoth
<1>1. /\ image \in Images /\ got \in 0 .. Size[image] /\ disk[p] = Goal[p]
      /\ before \in [Partitions -> Contents]
  BY DEF IInv, TypeOK, SuccessIsGoal
<1>2. /\ Complete(disk[p]) /\ disk[p].tokens = before[p].tokens
      /\ disk[p].firmware = Overwritten(before[p].firmware)
  BY <1>1, GoalFacts
<1>3. Size[image] \in Nat
  BY <1>1, RecoveryAssumption
<1> QED
  BY <1>1, <1>2, <1>3 DEF Overwritten, Blocks

\* When flash_ifwi succeeds both partitions hold every block that it read of the
\* file, past its end what they held before, checksums that fit and the tokens
\* each had before, also after earlier calls were cut off.
THEOREM SuccessComplete == Spec => []SuccessMeansBoth
BY InvariantHolds, GoalIsSuccess, PTL

\* No partition is under work when the updater is idle.
LEMMA IdleIsReadOnly == IInv => ReadOnlyAfterwards
BY DEF IInv, WritableIsUnderWork, ReadOnlyAfterwards

\* Once the updater has returned, on any path, a boot partition is writable
\* only if making it read-only failed (err_boot1).
THEOREM ReadOnlyWhenIdle == Spec => []ReadOnlyAfterwards
BY InvariantHolds, IdleIsReadOnly, PTL

-----------------------------------------------------------------------------
(* The updater implements TwoSlotUpdate: a step of the kernel or the last   *)
(* close is a Tear, the lock of a partition an Advance or the Finish, the   *)
(* error path a GiveUp, and what only stores to the mapping is a stutter.   *)

\* A call that failed has each partition as it was or as it is to be: what can
\* fail comes before the first store to a partition or after its last.
FailureLeavesNoneTorn ==
    pc = "error" => \A p \in Partitions : disk[p] = before[p] \/ disk[p] = Goal[p]

\* Steps fail only before the first store or when a partition is done
\* (recovery_updater.cpp 174-193, 218-222).
LEMMA FailureLeavesNoneTornInv ==
    ASSUME IInv, FailureLeavesNoneTorn, [Next]_vars
    PROVE  FailureLeavesNoneTorn'
<1> SUFFICES ASSUME pc' = "error", NEW p \in Partitions
             PROVE  disk'[p] = before'[p] \/ disk'[p] = Goal'[p]
  BY DEF FailureLeavesNoneTorn
<1>1. CASE StepFails \/ LockFails
  <2>1. disk[p] = before[p] \/ disk[p] = Goal[p]
    BY <1>1 DEF StepFails, LockFails, IInv, TypeOK, Progress, Working, Partitions
  <2>2. Goal' = Goal
    BY <1>1, GoalSame DEF StepFails, LockFails, history
  <2> QED
    BY <1>1, <2>1, <2>2 DEF StepFails, LockFails, history
<1>2. ASSUME NEW q \in Partitions, NEW b \in Blocks, WriteBlock(q, b)
      PROVE  FALSE
  <2>1. Dirty
    BY <1>2 DEF WriteBlock, IInv, OthersWrittenBack
  <2> QED
    BY <1>2, <2>1 DEF WriteBlock, Dirty
<1>3. ASSUME NEW q \in Partitions, NEW field \in Fields, WriteBack(q, field)
      PROVE  FALSE
  <2>1. Dirty
    BY <1>3 DEF WriteBack, IInv, OthersWrittenBack
  <2> QED
    BY <1>3, <2>1 DEF WriteBack, Dirty
<1>4. CASE UNCHANGED vars
  <2>1. Goal' = Goal
    BY <1>4, GoalSame DEF vars
  <2> QED
    BY <1>4, <2>1 DEF vars, FailureLeavesNoneTorn
<1>5. ASSUME NEW file \in Images, NEW parsed \in ParsedTokens,
             NEW n \in 0 .. Size[file], FlashIfwi(file, parsed, n)
      PROVE  FALSE
  BY <1>5 DEF FlashIfwi
<1>6. CASE Unlock \/ OpenAndMap \/ WriteImage \/ RestoreTokens
  BY <1>6 DEF Unlock, OpenAndMap, WriteImage, RestoreTokens
<1>7. CASE XorUpdate \/ Close \/ Lock \/ ErrorPath \/ PowerLoss
  BY <1>7 DEF XorUpdate, Close, Lock, ErrorPath, PowerLoss
<1> QED
  BY <1>1, <1>2, <1>3, <1>4, <1>5, <1>6, <1>7 DEF Next

\* What the call is to leave is what TwoSlotUpdate calls replaced.
LEMMA GoalIsDue ==
    ASSUME IInv, pc # "idle", NEW p \in Partitions
    PROVE  /\ \A b \in Blocks :
                Overwritten(before[p].firmware)[b] = Updated!Due(p, b)
           /\ disk[p] = Goal[p] => Updated!Replaced(p)
<1>1. image \in Images /\ got \in 0 .. Size[image] /\ Size[image] \in Nat
  BY RecoveryAssumption DEF IInv, TypeOK
<1>2. \A b \in Blocks : Overwritten(before[p].firmware)[b] = Updated!Due(p, b)
  BY <1>1 DEF Overwritten, Updated!Due, Blocks
<1>3. Overwritten(before[p].firmware) = [b \in Blocks |-> Updated!Due(p, b)]
  BY <1>2 DEF Overwritten
<1>4. Goal[p] = Updated!Whole([b \in Updated!Places |-> Updated!Due(p, b)], before[p].tokens)
  BY <1>3 DEF Goal, Partition, Updated!Whole, Updated!Places, Blocks
<1> QED
  BY <1>2, <1>4 DEF Updated!Replaced

\* The partitions of a new device are whole, and nobody has a turn.
LEMMA InitRefines == Init => Updated!Init
BY DEF Init, Updated!Init, Updated!Slots, Updated!Places, Updated!Whole, Partitions,
       Blocks, Of, Partition, Turn

\* A call starts with the first partition or is refused; either way it only
\* notes what the partitions hold.
LEMMA FlashIfwiRefines ==
    ASSUME NEW file \in Images, NEW parsed \in ParsedTokens,
           NEW n \in 0 .. Size[file], FlashIfwi(file, parsed, n)
    PROVE  Updated!Next
<1>1. Updated!Call(file)
  BY DEF FlashIfwi, Updated!Call, Turn
<1>2. Updated!Start(file, n) \/ Updated!Refuse(file)
  BY <1>1 DEF FlashIfwi, Updated!Start, Updated!Refuse, Turn
<1> QED
  BY <1>2 DEF Updated!Next

\* Switching force_ro, mapping, and stores to the mapping do not reach the eMMC.
LEMMA MappingStepsRefine ==
    ASSUME Unlock \/ OpenAndMap \/ StepFails \/ WriteImage \/ RestoreTokens
             \/ XorUpdate \/ LockFails
    PROVE  UNCHANGED Updated!vars
<1>1. UNCHANGED <<disk, image, got, before, result, boot_index>>
  BY DEF Unlock, OpenAndMap, StepFails, WriteImage, RestoreTokens, XorUpdate,
     LockFails, history
<1>2. pc # "idle" /\ pc' # "idle"
  BY DEF Unlock, OpenAndMap, StepFails, WriteImage, RestoreTokens, XorUpdate,
     LockFails
<1> QED
  BY <1>1, <1>2 DEF Updated!vars, Turn

\* A change of the partition under work that brings in nothing but what is due.
LEMMA TearRefines ==
    ASSUME IInv, Dirty, Turn' = Turn, UNCHANGED <<image, got, before, result>>,
           \A b \in Blocks :
               \/ disk'[boot_index].firmware[b] = disk[boot_index].firmware[b]
               \/ disk'[boot_index].firmware[b] = cache[boot_index].firmware[b],
           \A p \in Partitions \ {boot_index} : disk'[p] = disk[p]
    PROVE  Updated!Next
<1>1. Turn = boot_index /\ boot_index \in Partitions /\ pc # "idle"
  BY DEF Dirty, Turn, IInv, TypeOK
<1>2. \A b \in Blocks : cache[boot_index].firmware[b] = Updated!Due(boot_index, b)
  BY <1>1, GoalIsDue DEF IInv, WorkInMapping
<1>3. Updated!Tear
  BY <1>1, <1>2 DEF Updated!Tear, Updated!Slots, Updated!Places, Partitions, Blocks
<1> QED
  BY <1>3 DEF Updated!Next

\* The last close writes back what is left of the partition under work.
LEMMA CloseRefines ==
    ASSUME IInv, Close
    PROVE  Updated!Next
<1>1. Dirty /\ Turn' = Turn /\ UNCHANGED <<image, got, before, result>>
  BY DEF Close, history, Dirty, Turn
<1>2. /\ disk'[boot_index] = cache[boot_index]
      /\ \A p \in Partitions \ {boot_index} : disk'[p] = disk[p]
  BY DEF Close, IInv, TypeOK
<1> QED
  BY <1>1, <1>2, TearRefines

\* The kernel writes back pages of the partition under work: of the firmware ...
LEMMA WriteBlockRefines ==
    ASSUME IInv, NEW p \in Partitions, NEW b \in Blocks, WriteBlock(p, b)
    PROVE  Updated!Next
<1>1. Dirty /\ p = boot_index
  BY DEF WriteBlock, IInv, OthersWrittenBack
<1>2. Turn' = Turn /\ UNCHANGED <<image, got, before, result>>
  BY DEF WriteBlock, history, Turn
<1>3. /\ disk[p] \in Contents /\ disk[p].firmware \in Firmwares
      /\ disk \in [Partitions -> Contents]
  BY DEF IInv, TypeOK, Contents
<1>4. /\ disk'[p] = [disk[p] EXCEPT !.firmware = [@ EXCEPT ![b] = cache[p].firmware[b]]]
      /\ \A q \in Partitions \ {p} : disk'[q] = disk[q]
  BY <1>3 DEF WriteBlock
<1>5. disk'[p].firmware = [disk[p].firmware EXCEPT ![b] = cache[p].firmware[b]]
  BY <1>3, <1>4 DEF Contents
<1>6. \A c \in Blocks : \/ disk'[p].firmware[c] = disk[p].firmware[c]
                        \/ disk'[p].firmware[c] = cache[p].firmware[c]
  BY <1>3, <1>5 DEF Firmwares
<1> QED
  BY <1>1, <1>2, <1>4, <1>6, TearRefines

\* ... and of the tokens and the checksums.
LEMMA WriteBackRefines ==
    ASSUME IInv, NEW p \in Partitions, NEW field \in Fields, WriteBack(p, field)
    PROVE  Updated!Next
<1>1. Dirty /\ p = boot_index
  BY DEF WriteBack, IInv, OthersWrittenBack
<1>2. Turn' = Turn /\ UNCHANGED <<image, got, before, result>>
  BY DEF WriteBack, history, Turn
<1>3. /\ disk'[p] = [disk[p] EXCEPT ![field] = cache[p][field]]
      /\ \A q \in Partitions \ {p} : disk'[q] = disk[q]
  BY DEF WriteBack, IInv, TypeOK
<1>4. disk'[p].firmware = disk[p].firmware
  BY <1>3 DEF IInv, TypeOK, Contents, Fields
<1> QED
  BY <1>1, <1>2, <1>3, <1>4, TearRefines

\* A partition is made read-only when it is done; then the next one has
\* its turn, or the call succeeds.
LEMMA LockRefines ==
    ASSUME IInv, Lock
    PROVE  Updated!Next
<1>1. /\ pc = "lock" /\ UNCHANGED <<disk, image, got, before>>
      /\ boot_index \in Partitions
  BY DEF Lock, history, IInv, TypeOK
<1>2. Turn = boot_index
  BY <1>1 DEF Turn
<1>3. \A p \in Partitions : p =< boot_index => Updated!Replaced(p)
  <2>1. ASSUME NEW p \in Partitions, p =< boot_index PROVE disk[p] = Goal[p]
    BY <1>1, <2>1 DEF IInv, Progress, Working, Partitions
  <2> QED
    BY <1>1, <2>1, GoalIsDue
<1>4. CASE MorePartitions
  <2>1. boot_index = 0
    BY <1>1, <1>4 DEF MorePartitions, Partitions
  <2>2. Turn' = 1 /\ result' = result
    BY <1>4, <2>1 DEF Lock, Turn
  <2>3. Updated!Replaced(0)
    BY <1>3, <2>1 DEF Partitions
  <2>4. Updated!Advance
    BY <1>1, <1>2, <2>1, <2>2, <2>3 DEF Updated!Advance
  <2> QED
    BY <2>4 DEF Updated!Next
<1>5. CASE ~MorePartitions
  <2>1. boot_index = 1
    BY <1>1, <1>5 DEF MorePartitions, Partitions
  <2>2. Turn' = NULL /\ result' = 0
    BY <1>5 DEF Lock, Turn
  <2>3. \A p \in Updated!Slots : Updated!Replaced(p)
    BY <1>3, <2>1 DEF Partitions, Updated!Slots
  <2>4. Updated!Finish
    BY <1>1, <1>2, <2>1, <2>2, <2>3 DEF Updated!Finish
  <2> QED
    BY <2>4 DEF Updated!Next
<1> QED
  BY <1>4, <1>5

\* err_boot1 ends the call with no partition torn.
LEMMA ErrorPathRefines ==
    ASSUME IInv, FailureLeavesNoneTorn, ErrorPath
    PROVE  Updated!Next
<1>1. Turn = boot_index /\ boot_index \in Partitions /\ Turn' = NULL /\ pc # "idle"
  BY DEF ErrorPath, Turn, IInv, TypeOK
<1>2. \A p \in Partitions : disk[p] = before[p] \/ Updated!Replaced(p)
  BY <1>1, GoalIsDue DEF ErrorPath, FailureLeavesNoneTorn
<1>3. Updated!GiveUp
  BY <1>1, <1>2 DEF ErrorPath, history, Updated!GiveUp, Updated!Slots, Partitions
<1> QED
  BY <1>3 DEF Updated!Next

\* A power loss leaves what the eMMC has.
LEMMA PowerLossRefines ==
    ASSUME PowerLoss
    PROVE  Updated!Next
BY DEF PowerLoss, Turn, Updated!PowerLoss, Updated!Next

\* Every step is one of TwoSlotUpdate or none.
LEMMA StepRefines ==
    ASSUME IInv, FailureLeavesNoneTorn, [Next]_vars
    PROVE  [Updated!Next]_(Updated!vars)
<1>1. ASSUME NEW file \in Images, NEW parsed \in ParsedTokens,
             NEW n \in 0 .. Size[file], FlashIfwi(file, parsed, n)
      PROVE  Updated!Next
  BY <1>1, FlashIfwiRefines
<1>2. CASE Unlock \/ OpenAndMap \/ StepFails \/ WriteImage \/ RestoreTokens
             \/ XorUpdate \/ LockFails
  BY <1>2, MappingStepsRefine
<1>3. CASE Close
  BY <1>3, CloseRefines
<1>4. CASE Lock
  BY <1>4, LockRefines
<1>5. CASE ErrorPath
  BY <1>5, ErrorPathRefines
<1>6. ASSUME NEW p \in Partitions, NEW b \in Blocks, WriteBlock(p, b)
      PROVE  Updated!Next
  BY <1>6, WriteBlockRefines
<1>7. ASSUME NEW p \in Partitions, NEW field \in Fields, WriteBack(p, field)
      PROVE  Updated!Next
  BY <1>7, WriteBackRefines
<1>8. CASE PowerLoss
  BY <1>8, PowerLossRefines
<1>9. CASE UNCHANGED vars
  <2>1. UNCHANGED <<disk, image, got, before, result, Turn>>
    BY <1>9 DEF vars, Turn
  <2> QED
    BY <2>1 DEF Updated!vars
<1> QED
  BY <1>1, <1>2, <1>3, <1>4, <1>5, <1>6, <1>7, <1>8, <1>9 DEF Next

\* Through failing steps, write-back in any order, power losses and further
\* calls, the eMMC gets what was read of the file a partition at a time: the
\* second is not touched before the first has all of it, checksums that fit and
\* its own tokens, and a call that fails leaves neither torn.
THEOREM OneAtATime == Spec => ImplementsTwoSlotUpdate
<1>1. Init => FailureLeavesNoneTorn
  BY DEF Init, FailureLeavesNoneTorn
<1>2. Spec => []FailureLeavesNoneTorn
  <2>1. IInv /\ FailureLeavesNoneTorn /\ [Next]_vars => FailureLeavesNoneTorn'
    BY FailureLeavesNoneTornInv
  <2> QED
    BY <1>1, <2>1, InvariantHolds, PTL DEF Spec
<1>3. IInv /\ FailureLeavesNoneTorn /\ [Next]_vars => [Updated!Next]_(Updated!vars)
  BY StepRefines
<1> QED
  BY <1>2, <1>3, InitRefines, InvariantHolds, PTL
  DEF Spec, ImplementsTwoSlotUpdate, Updated!Spec

=============================================================================
