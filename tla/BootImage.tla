------------------------------ MODULE BootImage ------------------------------
(***************************************************************************)
(* The boot image tools of src/mkbootimg: the command line prepared by     *)
(* mkbootimg-wrap or by the rule of mkbootimg.mk, pack.c, which puts it,   *)
(* a kernel and a ramdisk behind the header of an image that is known to   *)
(* boot, and unpack.c, which takes them out of an image again.  A file is  *)
(* a sequence of cells; a number takes one cell.  One fread with the       *)
(* fwrite of what it returned is one step.                                 *)
(***************************************************************************)
EXTENDS Integers, Sequences, SequencesExt, Bitwise

CONSTANTS CMDLINE_SIZE, HEADER_LENGTH, SECTOR_SIZE, BUFSIZ,
          Bases,             \* images given as the valid one
          Kernels, Ramdisks, \* files given as bzImage and ramdisk
          Lines,             \* kernel command lines, without a newline
          Disks,             \* how many cells of the output fit
          Cuts,              \* lengths an image may be cut to before unpacking
          Garbage,           \* what an uninitialised variable may hold
          VARIANT            \* the cell of "buildvariant=..." in a line

NUL == 0
NL  == 10
FF  == 255

\* Offsets in the header: magic, xor, id, sectors, the command line, two sizes.
XOR           == 2
SECTORS       == 4
HEADER_SIZE   == 4
CMDLINE_START == HEADER_SIZE
CMDLINE_END   == CMDLINE_START + CMDLINE_SIZE

ASSUME BootImageAssumption ==
    /\ {CMDLINE_SIZE, HEADER_LENGTH, SECTOR_SIZE, BUFSIZ} \subseteq Nat \ {0}
    /\ CMDLINE_END + 2 <= HEADER_LENGTH
    /\ HEADER_LENGTH % SECTOR_SIZE = 0
    /\ Disks \cup Garbage \subseteq Nat

VARIABLES base, bzImage, ramdisk, line,    \* what is packed, and how
          wrapped,           \* by mkbootimg-wrap
          unopened, absent,  \* a file that cannot be opened; it is not there
          disk,
          pc,                \* where the tools are
          missing,           \* cells the copy loop has left, or has copied
          paddings,          \* as in pack.c
          image,             \* the file packed
          opened,            \* unpack could open the kernel's file
          full,              \* the disk of the files unpacked may fill up
          out,               \* the files unpacked
          lost               \* history: cells of them were not stored

inputs == <<base, bzImage, ramdisk, line, wrapped, unopened, absent, disk>>
files  == <<opened, full, out, lost>>
vars   == <<inputs, pc, missing, paddings, image, files>>

Empty == [cmdline |-> <<>>, bzImage |-> <<>>, ramdisk |-> <<>>]

Init ==
    /\ base \in Bases /\ bzImage \in Kernels /\ ramdisk \in Ramdisks
    /\ line \in Lines /\ wrapped \in BOOLEAN /\ disk \in Disks
    /\ unopened \in {"none", "cmdline", "bzImage", "ramdisk"}
    /\ absent \in BOOLEAN /\ (absent => unopened \in {"bzImage", "ramdisk"})
    /\ pc = "pack" /\ missing = 0
    /\ paddings \in Garbage
    /\ image = <<>> /\ out = Empty
    /\ opened = TRUE /\ full = FALSE /\ lost = FALSE

-----------------------------------------------------------------------------
\* The command line's file.

\* mkbootimg-wrap drops the variants a build adds, ...
Stripped(l) == SelectSeq(l, LAMBDA cell : cell # VARIANT)

TooLong(l) == Len(Stripped(l)) >= CMDLINE_SIZE

\* ... ends the line and fills it up.
WrapFile(l) ==
    Stripped(l) \o <<NL>> \o [i \in 1 .. CMDLINE_SIZE - Len(Stripped(l)) - 1 |-> NUL]

\* The rule writes the board's line, which has no variant in it, with a newline
\* and nothing else.
RuleFile(l) == Append(Stripped(l), NL)

CmdlineFile == IF wrapped THEN WrapFile(line) ELSE RuleFile(line)

-----------------------------------------------------------------------------
\* pack.c.

\* Mutant: the old checksum is not taken out again.
calculate_checksum_Kept(head) ==
    FoldLeft(LAMBDA sum, cell : sum ^^ cell, 0, SubSeq(head, 1, HEADER_SIZE))

\* It starts with the checksum, which the loop over all of the head takes out.
calculate_checksum(head) ==
    FoldLeft(LAMBDA sum, cell : sum ^^ cell, head[XOR], SubSeq(head, 1, HEADER_SIZE))

\* The command line is read cell by cell; where its file ends, the cells of
\* the base stay.
WithCmdline(head, file) ==
    [i \in DOMAIN head |->
       LET k == i - CMDLINE_START
       IN  IF k \in 1 .. CMDLINE_SIZE /\ k <= Len(file) THEN file[k] ELSE head[i]]

TotalSize == HEADER_LENGTH + Len(bzImage) + Len(ramdisk)

PaddingFor(total) == (SECTOR_SIZE - (total % SECTOR_SIZE)) % SECTOR_SIZE

\* Mutant: the ramdisk's size is taken for both.
NewHeader_Sizes(padding) ==
    LET head == [WithCmdline(SubSeq(base, 1, HEADER_LENGTH), CmdlineFile)
                   EXCEPT ![CMDLINE_END + 1] = Len(ramdisk),
                          ![CMDLINE_END + 2] = Len(ramdisk),
                          ![SECTORS] = (TotalSize + padding) \div SECTOR_SIZE - 1]
    IN  [head EXCEPT ![XOR] = calculate_checksum(head)]

NewHeader(padding) ==
    LET head == [WithCmdline(SubSeq(base, 1, HEADER_LENGTH), CmdlineFile)
                   EXCEPT ![CMDLINE_END + 1] = Len(bzImage),
                          ![CMDLINE_END + 2] = Len(ramdisk),
                          ![SECTORS] = (TotalSize + padding) \div SECTOR_SIZE - 1]
    IN  [head EXCEPT ![XOR] = calculate_checksum(head)]

Room == disk - Len(image)

\* fwrite: what does not fit is not written.
Write(cells) ==
    image' = image \o SubSeq(cells, 1, IF Len(cells) < Room THEN Len(cells) ELSE Room)

\* The wrapper refuses a long line, and the base must be as long as a header.
Rejected == (wrapped /\ TooLong(line)) \/ Len(base) < HEADER_LENGTH

\* Nobody looks whether the command line's file could be opened before it is
\* read.
PackCrashes ==
    /\ pc = "pack" /\ ~Rejected /\ unopened = "cmdline"
    /\ pc' = "crashed"
    /\ UNCHANGED <<inputs, missing, paddings, image, files>>

\* The kernel and the ramdisk must exist, and the header, which is the first
\* thing written, fit.
Refused == Rejected \/ (unopened # "cmdline" /\ (absent \/ disk < HEADER_LENGTH))

PackFails ==
    /\ pc = "pack" /\ Refused
    /\ pc' = "error"
    /\ UNCHANGED <<inputs, missing, paddings, image, files>>

\* The header is written; paddings is assigned only if padding is needed.
PackHeader ==
    LET padding == PaddingFor(TotalSize) IN
    /\ pc = "pack" /\ ~Refused /\ unopened # "cmdline"
    /\ paddings' = IF padding > 0 THEN padding ELSE paddings
    /\ Write(NewHeader(padding))
    /\ pc' = "bzImage" /\ missing' = 0
    /\ UNCHANGED <<inputs, files>>

\* A file that is there and could not be opened is read all the same.
ReadCrashes ==
    /\ pc \in {"bzImage", "ramdisk"} /\ unopened = pc
    /\ pc' = "crashed"
    /\ UNCHANGED <<inputs, missing, paddings, image, files>>

\* One turn of a copy loop, whose fwrite nobody looks at; missing counts what
\* was read.
PackCopies(step, file, next) ==
    /\ pc = step /\ unopened # step
    /\ IF missing < Len(file)
       THEN LET size == IF Len(file) - missing < BUFSIZ THEN Len(file) - missing ELSE BUFSIZ
            IN  /\ Write(SubSeq(file, missing + 1, missing + size))
                /\ missing' = missing + size
                /\ UNCHANGED pc
       ELSE pc' = next /\ missing' = 0 /\ UNCHANGED image
    /\ UNCHANGED <<inputs, paddings, files>>

\* More than the buffer holds overruns it.  A full disk may show only when the
\* buffered output is written at the end, where nobody looks.
PackPads ==
    /\ pc = "padding"
    /\ IF paddings > BUFSIZ
       THEN pc' = "crashed" /\ UNCHANGED image
       ELSE /\ Write([i \in 1 .. paddings |-> FF])
            /\ pc' \in IF paddings > Room THEN {"packed", "error"} ELSE {"packed"}
    /\ UNCHANGED <<inputs, missing, paddings, files>>

-----------------------------------------------------------------------------
\* unpack.c, on the image packed, or what is left of it.

Cut ==
    /\ pc = "packed"
    /\ \E length \in Cuts : /\ length < Len(image)
                            /\ image' = SubSeq(image, 1, length)
    /\ pc' = "cut"
    /\ UNCHANGED <<inputs, missing, paddings, files>>

\* The files are opened; whether that of the kernel could be is not looked at.
UnpackOpens ==
    /\ pc \in {"packed", "cut"}
    /\ opened' \in BOOLEAN /\ full' \in BOOLEAN
    /\ pc' \in {"get cmdline", "error"}
    /\ missing' = CMDLINE_SIZE
    /\ UNCHANGED <<inputs, paddings, image, out, lost>>

\* One turn of a copy loop: fread returns what there is, and at the end of
\* the image nothing, which leaves everything as it was.
Taken(at) ==
    LET ask   == IF missing > BUFSIZ THEN BUFSIZ ELSE missing
        there == Len(image) - at
    IN  SubSeq(image, at + 1, at + (IF there < ask THEN there ELSE ask))

\* Mutant: a loop gives up where the image ends.
More_Short(cells) == missing > 0 /\ cells # <<>>

More(cells) == missing > 0

Left(cells) == missing - Len(cells)

\* How many of the cells handed to fwrite reach the file; nobody looks.
Stored(cells) == IF full THEN 0 .. Len(cells) ELSE {Len(cells)}

UnpackCopies(file, start, length, next) ==
    LET cells == Taken(start + length - missing) IN
    /\ pc = "get " \o file
    /\ IF More(cells)
       THEN /\ \E n \in Stored(cells) :
                 /\ out' = [out EXCEPT ![file] = @ \o SubSeq(cells, 1, n)]
                 /\ lost' = (lost \/ n < Len(cells))
            /\ missing' = Left(cells)
            /\ pc' = IF file = "bzImage" /\ ~opened /\ cells # <<>> THEN "crashed" ELSE pc
       ELSE pc' = next /\ UNCHANGED <<missing, out, lost>>
    /\ UNCHANGED <<inputs, paddings, image, opened, full>>

BzImageLen == image[CMDLINE_END + 1]
RamdiskLen == image[CMDLINE_END + 2]

\* The lengths are read, or are not there.
UnpackSizes ==
    /\ pc = "sizes"
    /\ IF Len(image) < CMDLINE_END + 2
       THEN pc' = "error" /\ UNCHANGED missing
       ELSE pc' = "get bzImage" /\ missing' = BzImageLen
    /\ UNCHANGED <<inputs, paddings, image, files>>

UnpackSeeksRamdisk ==
    /\ pc = "seek"
    /\ pc' = "get ramdisk" /\ missing' = RamdiskLen
    /\ UNCHANGED <<inputs, paddings, image, files>>

Unpack ==
    \/ UnpackOpens
    \/ UnpackCopies("cmdline", CMDLINE_START, CMDLINE_SIZE, "sizes")
    \/ UnpackSizes
    \/ UnpackCopies("bzImage", HEADER_LENGTH, BzImageLen, "seek")
    \/ UnpackSeeksRamdisk
    \/ UnpackCopies("ramdisk", HEADER_LENGTH + BzImageLen, RamdiskLen, "unpacked")

Pack ==
    \/ PackFails \/ PackCrashes \/ PackHeader \/ ReadCrashes
    \/ PackCopies("bzImage", bzImage, "ramdisk")
    \/ PackCopies("ramdisk", ramdisk, "padding")
    \/ PackPads

Next == Pack \/ Cut \/ Unpack

\* unpack is run, and runs.
Spec == Init /\ [][Next]_vars /\ WF_vars(Unpack)

-----------------------------------------------------------------------------
\* Properties.

\* When pack reports success, the checksum is the "XOR of first 56 bytes
\* (without this one)" (bootheader.h 49), and the image has as many sectors as
\* its header says; but for a disk that filled up, and for sizes that fill
\* the last sector, where paddings is not assigned (pack.c 81, 132, 157).
HeaderTrue ==
    pc = "packed" =>
        /\ image[XOR] = FoldLeft(LAMBDA sum, cell : sum ^^ cell, 0,
                                 RemoveAt(SubSeq(image, 1, HEADER_SIZE), XOR))
        /\ \/ Len(image) = (image[SECTORS] + 1) * SECTOR_SIZE
           \/ Len(image) = disk
           \/ PaddingFor(TotalSize) = 0 /\ paddings > 0

\* "keep the two packaging paths identical" (mkbootimg-wrap 37-38): whichever
\* path made the image, the other one would have put the same command line in
\* its header.  The code does not: the rule's file ends with the newline, and
\* behind it the header keeps what the base's had.
PathsIdentical ==
    pc = "packed" /\ ~TooLong(line) =>
        LET other == IF wrapped THEN RuleFile(line) ELSE WrapFile(line)
            head  == WithCmdline(SubSeq(base, 1, HEADER_LENGTH), other)
        IN  SubSeq(image, CMDLINE_START + 1, CMDLINE_END)
              = SubSeq(head, CMDLINE_START + 1, CMDLINE_END)

\* What unpack takes out of an image, if it ends and its files took all that
\* was written to them, is what pack put in, whatever was cut off the image or
\* did not fit on pack's disk.  (unpack itself does not look at the results of
\* its fwrites, unpack.c 96, 127 and 140: on a full disk its files are short
\* and it returns 0.)
UnpackInverts ==
    pc = "unpacked" /\ ~lost =>
        /\ out.bzImage = bzImage /\ out.ramdisk = ramdisk
        /\ out.cmdline = SubSeq(image, CMDLINE_START + 1, CMDLINE_END)

\* unpack ends on an image that has all of the kernel and the ramdisk.  (On a
\* shorter one its loops go round for ever, unpack.c 124 and 137.)
UnpackEnds ==
    pc = "get cmdline" /\ Len(image) >= TotalSize ~>
        pc \in {"unpacked", "error", "crashed"}

=============================================================================
