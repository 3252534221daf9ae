----------------------------- MODULE ModuleImage -----------------------------
(***************************************************************************)
(* The image that ModulePacker builds (Toolchain, main.c) and what the     *)
(* kernel makes of it when it starts (moduleLoader.c and kernel.c): the    *)
(* modules follow the kernel's binary, over the place of its .bss, and are *)
(* copied to their addresses before .bss is cleared.                       *)
(***************************************************************************)
EXTENDS Integers, SequencesExt

CONSTANTS Byte,       \* of the files
          MaxSize,    \* bound: bytes of a file
          MaxModules, \* initializeKernelBinary has addresses for this many
          Buffer,     \* BUFFER_SIZE of ModulePacker
          Gap, BssSize \* from the end of the kernel's binary to its .bss, and on to its end

ModuleImageAssumption ==
    /\ MaxSize \in Nat /\ MaxModules \in Nat \ {0} /\ Buffer \in Nat \ {0}
    /\ Gap \in Nat /\ BssSize \in Nat

VARIABLES files,  \* the kernel's binary and the modules
          image,  \* what has been packed; then the memory from the kernel's start on
          packed, \* how many files, and how many bytes of the next one
          at,     \* currentModule, from the start of the image
          loaded, \* the modules at their addresses
          phase

vars == <<files, image, packed, at, loaded, phase>>

Contents == SeqOf(Byte, MaxSize)

Init ==
    /\ files \in UNION {[1 .. n -> Contents] : n \in 1 .. MaxModules + 1}
    /\ image = <<>> /\ packed = <<0, 0>> /\ at = 0 /\ loaded = <<>> /\ phase = "pack"

-----------------------------------------------------------------------------
\* A uint32_t in memory, and as it is read back.
Uint32(n) == <<n, 0, 0, 0>>
ReadUint32(memory, a) == memory[a + 1] + 256 * memory[a + 2]

\* What buildImage writes behind file i: the count of modules behind the kernel, then
\* write_size of the next.
Heading(i) ==
    (IF i = 1 THEN Uint32(Len(files) - 1) ELSE <<>>) \o
    (IF i = Len(files) THEN <<>> ELSE Uint32(Len(files[i + 1])))

\* A round of write_file: the file ends with a read that is not full.
Pack ==
    LET i == packed[1] + 1
        rest == SubSeq(files[i], packed[2] + 1, Len(files[i]))
        read == SubSeq(rest, 1, IF Len(rest) < Buffer THEN Len(rest) ELSE Buffer)
    IN  /\ phase = "pack" /\ packed[1] < Len(files)
        /\ IF Len(read) = Buffer
           THEN image' = image \o read /\ packed' = <<packed[1], packed[2] + Buffer>>
           ELSE image' = image \o read \o Heading(i) /\ packed' = <<i, 0>>
        /\ UNCHANGED <<files, at, loaded, phase>>

\* The machine starts, with memory behind the image.
Boot ==
    /\ phase = "pack" /\ packed[1] = Len(files)
    /\ phase' = "load"
    /\ at' = Len(files[1])
    /\ image' = image \o [i \in 1 .. Gap + BssSize |-> 0]
    /\ UNCHANGED <<files, packed, loaded>>

\* A round of loadModules, with loadModule.
LoadModule ==
    LET start == IF loaded = <<>> THEN at + 4 ELSE at
        size == ReadUint32(image, start)
    IN  /\ phase = "load" /\ Len(loaded) < ReadUint32(image, Len(files[1]))
        /\ loaded' = Append(loaded, SubSeq(image, start + 5, start + 4 + size))
        /\ at' = start + 4 + size
        /\ UNCHANGED <<files, image, packed, phase>>

ClearBSS ==
    /\ phase = "load" /\ Len(loaded) = ReadUint32(image, Len(files[1]))
    /\ LET bss == Len(files[1]) + Gap
       IN  image' = [a \in DOMAIN image |-> IF a \in bss + 1 .. bss + BssSize THEN 0 ELSE image[a]]
    /\ phase' = "run"
    /\ UNCHANGED <<files, packed, at, loaded>>

Next == Pack \/ Boot \/ LoadModule \/ ClearBSS

Spec == Init /\ [][Next]_vars

-----------------------------------------------------------------------------
\* main.c and moduleLoader.c agree: when the kernel runs, each module is at its address as
\* its file was, and the kernel's own binary is untouched.
LoadedExact ==
    phase = "run" =>
        /\ loaded = Tail(files)
        /\ SubSeq(image, 1, Len(files[1])) = files[1]
=============================================================================
