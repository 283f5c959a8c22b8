----------------------------- MODULE MultiCopy -----------------------------
(***************************************************************************)
(* multicopy/multicopy.c: N processes copy a file, each its own range, by  *)
(* lseek and read into a shared mapping of the destination.  The children  *)
(* inherit the open source file, so all processes share ONE file offset.   *)
(*                                                                         *)
(* The code's N is 5 and its loops run to the literal 4, N - 1.  A byte is *)
(* represented by its position in the source.  Open files and mappings are *)
(* private to a process from here on, so munmap and close end it.          *)
(***************************************************************************)
EXTENDS Integers, FiniteSets

CONSTANTS
    N,   \* the processes
    Size \* of the source file, in bytes; mmap refuses an empty one

CopyConstants == N \in Nat \ {0} /\ Size \in Nat \ {0}

VARIABLES
    offset, \* the file offset of srcfd, shared by all processes
    dest,   \* the mapped destination; Hole where nothing was written
    pc,     \* per process: "none", "seek", "read", "wait", "zombie", "reaped", ...
    i,      \* the parent's loop counter, of the fork loop and of the wait loop
    clean   \* has every read so far started where its process had seeked to?

vars == <<offset, dest, pc, i, clean>>

Parent == N - 1
Children == 0..(N - 2)
Procs == Children \cup {Parent}
Bytes == 0..(Size - 1)
Hole == -1

-----------------------------------------------------------------------------
(* Line 54.                                                                *)
copy_block == Size \div N

(* Mutant: the last process copies no more than the others.                *)
copy_size_NoRest == copy_block

(* Line 87: the last process also takes the remainder.                     *)
copy_size == Size - copy_block * (N - 1)

(* Mutant: the ranges start one byte early, but for the first.             *)
Base_Early(p) == IF p = 0 THEN 0 ELSE p * copy_block - 1

(* Lines 65-67 and 90-92: where a process seeks to, in source and mapping. *)
Base(p) == p * copy_block

Count(p) == IF p = Parent THEN copy_size ELSE copy_block

Lesser(a, b) == IF a < b THEN a ELSE b

(* Lines 59-61: fork, or perror and exit.                                  *)
Fork ==
    /\ pc[Parent] = "fork" /\ i < N - 1
    /\ pc' = [pc EXCEPT ![i] = "seek"]
    /\ i' = i + 1
    /\ UNCHANGED <<offset, dest, clean>>

ForkFails ==
    /\ pc[Parent] = "fork" /\ i < N - 1
    /\ pc' = [pc EXCEPT ![Parent] = "failed"]
    /\ UNCHANGED <<offset, dest, i, clean>>

ForkLoopEnds ==
    /\ pc[Parent] = "fork" /\ i = N - 1
    /\ pc' = [pc EXCEPT ![Parent] = "seek"]
    /\ UNCHANGED <<offset, dest, i, clean>>

(* Lines 65 and 90.                                                        *)
Seek(p) ==
    /\ pc[p] = "seek"
    /\ offset' = Base(p)
    /\ pc' = [pc EXCEPT ![p] = "read"]
    /\ UNCHANGED <<dest, i, clean>>

(* Lines 70 and 94: read delivers what is left of the file from the shared *)
(* offset, at most Count(p) bytes, and moves the offset.  Its result is    *)
(* not looked at.                                                          *)
Read(p) ==
    LET n == Lesser(Count(p), Size - offset)
    IN  /\ pc[p] = "read"
        /\ dest' = [b \in Bytes |-> IF b \in Base(p)..(Base(p) + n - 1)
                                    THEN offset + (b - Base(p)) ELSE dest[b]]
        /\ offset' = offset + n
        /\ clean' = (clean /\ offset = Base(p))
        /\ pc' = [pc EXCEPT ![p] = IF p = Parent THEN "wait" ELSE "zombie"]
        /\ i' = IF p = Parent THEN 0 ELSE i

(* Line 96.                                                                *)
ReapCount == N - 1

(* Line 97: wait(NULL) blocks until some child has ended.                  *)
Wait ==
    /\ pc[Parent] = "wait" /\ i < ReapCount
    /\ \E c \in Children :
          /\ pc[c] = "zombie"
          /\ pc' = [pc EXCEPT ![c] = "reaped"]
    /\ i' = i + 1
    /\ UNCHANGED <<offset, dest, clean>>

(* Lines 98-109.                                                           *)
Return ==
    /\ pc[Parent] = "wait" /\ i = ReapCount
    /\ pc' = [pc EXCEPT ![Parent] = "done"]
    /\ UNCHANGED <<offset, dest, i, clean>>

-----------------------------------------------------------------------------
(* main, lines 28-54: the destination has been truncated to Size.          *)
Init ==
    /\ offset = 0
    /\ dest = [b \in Bytes |-> Hole]
    /\ pc = [p \in Procs |-> IF p = Parent THEN "fork" ELSE "none"]
    /\ i = 0
    /\ clean = TRUE

Step(p) == Seek(p) \/ Read(p)

(* Every process has ended; a parent that could not fork reaps nobody.     *)
Terminated ==
    /\ \/ pc[Parent] = "done"
       \/ pc[Parent] = "failed" /\ \A c \in Children : pc[c] \in {"none", "zombie"}
    /\ UNCHANGED vars

Next ==
    \/ Fork \/ ForkFails \/ ForkLoopEnds \/ Wait \/ Return
    \/ \E p \in Procs : Step(p)
    \/ Terminated

Spec == Init /\ [][Next]_vars

-----------------------------------------------------------------------------
(* Types; the offset stays within the file.                                *)
TypeOK ==
    /\ offset \in 0..Size
    /\ dest \in [Bytes -> Bytes \cup {Hole}]
    /\ pc \in [Procs -> {"none", "fork", "seek", "read", "wait", "zombie", "reaped",
                         "failed", "done"}]
    /\ i \in 0..(N - 1) /\ clean \in BOOLEAN

(* The ranges do not overlap, whatever is read into them: no process ever  *)
(* writes a byte that another one has written.                             *)
WrittenOnce == [][\A b \in Bytes : dest[b] # Hole => dest'[b] = dest[b]]_vars

(* Without interference between lseek and read the ranges cover the file:  *)
(* what is left behind is an exact copy, remainder included.  The parent   *)
(* returns only after every child was reaped (line 95), so that nothing is *)
(* written to the file afterwards.                                         *)
UndisturbedCopyExact ==
    /\ TypeOK
    /\ pc[Parent] = "done" => \A c \in Children : pc[c] = "reaped"
    /\ pc[Parent] = "done" /\ clean => \A b \in Bytes : dest[b] = b

(* readme.md and lines 63-69: each process copies its own range, so the    *)
(* finished destination equals the source.                                 *)
CopyFaithful == pc[Parent] = "done" => \A b \in Bytes : dest[b] = b

=============================================================================
