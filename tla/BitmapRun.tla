----------------------------- MODULE BitmapRun -----------------------------
(***************************************************************************)
(* ntfs_bitmap_set_bits_in_run, libntfs/bitmap.c: setting or clearing a    *)
(* run of bits of a bitmap attribute through a small buffer.  Every bitmap *)
(* of the volume is changed by it: $Bitmap, the bitmap of the mft and the  *)
(* bitmaps of directory indexes.                                           *)
(*                                                                         *)
(* The buffer is prepared once, all ones or all zeroes, and written again  *)
(* and again; only a partial first and a partial last byte are read from   *)
(* the attribute.  What makes this delicate is the bookkeeping: the first  *)
(* byte must not stay in the buffer for the next window, the last byte     *)
(* must be read when, and only when, its window is being written, and the  *)
(* count of bits left goes to -1 when the run ends in the first byte.      *)
(***************************************************************************)
EXTENDS Integers, NatSets

CONSTANTS
    ByteBits,       \* bits in a byte, 8 in the code
    BufBytes,       \* cap on the size of the buffer, 8192 in the code
    NrBytes,        \* size of the bitmap attribute
    Bitmaps         \* the contents the attribute may have before the call

Bit == 0 .. ByteBits * NrBytes - 1

ASSUME SizeAssumption ==
    /\ ByteBits \in Nat \ {0, 1} /\ NrBytes \in Nat \ {0}
    /\ BufBytes \in Nat \ {0, 1}        \* a first and a last byte must fit
    /\ Bitmaps \subseteq SUBSET Bit

VARIABLES
    bits,           \* the bits set in the attribute, on disk
    buf,            \* the bits set in the buffer, numbered from its start
    start_bit, count, bit, bufsize, firstbyte, lastbyte,  \* locals
    pc,
    arg             \* the arguments, and the bitmap before the call

vars == <<bits, buf, start_bit, count, bit, bufsize, firstbyte, lastbyte, pc, arg>>

(* x >> 3 and (x + 7) >> 3 of the code.                                    *)
ByteOf(x) == x \div ByteBits
BytesFor(x) == (x + ByteBits - 1) \div ByteBits

ByteRange(first, n) == ByteBits * first .. ByteBits * (first + n) - 1

(* The bits of the byte at position pos of a set, numbered from its start. *)
ByteAt(S, pos) == {b \in 0 .. ByteBits - 1 : ByteBits * pos + b \in S}

Fill(size) == IF arg.value = 1 THEN ByteRange(0, size) ELSE {}
Change(S, run) == IF arg.value = 1 THEN S \union run ELSE S \ run

Init ==
    /\ bits \in Bitmaps
    /\ buf = {}
    /\ start_bit = 0 /\ count = 0 /\ bit = 0
    /\ bufsize = 0 /\ firstbyte = 0 /\ lastbyte = 0
    /\ pc = "idle"
    /\ arg = [start |-> 0, count |-> 0, value |-> 0, before |-> bits]

(* The call: the size of the buffer is computed and the buffer is filled.  *)
Call(start, n, value) ==
    LET partial == start % ByteBits
        first == IF partial # 0 THEN 1 ELSE 0
        rest == n - IF partial # 0 THEN ByteBits - partial ELSE 0
    IN  /\ pc = "idle"
        /\ arg' = [start |-> start, count |-> n, value |-> value, before |-> bits]
        /\ start_bit' = start
        /\ count' = n
        /\ bit' = partial
        /\ firstbyte' = first
        /\ lastbyte' = 0
        /\ bufsize' = Lesser(BytesFor(rest) + first, BufBytes)
        /\ buf' = IF value = 1 THEN ByteRange(0, bufsize') ELSE {}
        /\ pc' = "first"
        /\ UNCHANGED bits

(* The partial first byte is read in and changed in the buffer.  A run     *)
(* that ends in it leaves the count at -1, and a count below zero modulo   *)
(* the size of a byte is what the next partial byte is computed from.      *)
FirstByte ==
    LET taken == Lesser(ByteBits - bit, count)
        left == IF count < ByteBits - bit THEN -1 ELSE count - taken
        old == {b \in buf : b >= ByteBits} \union ByteAt(bits, ByteOf(start_bit))
    IN  /\ pc = "first"
        /\ IF firstbyte = 1
           THEN /\ buf' = Change(old, bit .. bit + taken - 1)
                /\ count' = left
                /\ start_bit' = ByteBits * BytesFor(start_bit)
           ELSE UNCHANGED <<buf, count, start_bit>>
        /\ bit' = count' % ByteBits
        /\ pc' = "window"
        /\ UNCHANGED <<bits, bufsize, firstbyte, lastbyte, arg>>

FirstByteReadFails ==
    /\ pc = "first"
    /\ firstbyte = 1
    /\ pc' = "failed"
    /\ UNCHANGED <<bits, buf, start_bit, count, bit, bufsize, firstbyte,
                   lastbyte, arg>>

(* One round of the loop, up to the write: a partial last byte that lies   *)
(* in this window is read in and changed.                                  *)
LastPos_NoFirstByte == BytesFor(count)
LastPos == BytesFor(count) + firstbyte
HasLastByte == count > 0 /\ bit # 0 /\ LastPos <= bufsize

LastByte ==
    LET at == ByteBits * (LastPos - 1)
        old == {b \in buf : b < at \/ b >= at + ByteBits}
                 \union {at + b : b \in ByteAt(bits, ByteOf(start_bit + count))}
    IN  /\ pc = "window"
        /\ IF HasLastByte
           THEN /\ buf' = Change(old, at .. at + bit - 1)
                /\ count' = count - bit
                /\ bit' = 0
                /\ lastbyte' = 1
           ELSE UNCHANGED <<buf, count, bit, lastbyte>>
        /\ pc' = "write"
        /\ UNCHANGED <<bits, start_bit, bufsize, firstbyte, arg>>

LastByteReadFails ==
    /\ pc = "window"
    /\ HasLastByte
    /\ pc' = "failed"
    /\ UNCHANGED <<bits, buf, start_bit, count, bit, bufsize, firstbyte,
                   lastbyte, arg>>

(* The attribute after the first n bytes of the buffer have been written.  *)
WindowByte == ByteOf(start_bit) - firstbyte
Written(n) == (bits \ ByteRange(WindowByte, n))
                 \union {ByteBits * WindowByte + b : b \in buf \intersect ByteRange(0, n)}

\* Mutant: the first byte stays in the buffer for the next window.
Write_KeepFirstByte ==
    LET done == ByteBits * (bufsize - firstbyte - lastbyte)
    IN  /\ pc = "write"
        /\ bits' = Written(bufsize)
        /\ firstbyte' = 0
        /\ start_bit' = start_bit + done
        /\ count' = count - done
        /\ bufsize' = Lesser(bufsize, BytesFor(count'))
        /\ pc' = CASE lastbyte = 1 /\ count' # 0 -> "failed"
                   [] count' > 0 -> "window"
                   [] OTHER -> "done"
        /\ UNCHANGED <<buf, bit, lastbyte, arg>>

(* The buffer is written and the counters go on to the next window.        *)
Write ==
    LET done == ByteBits * (bufsize - firstbyte - lastbyte)
    IN  /\ pc = "write"
        /\ bits' = Written(bufsize)
        /\ firstbyte' = 0
        /\ buf' = IF firstbyte = 1
                  THEN {b \in buf : b >= ByteBits} \union Fill(1)
                  ELSE buf
        /\ start_bit' = start_bit + done
        /\ count' = count - done
        /\ bufsize' = Lesser(bufsize, BytesFor(count'))
        /\ pc' = CASE lastbyte = 1 /\ count' # 0 -> "failed"
                   [] count' > 0 -> "window"
                   [] OTHER -> "done"
        /\ UNCHANGED <<bit, lastbyte, arg>>

(* The write fails after some bytes.                                       *)
WriteFails ==
    /\ pc = "write"
    /\ \E n \in 0 .. bufsize : bits' = Written(n)
    /\ pc' = "failed"
    /\ UNCHANGED <<buf, start_bit, count, bit, bufsize, firstbyte, lastbyte, arg>>

Next ==
    \/ \E start \in Bit, n \in 0 .. ByteBits * NrBytes, value \in {0, 1} :
          start + n <= ByteBits * NrBytes /\ Call(start, n, value)
    \/ FirstByte \/ FirstByteReadFails
    \/ LastByte \/ LastByteReadFails
    \/ Write \/ WriteFails

Spec == Init /\ [][Next]_vars
-----------------------------------------------------------------------------
Run == arg.start .. arg.start + arg.count - 1
Upto(cut) == Change(arg.before, {b \in Run : b < cut})

(* A call that succeeds has changed the bits of the run and no others,     *)
(* wherever the run starts and ends and however many windows it takes.  At *)
(* every moment before, and so after a failure or a crash, what has been   *)
(* changed is a prefix of the run: nothing outside is touched, and no bit  *)
(* is changed before the ones in front of it.  The allocator relies on     *)
(* this to describe what a failed free leaves behind.                      *)
ChangesTheRunInOrder ==
    /\ pc = "done" => bits = Change(arg.before, Run)
    /\ \E cut \in arg.start .. arg.start + arg.count : bits = Upto(cut)
=============================================================================
