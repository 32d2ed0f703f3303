----------------------------- MODULE DataBuffer -----------------------------
(***************************************************************************)
(* The ring buffer between the compressor and the transmitter              *)
(* (libs/videoshare/DataBuffer.cpp), with one writer and one reader and no *)
(* lock.  read_ptr and write_ptr are size_t counters that only grow and    *)
(* wrap at 2^w; an index into the ring is their remainder.  Each call      *)
(* copies first and moves its pointer last, in two steps here, in the      *)
(* order of the statements.                                                *)
(*                                                                         *)
(* The bytes written are numbered from 1 and a cell holds the number of    *)
(* its byte (0 before any), so what it should hold can be told.            *)
(***************************************************************************)
EXTENDS Integers

CONSTANTS
  bufsize,   \* 1024*512 in VideoShare
  SIZE_T,    \* 2^w, the number of values of size_t
  Counts,    \* values of cnt
  MaxBytes   \* bound: bytes written in a behaviour

(* A power of two: otherwise the remainder jumps when a pointer wraps *)
ASSUME RingAssumption ==
  /\ bufsize \in Nat \ {0} /\ SIZE_T \in Nat
  /\ SIZE_T > bufsize /\ SIZE_T % bufsize = 0
  /\ Counts \subseteq Nat \ {0}
  /\ MaxBytes \in Nat

VARIABLES
  buffer, read_ptr, write_ptr,
  writing, reading, \* bytes copied by the call in progress, 0 outside one
  written, read     \* history: bytes written and read so far

ringBufferVars == <<buffer, read_ptr, write_ptr, writing, reading, written, read>>

Cells == 0 .. bufsize - 1

RingTypeOK ==
  /\ buffer \in [Cells -> 0 .. MaxBytes]
  /\ read_ptr \in 0 .. SIZE_T - 1 /\ write_ptr \in 0 .. SIZE_T - 1
  /\ writing \in Nat /\ reading \in Nat
  /\ written \in Nat /\ read \in Nat

RingInit ==
  /\ buffer = [c \in Cells |-> 0]
  /\ read_ptr = 0 /\ write_ptr = 0
  /\ writing = 0 /\ reading = 0
  /\ written = 0 /\ read = 0

(* Mutants: pointers that are indices, so that a full ring looks empty; a  *)
(* write that does not ask for space.                                      *)
IndexDistance == (write_ptr - read_ptr) % bufsize

getReadSpace == (write_ptr - read_ptr) % SIZE_T

AlwaysSpace == bufsize
getWriteSpace == (bufsize - getReadSpace) % SIZE_T

(* The cells from position ptr on, in the one or two pieces of the copy    *)
Piece(ptr, cnt) ==
  LET curptr == ptr % bufsize
  IN  IF bufsize - curptr >= cnt
      THEN [k \in 0 .. cnt - 1 |-> curptr + k]
      ELSE [k \in 0 .. cnt - 1 |->
              IF k < bufsize - curptr THEN curptr + k
                                      ELSE k - (bufsize - curptr)]

WriteCopy ==
  \E cnt \in Counts :
    LET piece == Piece(write_ptr, cnt)
    IN  /\ writing = 0 /\ written + cnt <= MaxBytes
        /\ getWriteSpace >= cnt
        /\ buffer' = [c \in Cells |->
             IF \E k \in 0 .. cnt - 1 : piece[k] = c
             THEN written + 1 + (CHOOSE k \in 0 .. cnt - 1 : piece[k] = c)
             ELSE buffer[c]]
        /\ writing' = cnt
        /\ UNCHANGED <<read_ptr, write_ptr, reading, written, read>>

WriteAdvance ==
  /\ writing # 0
  /\ write_ptr' = (write_ptr + writing) % SIZE_T
  /\ written' = written + writing
  /\ writing' = 0
  /\ UNCHANGED <<buffer, read_ptr, reading, read>>

(* Read itself checks nothing; its caller has checked getReadSpace.        *)
ReadCopy ==
  \E cnt \in Counts :
    /\ reading = 0
    /\ getReadSpace >= cnt
    /\ reading' = cnt
    /\ UNCHANGED <<buffer, read_ptr, write_ptr, writing, written, read>>

ReadAdvance ==
  /\ reading # 0
  /\ read_ptr' = (read_ptr + reading) % SIZE_T
  /\ read' = read + reading
  /\ reading' = 0
  /\ UNCHANGED <<buffer, write_ptr, writing, written>>

RingNext == WriteCopy \/ WriteAdvance \/ ReadCopy \/ ReadAdvance
RingSpec == RingInit /\ [][RingNext]_ringBufferVars
-----------------------------------------------------------------------------
(* The reader gets the bytes in the order written, across the end of the   *)
(* ring and across the wrap of the counters: throughout its copy, the      *)
(* cells it copies hold the next bytes, whatever the writer is doing.      *)
ReadsNextBytes ==
  \A k \in 0 .. reading - 1 : buffer[Piece(read_ptr, reading)[k]] = read + 1 + k

(* The space getReadSpace and getWriteSpace report is the space there is.  *)
SpacesAgree ==
  /\ getReadSpace = written - read
  /\ getWriteSpace = bufsize - (written - read)

(* What is read is what was written, and there is as much of it as the two *)
(* sides are told (DataBuffer.cpp:12-74).                                  *)
RingIsAFifo == ReadsNextBytes /\ SpacesAgree
=============================================================================
