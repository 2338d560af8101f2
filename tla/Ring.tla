-------------------------------- MODULE Ring --------------------------------
(***************************************************************************)
(* The ring buffer of src/src/kern/ring.c.  Every call holds the lock of   *)
(* the ring from its first to its last statement, and Locks shows that no  *)
(* other thread gets the lock meanwhile, so a call is one step.            *)
(***************************************************************************)
EXTENDS SequencesExt, Integers

CONSTANTS
  Byte,
  Capacity,    \* ring->capacity
  Word,        \* modulus of uint16_t
  MaxCount     \* bound: the largest count of a call

RingAssumption ==
  /\ Capacity \in Nat \ {0}
  /\ MaxCount \in Nat
  /\ Word \in Nat
  /\ Word >= 2 * Capacity
  /\ Word > MaxCount
  /\ Byte # {}

VARIABLES
  buf,         \* ring->buf
  read,        \* next position to read from, or Capacity: the ring is empty
  write,       \* next position to write to
  count,       \* what the last call returned
  out          \* the bytes the last ring_read() copied out

vars == <<buf, read, write, count, out>>

Index == 0 .. Capacity - 1

TypeOK ==
  /\ buf \in [Index -> Byte]
  /\ read \in Index \cup {Capacity}
  /\ write \in Index
  /\ count \in 0 .. Capacity
  /\ out \in Seq(Byte)

\* ring_init(): the bytes of the buffer are whatever malloc() found.
Init ==
  /\ buf \in [Index -> Byte]
  /\ read = Capacity
  /\ write = 0
  /\ count = 0
  /\ out = <<>>

Least(m, n) == IF m <= n THEN m ELSE n

\* Mutant: the distance alone; a full ring looks empty.
DistanceOnly == IF read = Capacity THEN 0 ELSE (write - read) % Capacity

\* ring_size()
Size == IF read = Capacity THEN 0
                           ELSE ((write - read + Capacity - 1) % Capacity) + 1

\* A position n bytes further, past the end of the buffer at its start.
Advanced(position, n) == (position + n) % Capacity

\* The copy runs to the end of the buffer and goes on from its start.
ring_write(bytes) ==
  LET n == Least(Len(bytes), Capacity - Size)
      place(i) == (i - write) % Capacity
  IN  /\ read' = IF Size + Len(bytes) > 0 /\ read = Capacity
                 THEN write ELSE read
      /\ buf' = [i \in Index |-> IF place(i) < n THEN bytes[place(i) + 1]
                                                 ELSE buf[i]]
      /\ write' = Advanced(write, n)
      /\ count' = n
      /\ out' = <<>>

\* The test is on an unsigned difference, which is never below zero.
Empties(n, wanted) == (n - wanted) % Word <= 0

ring_read(wanted) ==
  LET n == Least(wanted, Size) IN
  /\ out' = [j \in 1 .. n |-> buf[(read + j - 1) % Capacity]]
  /\ read' = IF Empties(Size, wanted) THEN Capacity
             ELSE IF n > 0 THEN Advanced(read, n) ELSE read
  /\ count' = n
  /\ UNCHANGED <<buf, write>>

\* Readers ask for no more than ring_size().  (A read of more would not find
\* the ring empty, and leave it looking full.)
Next ==
  \/ \E bytes \in BoundedSeq(Byte, MaxCount) : ring_write(bytes)
  \/ \E wanted \in 0 .. MaxCount :
       /\ wanted <= Size
       /\ ring_read(wanted)

Spec == Init /\ [][Next]_vars

-----------------------------------------------------------------------------
(* Properties *)

\* The bytes in the ring, oldest first.
Contents == [i \in 1 .. Size |-> buf[(read + i - 1) % Capacity]]

\* Bytes come out once, in the order they went in, through any number of
\* wraps, and a full ring is told from an empty one.
Queue == INSTANCE ByteQueue WITH queue <- Contents
ImplementsQueue == Queue!Spec
=============================================================================
