----------------------------- MODULE ByteQueue -----------------------------
(***************************************************************************)
(* What a ring buffer is for: a queue of bytes of bounded capacity.  A     *)
(* write takes as many bytes as fit, a read gives as many as there are.    *)
(***************************************************************************)
EXTENDS SequencesExt

CONSTANTS Byte, Capacity, MaxCount

VARIABLES
  queue,      \* the bytes written and not yet read
  count,      \* what the last call returned
  out         \* the bytes the last call read

Init == queue = <<>> /\ count = 0 /\ out = <<>>

Least(m, n) == IF m <= n THEN m ELSE n

Write(bytes) ==
  LET n == Least(Len(bytes), Capacity - Len(queue)) IN
  /\ queue' = queue \o SubSeq(bytes, 1, n)
  /\ count' = n
  /\ out' = <<>>

Read(wanted) ==
  LET n == Least(wanted, Len(queue)) IN
  /\ queue' = SubSeq(queue, n + 1, Len(queue))
  /\ count' = n
  /\ out' = SubSeq(queue, 1, n)

Next ==
  \/ \E bytes \in BoundedSeq(Byte, MaxCount) : Write(bytes)
  \/ \E wanted \in 0 .. MaxCount : Read(wanted)

Spec == Init /\ [][Next]_<<queue, count, out>>
=============================================================================
