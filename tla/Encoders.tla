------------------------------ MODULE Encoders ------------------------------
(***************************************************************************)
(* The shaft encoders: drivers/encoder.c and the registers it reads in     *)
(* xilinx/fpga/happyio.v.  A counter has two bytes.  Reading the low one   *)
(* makes the FPGA keep the high one, in a latch all encoders share.        *)
(*                                                                         *)
(* The zero points are 16-bit variables on an 8-bit processor: they are    *)
(* stored and loaded a byte at a time, in either order, and no lock is     *)
(* held while that happens.                                                *)
(***************************************************************************)
EXTENDS DriverLocks, Sequences

CONSTANTS
  Encoder,     \* the encoders, 24 .. 27
  Base,        \* number of values of a byte (256)
  Uses,        \* Uses[t]: the encoders thread t calls the driver for
  MaxResets    \* bound: how often each encoder is reset

EncodersAssumption ==
  /\ Encoder # {}
  /\ Base \in Nat \ {0}
  /\ Uses \in [Thread -> SUBSET Encoder]
  /\ MaxResets \in [Encoder -> Nat]

VARIABLES
  count,       \* the counters
  tempHi,      \* the latch for a high byte
  zero,        \* encoder_zero, by byte
  call,        \* the call a thread is in: which function, which encoder
  raw,         \* what encoder_read_raw() has read, by byte
  loaded,      \* the zero point encoder_read() has loaded, by byte
  todo,        \* the bytes of a zero point still to be loaded or stored
  atRead,      \* history: the counter when the thread read its low byte
  zeroed       \* history: the counts each encoder was reset at, in order

vars == <<halter, holder, pc, count, tempHi, zero, call, raw, loaded, todo,
          atRead, zeroed>>

Modulus == Base * Base
Bytes == {"lo", "hi"}
Byte == 0 .. Base - 1
Value(b) == b["hi"] * Base + b["lo"]
Zero == [b \in Bytes |-> 0]
NoCall == [entry |-> "read", encoder |-> CHOOSE e \in Encoder : TRUE]

TypeOK ==
  /\ holder \in [{"encoder"} -> Thread \cup {Nobody}]
  /\ count \in [Encoder -> 0 .. Modulus - 1]
  /\ tempHi \in Byte
  /\ zero \in [Encoder -> [Bytes -> Byte]]
  /\ raw \in [Thread -> [Bytes -> Byte]]
  /\ loaded \in [Thread -> [Bytes -> Byte]]
  /\ todo \in [Thread -> SUBSET Bytes]

Init ==
  /\ halter = Nobody
  /\ holder = [l \in {"encoder"} |-> Nobody]
  /\ pc = [t \in Thread |-> "idle"]
  /\ count = [e \in Encoder |-> 0]
  /\ tempHi = 0
  /\ zero = [e \in Encoder |-> Zero]
  /\ call = [t \in Thread |-> NoCall]
  /\ raw = [t \in Thread |-> Zero]
  /\ loaded = [t \in Thread |-> Zero]
  /\ todo = [t \in Thread |-> {}]
  /\ atRead = [t \in Thread |-> 0]
  /\ zeroed = [e \in Encoder |-> <<0>>]

\* The wheel turns.
Pulse(e) ==
  /\ count' = [count EXCEPT ![e] = (@ + 1) % Modulus]
  /\ UNCHANGED <<halter, holder, pc, tempHi, zero, call, raw, loaded, todo,
                 atRead, zeroed>>

-----------------------------------------------------------------------------
(* encoder_read_raw(), called by encoder_read() and encoder_reset() *)

\* entry is "read" or "reset".
Call(t, entry, e) ==
  /\ Goes(t, "idle", "lock")
  /\ entry = "reset" => Len(zeroed[e]) <= MaxResets[e]
  /\ call' = [call EXCEPT ![t] = [entry |-> entry, encoder |-> e]]
  /\ UNCHANGED <<halter, holder, count, tempHi, zero, raw, loaded, todo,
                 atRead, zeroed>>

Lock(t) ==
  /\ Goes(t, "lock", "lo")
  /\ Takes(t, "encoder")
  /\ UNCHANGED <<halter, count, tempHi, zero, call, raw, loaded, todo,
                 atRead, zeroed>>

\* What the read of a low byte leaves in the latch.
Latched(n) == n \div Base

ReadLo(t) ==
  LET n == count[call[t].encoder] IN
  /\ Goes(t, "lo", "hi")
  /\ raw' = [raw EXCEPT ![t]["lo"] = n % Base]
  /\ tempHi' = Latched(n)
  /\ atRead' = [atRead EXCEPT ![t] = n]
  /\ UNCHANGED <<halter, holder, count, zero, call, loaded, todo, zeroed>>

ReadHi(t) ==
  /\ Goes(t, "hi", "unlock")
  /\ raw' = [raw EXCEPT ![t]["hi"] = tempHi]
  /\ UNCHANGED <<halter, holder, count, tempHi, zero, call, loaded, todo,
                 atRead, zeroed>>

Unlock(t) ==
  /\ Goes(t, "unlock", "zero")
  /\ Gives(t, "encoder")
  /\ todo' = [todo EXCEPT ![t] = Bytes]
  /\ zeroed' = IF call[t].entry = "reset"
               THEN [zeroed EXCEPT ![call[t].encoder] = Append(@, atRead[t])]
               ELSE zeroed
  /\ UNCHANGED <<halter, count, tempHi, zero, call, raw, loaded, atRead>>

-----------------------------------------------------------------------------
(* The zero point *)

\* Mutant: the high byte of a zero point is not stored.
StoreLo(stored, b, value) == IF b = "lo" THEN [stored EXCEPT ![b] = value]
                                         ELSE stored

\* One byte of a zero point is stored.
Store(stored, b, value) == [stored EXCEPT ![b] = value]

\* encoder_reset()
StoreZero(t) ==
  \E b \in todo[t] :
    /\ pc[t] = "zero" /\ call[t].entry = "reset" /\ Runs(t)
    /\ zero' = [zero EXCEPT ![call[t].encoder] = Store(@, b, raw[t][b])]
    /\ todo' = [todo EXCEPT ![t] = @ \ {b}]
    /\ UNCHANGED <<halter, holder, pc, count, tempHi, call, raw, loaded,
                   atRead, zeroed>>

\* encoder_read()
LoadZero(t) ==
  \E b \in todo[t] :
    /\ pc[t] = "zero" /\ call[t].entry = "read" /\ Runs(t)
    /\ loaded' = [loaded EXCEPT ![t][b] = zero[call[t].encoder][b]]
    /\ todo' = [todo EXCEPT ![t] = @ \ {b}]
    /\ UNCHANGED <<halter, holder, pc, count, tempHi, zero, call, raw, atRead,
                   zeroed>>

Return(t) ==
  /\ Goes(t, "zero", "idle")
  /\ todo[t] = {}
  /\ call' = [call EXCEPT ![t] = NoCall]
  /\ raw' = [raw EXCEPT ![t] = Zero]
  /\ loaded' = [loaded EXCEPT ![t] = Zero]
  /\ atRead' = [atRead EXCEPT ![t] = 0]
  /\ UNCHANGED <<halter, holder, count, tempHi, zero, todo, zeroed>>

Next ==
  \/ \E e \in Encoder : Pulse(e)
  \/ \E t \in Thread :
       \/ \E e \in Uses[t], entry \in {"read", "reset"} : Call(t, entry, e)
       \/ Lock(t)
       \/ ReadLo(t)
       \/ ReadHi(t)
       \/ Unlock(t)
       \/ StoreZero(t)
       \/ LoadZero(t)
       \/ Return(t)

Spec == Init /\ [][Next]_vars

-----------------------------------------------------------------------------
(* Properties *)

Distance(m, n) == (m - n) % Modulus

\* What encoder_read() is about to return.
Reading(t) == Distance(Value(raw[t]), Value(loaded[t]))

LastZeroed(e) == zeroed[e][Len(zeroed[e])]

Returning(t) ==
  pc[t] = "zero" /\ call[t].entry = "read" /\ todo[t] = {}

\* The two bytes encoder_read_raw() returns are those of one count, whatever
\* counts on or reads another encoder in between.
ReadingsAreWhole ==
  \A t \in Thread :
    pc[t] \in {"unlock", "zero"} => Value(raw[t]) = atRead[t]

\* A thread that alone uses an encoder gets the pulses since it last reset it,
\* also when the counter has run over.
ReadsDistanceSinceReset ==
  \A t \in Thread :
    Returning(t) =>
      Reading(t) = Distance(atRead[t], LastZeroed(call[t].encoder))

\* lock.h: "All of the Happyboard hardware drivers are locked to ensure
\* thread-safe operation".  A reading is the distance from some count the
\* encoder was reset at, also when several threads use that encoder.
ReadsSomeDistance ==
  \A t \in Thread :
    Returning(t) => \E i \in DOMAIN zeroed[call[t].encoder] :
                      Reading(t) = Distance(atRead[t], zeroed[call[t].encoder][i])
=============================================================================
