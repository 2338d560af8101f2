----------------------------- MODULE RadioText -----------------------------
(***************************************************************************)
(* Strings the referee sends to the robot (drivers/rf.c): the receive      *)
(* thread copies a STRING packet to rf_str_buf and sets rf_buf_index back, *)
(* with no lock; rf_scanf() reads characters from there, one thread at a   *)
(* time under rf_lock.  The increment of the index is a load and a store,  *)
(* and the copy is byte by byte.                                           *)
(***************************************************************************)
EXTENDS DriverLocks, Sequences

CONSTANTS
  StringThread,    \* rf_receive()
  Strings,         \* payloads: sequences of PayloadSize characters
  PayloadSize,
  MaxStrings       \* bound: number of STRING packets

RadioTextAssumption ==
  /\ StringThread \in Thread
  /\ PayloadSize \in Nat \ {0}
  /\ Strings \subseteq [1 .. PayloadSize -> Nat]

VARIABLES
  rf_str_buf,      \* one longer than a payload, ends with a null character
  rf_buf_index,
  arrived,         \* the payload of the packet processed, or the last one
  copied,          \* how many of its characters have been copied
  index,           \* the index rf_recv() has loaded, by thread
  text,            \* history: the characters read of this string
  disturbed,       \* history: the string arrived in the middle of rf_recv(),
                   \* or was read in the middle of the copy
  strings          \* counter of the bound

textVars == <<rf_str_buf, rf_buf_index, arrived, copied, index, text, disturbed,
              strings>>

Null == 0
Scanner == Thread \ {StringThread}
Receiving == {"seen", "loaded", "stored"}
Copying == pc[StringThread] = "copy"

RadioTextTypeOK ==
  /\ rf_buf_index \in 0 .. PayloadSize
  /\ rf_str_buf[PayloadSize + 1] = Null
  /\ \A t \in Scanner : index[t] < PayloadSize

RadioTextInit ==
  /\ rf_str_buf = [i \in 1 .. PayloadSize + 1 |-> Null]
  /\ rf_buf_index = 0
  /\ arrived = [i \in 1 .. PayloadSize |-> Null] /\ copied = 0
  /\ index = [t \in Thread |-> 0]
  /\ text = <<>> /\ disturbed = FALSE /\ strings = 0

-----------------------------------------------------------------------------
(* rf_process_packet(), a STRING packet *)

\* Mutant: the reader goes on where it was.
IndexKept == rf_buf_index

IndexBack == 0

StringArrives(s) ==
  /\ strings < MaxStrings
  /\ Goes(StringThread, "idle", "copy")
  /\ rf_buf_index' = IndexBack
  /\ arrived' = s /\ copied' = 0
  /\ text' = <<>>
  /\ disturbed' = (\E t \in Scanner : pc[t] \in Receiving)
  /\ strings' = strings + 1
  /\ UNCHANGED <<halter, holder, rf_str_buf, index>>

CopyCharacter ==
  /\ Runs(StringThread) /\ Copying /\ copied < PayloadSize
  /\ copied' = copied + 1
  /\ rf_str_buf' = [rf_str_buf EXCEPT ![copied + 1] = arrived[copied + 1]]
  /\ UNCHANGED <<halter, holder, pc, rf_buf_index, arrived, index, text,
                 disturbed, strings>>

EndCopy ==
  /\ Goes(StringThread, "copy", "idle")
  /\ copied = PayloadSize
  /\ UNCHANGED <<halter, holder, textVars>>

-----------------------------------------------------------------------------
(* rf_scanf() *)

rf_scanf(t) ==
  /\ Goes(t, "idle", "rf_recv")
  /\ Takes(t, "rf")
  /\ UNCHANGED <<halter, textVars>>

\* rf_has_char(), and what rf_recv() waits for, with rf_lock.
rf_has_char == rf_buf_index # PayloadSize /\ rf_str_buf[rf_buf_index + 1] # Null

SeeCharacter(t) ==
  /\ Goes(t, "rf_recv", "seen")
  /\ rf_has_char
  /\ disturbed' = (disturbed \/ Copying)
  /\ UNCHANGED <<halter, holder, rf_str_buf, rf_buf_index, arrived, copied,
                 index, text, strings>>

LoadIndex(t) ==
  /\ Goes(t, "seen", "loaded")
  /\ index' = [index EXCEPT ![t] = rf_buf_index]
  /\ UNCHANGED <<halter, holder, rf_str_buf, rf_buf_index, arrived, copied,
                 text, disturbed, strings>>

StoreIndex(t) ==
  /\ Goes(t, "loaded", "stored")
  /\ rf_buf_index' = index[t] + 1
  /\ UNCHANGED <<halter, holder, rf_str_buf, arrived, copied, index, text,
                 disturbed, strings>>

\* The character goes to vfscanf(), which takes another one or is done.
TakeCharacter(t) ==
  /\ \/ Goes(t, "stored", "rf_recv")
     \/ Goes(t, "stored", "scanned")
  /\ text' = Append(text, rf_str_buf[index[t] + 1])
  /\ UNCHANGED <<halter, holder, rf_str_buf, rf_buf_index, arrived, copied,
                 index, disturbed, strings>>

EndRfScan(t) ==
  /\ Goes(t, "scanned", "idle")
  /\ Gives(t, "rf")
  /\ UNCHANGED <<halter, textVars>>

-----------------------------------------------------------------------------

RadioTextNext ==
  \/ \E s \in Strings : StringArrives(s)
  \/ CopyCharacter
  \/ EndCopy
  \/ \E t \in Scanner : \/ rf_scanf(t) \/ SeeCharacter(t)
                        \/ LoadIndex(t) \/ StoreIndex(t)
                        \/ TakeCharacter(t) \/ EndRfScan(t)

\* rf_recv(): several scans, of whichever threads, read a string from its
\* beginning, every character once.  That is so unless the string came while
\* rf_recv() was between its look and its return, or was read before all of
\* it was copied: nothing keeps the two threads apart.
ReadsTheString ==
  ~disturbed => /\ Len(text) <= PayloadSize
                /\ \A i \in 1 .. Len(text) : text[i] = arrived[i]
=============================================================================
