---------------------------- MODULE DigitalPorts ----------------------------
(***************************************************************************)
(* The digital ports: drivers/digital.c and the registers it writes in     *)
(* xilinx/fpga/happyio.v.  Which ports are outputs is kept in a variable   *)
(* of the driver, since the register of the FPGA cannot be read; a call    *)
(* changes one bit of the variable and writes all of it to the register.   *)
(***************************************************************************)
EXTENDS DriverLocks

CONSTANTS
  Port,        \* the digital ports, 0 .. 7
  Level        \* values of the pulse width registers, 0 among them

DigitalPortsAssumption == Port # {} /\ 0 \in Level

VARIABLES
  output_pinmode,  \* the driver's set of the ports that are outputs
  digitalPinMode,  \* the register: the ports the FPGA drives
  digitalPwm,      \* what the FPGA drives a port with
  call,            \* the call a thread is in: port, and level if it writes
  loaded,          \* output_pinmode as the thread has loaded it
  asked            \* history: the last call for each port

vars == <<halter, holder, pc, output_pinmode, digitalPinMode, digitalPwm,
          call, loaded, asked>>

NoLevel == -1
NoCall == [port |-> CHOOSE p \in Port : TRUE, level |-> NoLevel]
Writes(t) == call[t].level # NoLevel

TypeOK ==
  /\ holder \in [{"digital"} -> Thread \cup {Nobody}]
  /\ output_pinmode \subseteq Port
  /\ digitalPinMode \subseteq Port
  /\ digitalPwm \in [Port -> Level]
  /\ loaded \in [Thread -> SUBSET Port]

\* All ports are inputs.
Init ==
  /\ halter = Nobody
  /\ holder = [l \in {"digital"} |-> Nobody]
  /\ pc = [t \in Thread |-> "idle"]
  /\ output_pinmode = {}
  /\ digitalPinMode = {}
  /\ digitalPwm = [p \in Port |-> 0]
  /\ call = [t \in Thread |-> NoCall]
  /\ loaded = [t \in Thread |-> {}]
  /\ asked = [p \in Port |-> NoLevel]

\* digital_read(), digital_write_pwm() or digital_write() is called.
Call(t, port, level) ==
  /\ Goes(t, "idle", "lock")
  /\ call' = [call EXCEPT ![t] = [port |-> port, level |-> level]]
  /\ UNCHANGED <<halter, holder, output_pinmode, digitalPinMode, digitalPwm,
                 loaded, asked>>

\* Mutant: the level is left as it was.
ModeOnly(t) == "load"

\* What a call does first: a write sets the level before the direction.
FirstStep(t) == IF Writes(t) THEN "pwm" ELSE "load"

Lock(t) ==
  /\ Goes(t, "lock", FirstStep(t))
  /\ Takes(t, "digital")
  /\ asked' = [asked EXCEPT ![call[t].port] = call[t].level]
  /\ UNCHANGED <<halter, output_pinmode, digitalPinMode, digitalPwm, call,
                 loaded>>

WritePwm(t) ==
  /\ Goes(t, "pwm", "load")
  /\ digitalPwm' = [digitalPwm EXCEPT ![call[t].port] = call[t].level]
  /\ UNCHANGED <<halter, holder, output_pinmode, digitalPinMode, call, loaded,
                 asked>>

\* _set_digital_pinmode(): a bit of output_pinmode is set or cleared ...
LoadModes(t) ==
  /\ Goes(t, "load", "store")
  /\ loaded' = [loaded EXCEPT ![t] = output_pinmode]
  /\ UNCHANGED <<halter, holder, output_pinmode, digitalPinMode, digitalPwm,
                 call, asked>>

Changed(modes, t) == IF Writes(t) THEN modes \cup {call[t].port}
                                  ELSE modes \ {call[t].port}

StoreModes(t) ==
  /\ Goes(t, "store", "mode")
  /\ output_pinmode' = Changed(loaded[t], t)
  /\ UNCHANGED <<halter, holder, digitalPinMode, digitalPwm, call, loaded,
                 asked>>

\* ... and the variable is written to the FPGA.
WriteModes(t) ==
  /\ Goes(t, "mode", IF Writes(t) THEN "unlock" ELSE "sample")
  /\ digitalPinMode' = output_pinmode
  /\ UNCHANGED <<halter, holder, output_pinmode, digitalPwm, call, loaded,
                 asked>>

\* digital_read() reads the pins, with its own no longer driven.
\* (digital_read_8() only reads them and needs no action.)
Sample(t) ==
  /\ Goes(t, "sample", "unlock")
  /\ UNCHANGED <<halter, holder, output_pinmode, digitalPinMode, digitalPwm,
                 call, loaded, asked>>

Unlock(t) ==
  /\ Goes(t, "unlock", "idle")
  /\ Gives(t, "digital")
  /\ call' = [call EXCEPT ![t] = NoCall]
  /\ loaded' = [loaded EXCEPT ![t] = {}]
  /\ UNCHANGED <<halter, output_pinmode, digitalPinMode, digitalPwm, asked>>

Next ==
  \E t \in Thread :
    \/ \E p \in Port, l \in Level \cup {NoLevel} : Call(t, p, l)
    \/ Lock(t)
    \/ WritePwm(t)
    \/ LoadModes(t)
    \/ StoreModes(t)
    \/ WriteModes(t)
    \/ Sample(t)
    \/ Unlock(t)

Spec == Init /\ [][Next]_vars

-----------------------------------------------------------------------------
(* Properties *)

\* Between calls the FPGA drives exactly the ports whose last call was a
\* write, each with the level that call gave: no call undoes the direction
\* another gave to another port.
PortsAsAsked ==
  (\A t \in Thread : pc[t] \in {"idle", "lock"}) =>
    \A p \in Port : /\ p \in digitalPinMode <=> asked[p] # NoLevel
                    /\ p \in digitalPinMode => digitalPwm[p] = asked[p]

\* digital.c: "write the new value first, then set the pin as an output".  A
\* pin never becomes an output with an older level.
NoStaleLevel ==
  [][\A p \in Port : p \in digitalPinMode' \ digitalPinMode
       => digitalPwm'[p] = asked[p]]_vars

\* While a call samples a port, the FPGA does not drive it.
SampledIsInput ==
  \A t \in Thread : pc[t] = "sample" => call[t].port \notin digitalPinMode
=============================================================================
