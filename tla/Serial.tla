------------------------------- MODULE Serial -------------------------------
(***************************************************************************)
(* The serial port driver (drivers/chrdev/serial.c) and, external, the     *)
(* chip behind it.  Received characters wait in the chip; in loopback mode *)
(* what the driver writes is received again and the line is cut off.       *)
(***************************************************************************)
EXTENDS Sequences, Naturals

CONSTANT PortMax        \* characters the chip holds; more are lost
ASSUME PortAssumption == PortMax \in Nat \ {0}

VARIABLES
    uart,       \* "off" before the first open, then "normal" or "loop"
    crnl,       \* SRL_ICRNL and SRL_OCRNL are set
    port        \* received characters

svars == <<uart, crnl, port>>

SerialInit == uart = "off" /\ crnl = FALSE /\ port = <<>>

\* The open that initialises the port.  If its loopback test fails it returns
\* -EIO, but s->port is set and the chip stays in loopback mode.
serial_open_dev(ok) ==
    /\ uart = "off"
    /\ uart' = IF ok THEN "normal" ELSE "loop"

\* Later opens find s->port set and succeed.
serial_reopen == uart # "off" /\ UNCHANGED uart

serial_ioctl_set == crnl' = TRUE

ifilter(ch) == IF crnl /\ ch = "cr" THEN "nl" ELSE ch

\* One character written to the chip while it loops back.
Looped(p, ch) == IF Len(p) < PortMax THEN Append(p, ch) ELSE p
ofilter(p, ch) ==
    IF crnl /\ ch = "nl" THEN Looped(Looped(p, "cr"), ch) ELSE Looped(p, ch)

\* What port q becomes when the driver writes the one or two characters s.
serial_write(q, s) ==
    IF uart # "loop" \/ s = <<>> THEN q
    ELSE IF Len(s) = 1 THEN ofilter(q, s[1])
    ELSE ofilter(ofilter(q, s[1]), s[2])

\* External: a character arrives on the line.
Receive(ch) ==
    /\ uart = "normal" /\ Len(port) < PortMax
    /\ port' = Append(port, ch)
    /\ UNCHANGED <<uart, crnl>>
=============================================================================
