-------------------------------- MODULE Htif --------------------------------
(***************************************************************************)
(* The host interface of src/htif.c: two 64-bit registers, tohost and      *)
(* fromhost, that the guest reaches by 32-bit halves.  Storing the high    *)
(* half of tohost runs the command that the register then holds.           *)
(*                                                                         *)
(* An item of the bus changes as one part of a larger access, so its       *)
(* operations are functions of its state, a record h:                      *)
(*   h.tohost, h.fromhost   <<low half, high half>>                        *)
(*   h.power                "on", or the exit that ended the emulator      *)
(*   h.printed              what the current access wrote to the console   *)
(* The high half is scaled down to a device number above two command bits, *)
(* so that a device may be given commands that no branch of the handler    *)
(* knows; the code has eight bits of each, with nothing below them.        *)
(***************************************************************************)
EXTENDS Naturals, Sequences

CONSTANT NoChar    \* the current access has written nothing

HTIF_SIZE == 4     \* in words of 32 bits

ConsoleDevice == 1
DeviceOf(half) == half \div 4
CmdOf(half) == half % 4

htif_init ==
    [tohost |-> <<0, 0>>, fromhost |-> <<0, 0>>, power |-> "on", printed |-> NoChar]

\* Mutant: the command that has been run is left in tohost.
htif_cmd_handler_KeepsCommand(h) ==
    LET lo == h.tohost[1]
        hi == h.tohost[2]
    IN  IF DeviceOf(hi) = ConsoleDevice /\ CmdOf(hi) = 1
        THEN [h EXCEPT !.printed = lo, !.fromhost = <<0, hi>>]
        ELSE h

\* Power off, console output, console input (which never has any); the rest, other
\* commands to the console among it, is reported on the terminal and stays in
\* tohost.
htif_cmd_handler(h) ==
    LET lo == h.tohost[1]
        hi == h.tohost[2]
    IN  IF h.tohost = <<1, 0>> THEN [h EXCEPT !.power = "exit 0"]
        ELSE IF DeviceOf(hi) = ConsoleDevice /\ CmdOf(hi) = 1
             THEN [h EXCEPT !.printed = lo, !.tohost = <<0, 0>>, !.fromhost = <<0, hi>>]
        ELSE IF DeviceOf(hi) = ConsoleDevice /\ CmdOf(hi) = 0
             THEN [h EXCEPT !.tohost = <<0, 0>>]
        ELSE h

\* The mask of the low half of either register is a 32-bit zero, so storing it
\* clears the high half.
htif_write_sub(h, offset, value) ==
    CASE offset = 0 -> [h EXCEPT !.tohost = <<value, 0>>,
                                 !.power = IF value = 1 THEN "exit 1" ELSE @]
      [] offset = 1 -> htif_cmd_handler([h EXCEPT !.tohost = <<@[1], value>>])
      [] offset = 2 -> [h EXCEPT !.fromhost = <<value, 0>>]
      [] offset = 3 -> [h EXCEPT !.fromhost = <<@[1], value>>]

\* One or two halves, upwards; the exit of the first ends the emulator before
\* the second.  The caller keeps offset + n within the registers.
htif_write(h, offset, value, n) ==
    LET first == htif_write_sub(h, offset, value[1])
    IN  IF n = 1 \/ first.power # "on" THEN first
        ELSE htif_write_sub(first, offset + 1, value[2])

htif_read(h, offset, n) ==
    LET half == h.tohost \o h.fromhost
    IN  [k \in 1 .. n |-> half[offset + k]]
=============================================================================
