------------------------------- MODULE MCHart -------------------------------
(* Instances of Hart for TLC. *)
EXTENDS Hart

\* One address is enough where no property follows the saved pc.
OneAddr == {0}
StayPut == [a \in OneAddr |-> a]

\* mstatus values for interrupts: both enables, every previous privilege of a
\* return to M, S or U, no change of width.
IrqMstatus ==
    [ie : SUBSET {PRIV_S, PRIV_M}, spie : {TRUE}, mpie : BOOLEAN, spp : {PRIV_U, PRIV_S},
     mpp : {PRIV_U, PRIV_S, PRIV_M}, uxl : {2}, sxl : {2}]

\* mstatus values for widths: every width field, legal or not, every previous
\* privilege, interrupts off.
WidthMstatus ==
    [ie : {{}}, spie : {TRUE}, mpie : {TRUE}, spp : {PRIV_U, PRIV_S},
     mpp : Privs, uxl : 0 .. 3, sxl : 0 .. 3]

\* mstatus values for liveness: the enables of S and M, returns to S and U.
LiveMstatus ==
    [ie : {{}, {PRIV_S, PRIV_M}}, spie : {TRUE}, mpie : {TRUE}, spp : {PRIV_U},
     mpp : {PRIV_U, PRIV_S}, uxl : {2}, sxl : {2}]
=============================================================================
