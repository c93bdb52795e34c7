---------------------------- MODULE MCHartResume ----------------------------
(* Instances of HartResume for TLC. *)
EXTENDS HartResume

\* Two addresses that follow one another; both handlers start at the first.
TwoAddrs == {0, 1}
OtherAddr == [a \in TwoAddrs |-> 1 - a]

\* mstatus values: enables on and off, S and U to return to, each with a width of
\* its own.
ResumeMstatus ==
    { v \in [ie : {{PRIV_U}, {PRIV_S, PRIV_M}}, spie : {TRUE}, mpie : {TRUE},
             spp : {PRIV_U, PRIV_S}, mpp : {PRIV_U, PRIV_S}, uxl : {1, 2}, sxl : {1, 2}] :
          v.uxl # v.sxl }
=============================================================================
