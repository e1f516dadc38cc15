---------------------------- MODULE MCOutputGate ----------------------------
(* Two units a period, a streak that saturates above the last value the    *)
(* score tells apart, two days: the end of a vacation is past, today's or  *)
(* tomorrow's.                                                             *)
EXTENDS OutputGate

MCEnds == {0, 2}
=============================================================================
