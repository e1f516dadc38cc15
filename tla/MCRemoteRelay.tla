----------------------------- MODULE MCRemoteRelay -----------------------------
(* A schedule with a window of each type, two of them limited by           *)
(* temperature, one that ends before midnight and one whose limits cross;  *)
(* every reading is below, at or above the limits, or between crossed ones.*)
EXTENDS RemoteRelay

Window(type, end, tmin) ==
  [type |-> type, end |-> end, pmin |-> 0, pmax |-> 0, tmin |-> tmin, tmax |-> 150]

MCUploads   == {<<Window("off", 1, 150), Window("power", 2, 60), Window("on", 3, 60)>>,
                <<Window("on", 1, 150), Window("power", 2, 150)>>,
                <<[Window("power", 3, 60) EXCEPT !.pmin = 1, !.pmax = -1]>>}
MCTempNone  == -100
MCPowers    == {-1, 0, 1}
=============================================================================
