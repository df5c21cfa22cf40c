--------------------------- MODULE MCAlarmTicker ---------------------------
(***************************************************************************)
(* AlarmTicker with a limit small enough to be exceeded.                   *)
(***************************************************************************)
EXTENDS AlarmTicker

\* Two requests a second.
OneLimit == (1 :> 2)
=============================================================================
