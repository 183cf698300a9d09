------------------------------- MODULE MCChannel -------------------------------
(* Instances of Channel for TLC: tools a and b, of which b may run under another *)
(* uid, and the dashboard ui.                                                    *)
EXTENDS Channel

CONSTANTS a, b, ui
================================================================================
