------------------------------ MODULE MCSfuSync ------------------------------
(* An instance of SfuSync for TLC.                                           *)
EXTENDS SfuSync, TLC

CONSTANTS p1, p2

Peers2 == {p1, p2}
Second == {p2}
===============================================================================
