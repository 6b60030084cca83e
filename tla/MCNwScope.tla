----------------------------- MODULE MCNwScope -----------------------------
(* NwScope with Wi-Fi before the cellular service.                         *)
EXTENDS NwScope
CONSTANTS wifi, cell
MCOrder == <<wifi, cell>>
=============================================================================
