----------------------------- MODULE MCLocator ------------------------------
(* An instance of Locator for TLC.                                          *)
EXTENDS Locator
=============================================================================
