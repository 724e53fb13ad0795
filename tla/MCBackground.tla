---------------------------- MODULE MCBackground ----------------------------
(* TLC instance of Background: three checks, two of them under one ID, one without a checker. *)
EXTENDS Background

CONSTANTS db, queue

ThreeIDs == <<db, queue, db>>

=============================================================================
