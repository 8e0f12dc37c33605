---------------------------- MODULE MCLifecycle ----------------------------
(* Three handles and two arrays: two mappers cannot live at a time, but a    *)
(* mapper constructed twice, a builder of the script, and a clone can.       *)
EXTENDS Lifecycle
=============================================================================
