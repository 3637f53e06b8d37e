---------------------------- MODULE MCNativeThread ----------------------------
(* An instance of the native thread handle for TLC.                        *)
EXTENDS NativeThread
=============================================================================
