------------------------------- MODULE MCRelease -------------------------------
(***************************************************************************)
(* Three libraries, one more binary than php, one module that only some    *)
(* builds make.                                                            *)
(***************************************************************************)
EXTENDS Release

MCLibraries == <<"zlib", "openssl", "curl">>
=============================================================================
