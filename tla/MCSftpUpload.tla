--------------------------- MODULE MCSftpUpload ---------------------------
(* Bounds for TLC.                                                          *)
EXTENDS SftpUpload, TLC

Either == {None, Old}
=============================================================================
