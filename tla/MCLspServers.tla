--------------------------- MODULE MCLspServers ---------------------------
(* Instances of LspServers for TLC.                                         *)
EXTENDS LspServers

CONSTANTS file1, rust, call1, call2

\* One file of the language.
OneFile == [x \in {file1} |-> rust]
=============================================================================
