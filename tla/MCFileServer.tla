---------------------------- MODULE MCFileServer -----------------------------
(* Two masters; a file of two sections, one of which takes two segments,   *)
(* and two that the server does not offer: another name at the same        *)
(* address, and another address.  The bytes are powers of two so that      *)
(* different data have different checksums.                                *)
EXTENDS FileServer

MCFile(address, nof) == [address |-> address, nof |-> nof]
MCFiles == {MCFile(1, 1), MCFile(1, 2), MCFile(2, 1)}
MCSections == [f \in {MCFile(1, 1)} |-> <<<<1, 2>>, <<4>>>>]
=============================================================================
