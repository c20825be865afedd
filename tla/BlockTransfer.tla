--------------------------- MODULE BlockTransfer ---------------------------
(***************************************************************************)
(* What reassembling one resource record promises, with no buffers,        *)
(* markers or messages: pieces of a record arrive, no piece twice, and the *)
(* record is handed on exactly when nothing is missing.  Reassembly        *)
(* implements it.                                                          *)
(***************************************************************************)
VARIABLES pieces,  \* the pieces of the record; fixed once and for all
          got,     \* the pieces received so far
          done     \* the record has been put together

transferVars == <<pieces, got, done>>

TransferInit ==
  /\ pieces # {}
  /\ got = {}
  /\ done = FALSE

\* A batch of pieces not seen before arrives; the record is put together in
\* the same step as its last piece.
Receive ==
  \E batch \in SUBSET (pieces \ got) :
    /\ batch # {}
    /\ got' = got \cup batch
    /\ done' = (got' = pieces)
    /\ UNCHANGED pieces

TransferSpec == TransferInit /\ [][Receive]_transferVars

=============================================================================
