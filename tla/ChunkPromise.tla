---------------------------- MODULE ChunkPromise ----------------------------
(***************************************************************************)
(* What the upload of a chunk promises to those who wait for it: one       *)
(* answer, given when enough pieces are on the network or when the upload  *)
(* is over, that is never taken back; no upload after the end; one removal *)
(* of the chunk; and its memory, given back step by step and never more    *)
(* than it was granted.  UploadChunk implements this, with its workers.    *)
(***************************************************************************)
EXTENDS Integers

CONSTANTS
    NumPieces,      \* the pieces of the chunk
    MinPieces,      \* those that recover it
    Granted         \* its memory

VARIABLES
    pieces,         \* how many pieces the network has
    available,      \* the answer was given
    failed,         \* it is, or will be, an error
    complete,       \* the upload is over
    open,           \* the chunk is still in use
    memory          \* what was given back

vars == <<pieces, available, failed, complete, open, memory>>

Init ==
    /\ pieces \in 0 .. NumPieces - 1
    /\ available = FALSE /\ failed = FALSE /\ complete = FALSE
    /\ open = TRUE
    /\ memory = 0

\* There is no data to upload.
NoData ==
    /\ ~available /\ ~failed /\ ~complete
    /\ failed' = TRUE
    /\ memory' \in memory .. Granted
    /\ UNCHANGED <<pieces, available, complete, open>>

Upload ==
    /\ ~complete /\ pieces < NumPieces
    /\ pieces' = pieces + 1
    /\ UNCHANGED <<available, failed, complete, open, memory>>

Answer ==
    /\ ~available /\ ~complete /\ pieces >= MinPieces
    /\ available' = TRUE
    /\ UNCHANGED <<pieces, failed, complete, open, memory>>

Finish ==
    /\ ~complete
    /\ complete' = TRUE /\ available' = TRUE
    /\ failed' = (failed \/ (~available /\ pieces < MinPieces))
    /\ UNCHANGED <<pieces, open, memory>>

Leave ==
    /\ complete /\ open
    /\ open' = FALSE
    /\ UNCHANGED <<pieces, available, failed, complete, memory>>

GiveBack ==
    /\ memory' \in memory + 1 .. Granted
    /\ UNCHANGED <<pieces, available, failed, complete, open>>

Next == NoData \/ Upload \/ Answer \/ Finish \/ Leave \/ GiveBack

Spec == Init /\ [][Next]_vars

=============================================================================
