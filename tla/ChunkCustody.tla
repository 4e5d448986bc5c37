---------------------------- MODULE ChunkCustody -----------------------------
(***************************************************************************)
(* What the upload heap, the loops around it and the stream upload promise *)
(* for a chunk, without their maps and threads: the chunk has one holder,  *)
(* goes from hand to hand on two ways to the workers, and is changed by    *)
(* nobody else.                                                            *)
(*                                                                         *)
(*     repair, upload, stuck -> heap -> loop -> workers <- stream -> left  *)
(*                                                                         *)
(* Before its upload is finished only the stream upload takes a chunk.     *)
(***************************************************************************)
EXTENDS Integers

CONSTANTS Chunks, Healths

VARIABLES
    holder,          \* who holds each chunk, or "nobody"
    health,          \* what its file says of it
    finished         \* the upload of the file is finished

vars == <<holder, health, finished>>

\* Who may take a chunk that nobody holds, pass it on, and let go of it.
Takers == {"stream"} \cup
            (IF finished THEN {"repair", "upload", "stuck"} ELSE {})

Ways == {<<"repair", "heap">>, <<"upload", "heap">>, <<"stuck", "heap">>,
         <<"heap", "loop">>, <<"loop", "workers">>, <<"stream", "workers">>,
         <<"stream", "left">>}

Closers == {"repair", "upload", "stuck", "heap", "loop", "workers"}

Init ==
    /\ holder = [c \in Chunks |-> "nobody"]
    /\ health \in [Chunks -> Healths]
    /\ finished \in BOOLEAN

Take(h, c) ==
    /\ holder[c] = "nobody" /\ h \in Takers
    /\ holder' = [holder EXCEPT ![c] = h]
    /\ UNCHANGED <<health, finished>>

Pass(way, c) ==
    /\ holder[c] = way[1]
    /\ holder' = [holder EXCEPT ![c] = way[2]]
    /\ UNCHANGED <<health, finished>>

\* The chunks of cs are closed; the workers may finish the upload with theirs.
Close(h, cs) ==
    /\ \A c \in cs : holder[c] = h
    /\ holder' = [c \in Chunks |-> IF c \in cs THEN "nobody" ELSE holder[c]]
    /\ finished' \in {finished, finished \/ h = "workers"}
    /\ UNCHANGED health

\* The workers bring pieces to hosts.
Repair(c, h) ==
    /\ holder[c] = "workers" /\ h < health[c]
    /\ health' = [health EXCEPT ![c] = h]
    /\ UNCHANGED <<holder, finished>>

\* Hosts lose them.
Decay(c, h) ==
    /\ holder[c] = "nobody" /\ h > health[c]
    /\ health' = [health EXCEPT ![c] = h]
    /\ UNCHANGED <<holder, finished>>

Next ==
    \/ \E c \in Chunks :
         \/ \E h \in Takers : Take(h, c)
         \/ \E way \in Ways : Pass(way, c)
         \/ \E h \in Healths : Repair(c, h) \/ Decay(c, h)
    \/ \E h \in Closers : \E cs \in SUBSET Chunks : Close(h, cs)

Spec == Init /\ [][Next]_vars

=============================================================================
