------------------------------ MODULE Transcript ------------------------------
(***************************************************************************)
(* TranscriptTransport of crates/unbrk-core/src/transport.rs: every byte   *)
(* that was read from the port or written to it is kept in memory and      *)
(* written to the transcript file, through a buffer that is flushed at     *)
(* once.                                                                   *)
(*                                                                         *)
(* The file may take part of what it is given and then fail.  BufWriter    *)
(* keeps what the file did not take and offers it again with the next      *)
(* bytes or when it is dropped; its limit of 8 KiB is not modelled.        *)
(***************************************************************************)
EXTENDS Sequences, Naturals

VARIABLES
    transcript_log,   \* what was read and written, in call order
    buffer,           \* BufWriter: what the file has not taken yet
    file              \* the transcript file

transcript == <<transcript_log, buffer, file>>

TranscriptInit == transcript_log = <<>> /\ buffer = <<>> /\ file = <<>>

\* The file takes the first n bytes of what it is offered.
Taken(offered, n) ==
    /\ file' = file \o SubSeq(offered, 1, n)
    /\ buffer' = SubSeq(offered, n + 1, Len(offered))

\* record_transcript ...
RecordedUnflushed(bytes) ==                                  \* mutant: the sink is not flushed
    /\ transcript_log' = transcript_log \o bytes
    /\ Taken(buffer \o bytes, 0)
Recorded(bytes) ==
    /\ transcript_log' = transcript_log \o bytes
    /\ Taken(buffer \o bytes, Len(buffer \o bytes))

\* ... and when write_all or flush fails.
RecordFails(bytes) ==
    /\ transcript_log' = transcript_log \o bytes
    /\ \E n \in 0..Len(buffer \o bytes) : Taken(buffer \o bytes, n)

\* The transport is dropped, and the buffer with it: it is offered once more.
Dropped ==
    /\ \E n \in 0..Len(buffer) : file' = file \o SubSeq(buffer, 1, n)
    /\ buffer' = <<>>
    /\ UNCHANGED transcript_log
===============================================================================
