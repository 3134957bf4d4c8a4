----------------------------- MODULE MCEvidence -----------------------------
(* Instances of Evidence for TLC: hashes, labels and the spliced stream.    *)
EXTENDS Evidence

\* 1 and 8 are different events with the same field element modulo 7, and 7
\* becomes the zero of the field, which adds nothing to a digest
SomeEvents == {1, 3, 7, 8}

OldStream == <<3, 7, 1>>

Window == [stream_id |-> "node-1:runtime", epoch |-> 1]

\* the window itself, an earlier epoch of its stream, and another stream
Windows == {Window,
            [stream_id |-> "node-1:runtime", epoch |-> 0],
            [stream_id |-> "node-2:runtime", epoch |-> 1]}
=============================================================================
