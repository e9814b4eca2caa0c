----------------------------- MODULE ByteStream -----------------------------
(***************************************************************************)
(* What a character device promises in one direction: a bounded channel    *)
(* that delivers every byte it accepted once and in order.  The bytes are  *)
(* numbered modulo Numbers as they are accepted, so that two bytes under   *)
(* way never share a number.                                               *)
(***************************************************************************)
EXTENDS Integers, Sequences

CONSTANTS Capacity,  \* most bytes under way
          Numbers    \* bytes are numbered 0 .. Numbers - 1

StreamAssumption ==
    /\ Capacity \in Nat
    /\ Numbers \in Nat
    /\ Numbers > Capacity

VARIABLES pipe,      \* the bytes accepted and not yet delivered
          accepted,  \* number of the next byte to be accepted
          delivered  \* number of the next byte to be delivered

streamVars == <<pipe, accepted, delivered>>

StreamInit == pipe = <<>> /\ accepted = 0 /\ delivered = 0

Put == \E n \in 1 .. Capacity - Len(pipe) :
         /\ pipe' = pipe \o [i \in 1 .. n |-> (accepted + i - 1) % Numbers]
         /\ accepted' = (accepted + n) % Numbers
         /\ UNCHANGED delivered

\* The receiver takes the oldest n bytes; the number it expects next follows
\* the last byte it was given.
Take == \E n \in 1 .. Len(pipe) :
          /\ delivered' = (pipe[n] + 1) % Numbers
          /\ pipe' = SubSeq(pipe, n + 1, Len(pipe))
          /\ UNCHANGED accepted

\* The numbers under way are those from delivered up to accepted.
InOrder == /\ \A i \in 1 .. Len(pipe) : pipe[i] = (delivered + i - 1) % Numbers
           /\ accepted = (delivered + Len(pipe)) % Numbers

StreamSpec == StreamInit /\ [][Put \/ Take]_streamVars
=============================================================================
