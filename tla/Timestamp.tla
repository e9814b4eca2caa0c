------------------------------- MODULE Timestamp -------------------------------
(***************************************************************************)
(* alt_timestamp: a one-shot timer counts down from the full period; a     *)
(* write takes a snapshot of the count, which is read in pieces of 16      *)
(* bits: two for a counter of 32 bits, four for one of 64.  The timer is   *)
(* Altera's interval timer, known here by how the driver uses it.          *)
(***************************************************************************)
EXTENDS Integers

CONSTANTS Program, Handler,
          Word,    \* a piece of the count is less than Word, 2^16
          Pieces   \* of a count

TimestampAssumption ==
    Program # Handler /\ Word \in Nat \ {0} /\ Pieces \in {2, 4}

VARIABLES registered,      \* altera_avalon_timer_ts_freq is not 0
          count, going,    \* the timer
          snapshot, period,
          elapsed,         \* ticks since the timestamp was started
          running,
          next,            \* the piece that each call reads next; Pieces: no call
          read, asked,     \* by the program's call; elapsed when it asked for the snapshot
          result,          \* of the program's last call, and that time
          torn             \* a handler replaced the snapshot under the program

vars == <<registered, count, going, snapshot, period, elapsed, running, next, read, asked, result, torn>>
timer == <<registered, count, going, period, elapsed>>
calls == <<next, read, asked, result, torn>>

Who == {Program, Handler}
Weight(n) == <<1, Word, Word * Word, Word * Word * Word, Word * Word * Word * Word>>[n + 1]
Full == Weight(Pieces) - 1
Piece(value, n) == (value \div Weight(n)) % Word
None == [value |-> 0, at |-> 0, torn |-> FALSE]

Init == /\ registered \in BOOLEAN
        /\ count = 0 /\ going = FALSE /\ snapshot = 0 /\ period = 0
        /\ elapsed = 0 /\ running = Program
        /\ next = [t \in Who |-> Pieces] /\ read = 0
        /\ asked = 0 /\ result = None /\ torn = FALSE

\* Writing the pieces of the period stops the timer and loads it.
PeriodFull == Full
Start ==
    /\ registered /\ running = Program /\ next[Program] = Pieces
    /\ period' = PeriodFull /\ count' = PeriodFull /\ going' = TRUE /\ elapsed' = 0
    /\ result' = None
    /\ UNCHANGED <<registered, snapshot, running, next, read, asked, torn>>

\* The timer stops, loaded again, when it has run out.
Tick ==
    /\ going
    /\ count' = IF count = 0 THEN period ELSE count - 1
    /\ going' = (count > 0) /\ elapsed' = elapsed + 1
    /\ UNCHANGED <<registered, snapshot, period, running, calls>>

Unavailable ==
    /\ ~registered /\ next[running] = Pieces
    /\ result' = IF running = Program THEN [value |-> Full, at |-> elapsed, torn |-> FALSE] ELSE result
    /\ UNCHANGED <<timer, snapshot, running, next, read, asked, torn>>

Snap ==
    /\ registered /\ next[running] = Pieces
    /\ next' = [next EXCEPT ![running] = 0]
    /\ snapshot' = count
    /\ IF running = Program
       THEN /\ read' = 0 /\ asked' = elapsed /\ result' = None /\ torn' = FALSE
       ELSE /\ torn' = (torn \/ next[Program] # Pieces)
            /\ UNCHANGED <<read, asked, result>>
    /\ UNCHANGED <<timer, running>>

PieceNow(n) == Piece(count, n)
PieceOfSnapshot(n) == Piece(snapshot, n)

ReadPiece ==
    LET n == next[running]
        sum == read + PieceOfSnapshot(n) * Weight(n)
    IN  /\ n < Pieces
        /\ next' = [next EXCEPT ![running] = n + 1]
        /\ IF running = Program
           THEN /\ read' = sum
                /\ result' = IF n + 1 = Pieces
                             THEN [value |-> Full - sum, at |-> asked, torn |-> torn]
                             ELSE result
           ELSE UNCHANGED <<read, result>>
        /\ UNCHANGED <<timer, snapshot, running, asked, torn>>

Interrupt == /\ running = Program /\ running' = Handler
             /\ UNCHANGED <<timer, snapshot, calls>>
Return == /\ running = Handler /\ next[Handler] = Pieces /\ running' = Program
          /\ UNCHANGED <<timer, snapshot, calls>>

Next == Start \/ Tick \/ Unavailable \/ Snap \/ ReadPiece \/ Interrupt \/ Return

Spec == Init /\ [][Next]_vars

-----------------------------------------------------------------------------
\* Type invariant.
TypeOK ==
    /\ count \in 0 .. Full /\ snapshot \in 0 .. Full /\ period \in {0, Full}
    /\ elapsed \in 0 .. Full + 1 /\ going \in BOOLEAN
    /\ next \in [Who -> 0 .. Pieces] /\ read \in 0 .. Full /\ result.value \in 0 .. Full

\* "alt_timestamp() returns the current timestamp count": the time since the
\* start at the moment of the snapshot, although the timer goes on while the
\* pieces are read, or 0 when it has run out; unless a handler has asked for a
\* timestamp between the pieces, as there is one snapshot for all.
ReadsElapsed ==
    registered /\ period = Full /\ ~result.torn =>
        \/ result.value = result.at
        \/ result.value = 0 /\ result.at = Full + 1
=============================================================================
