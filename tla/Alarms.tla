------------------------------- MODULE Alarms -------------------------------
(***************************************************************************)
(* The alarms of the support package: a circular, doubly linked list of    *)
(* callbacks with their times, in ticks of a counter that wraps.  alt_tick *)
(* walks the list in the timer's interrupt; callbacks may start and stop   *)
(* alarms, themselves included, in the middle of the walk.                 *)
(***************************************************************************)
EXTENDS Integers, FiniteSets

CONSTANTS Alarm,      \* the alarms' structures
          List,       \* the list's head
          Null,       \* a link never written
          Word,       \* the tick counter counts modulo Word
          Intervals,  \* arguments of alt_alarm_start
          Periods,    \* values callbacks return; 0 ends the alarm
          Careful     \* callbacks do not stop the alarm after them in the list

AlarmAssumption ==
    /\ IsFiniteSet(Alarm) /\ List \notin Alarm /\ Null \notin Alarm /\ List # Null
    /\ Word \in Nat \ {0, 1}
    /\ Intervals \subseteq 0 .. Word - 1 /\ Periods \subseteq 0 .. Word - 1
    /\ Careful \in BOOLEAN

VARIABLES nticks,
          links,     \* the next and previous pointers of head and alarms
          time, rollover,
          cursor,    \* the alarm alt_tick looks at, Null outside alt_tick
          due        \* ticks until each alarm should run, for the properties

vars == <<nticks, links, time, rollover, cursor, due>>

Node == Alarm \cup {List}

Init ==
    /\ nticks = 0
    /\ links = [next |-> [n \in Node |-> IF n = List THEN List ELSE Null],
                prev |-> [n \in Node |-> IF n = List THEN List ELSE Null]]
    /\ time = [a \in Alarm |-> 0] /\ rollover = [a \in Alarm |-> FALSE]
    /\ cursor = Null
    /\ due = [a \in Alarm |-> 0]

Known(l, a) == l.next[a] # Null
Armed(l) == {a \in Alarm : l.next[a] \notin {a, Null}}

\* alt_llist_insert, at the head, and alt_llist_remove, which leaves the entry
\* pointing at itself.
Inserted(l, e) ==
    [next |-> [l.next EXCEPT ![e] = l.next[List], ![List] = e],
     prev |-> [l.prev EXCEPT ![e] = List, ![l.next[List]] = e]]

RemovedOneWay(l, e) ==
    [next |-> [l.next EXCEPT ![l.prev[e]] = l.next[e], ![e] = e],
     prev |-> [l.prev EXCEPT ![e] = e]]
Removed(l, e) ==
    [next |-> [l.next EXCEPT ![l.prev[e]] = l.next[e], ![e] = e],
     prev |-> [l.prev EXCEPT ![l.next[e]] = l.prev[e], ![e] = e]]

-----------------------------------------------------------------------------
(* Starting and stopping an alarm, with the interrupts off.  What a call    *)
(* changes is a record, so that a callback's call and its return value are  *)
(* one step of alt_tick.                                                    *)

Now == [links |-> links, time |-> time, rollover |-> rollover, due |-> due]

StartsAfterWrapNever(t) == FALSE
StartsAfterWrap(t) == t < nticks

Started(s, a, n) ==
    LET t == (n + nticks + 1) % Word
    IN  [links |-> Inserted(s.links, a),
         time |-> [s.time EXCEPT ![a] = t],
         rollover |-> [s.rollover EXCEPT ![a] = StartsAfterWrap(t)],
         due |-> [s.due EXCEPT ![a] = n + 1]]

Stopped(s, a) ==
    [links |-> Removed(s.links, a), time |-> s.time, rollover |-> s.rollover,
     due |-> [s.due EXCEPT ![a] = 0]]

Become(s) == /\ links' = s.links /\ time' = s.time
             /\ rollover' = s.rollover /\ due' = s.due

\* Starting an alarm that is in the list, or stopping one never started, would
\* corrupt the list: the callers' part of the contract.
Start(a, n) ==
    /\ cursor = Null /\ a \notin Armed(links)
    /\ Become(Started(Now, a, n))
    /\ UNCHANGED <<nticks, cursor>>

Stop(a) ==
    /\ cursor = Null /\ Known(links, a)
    /\ Become(Stopped(Now, a))
    /\ UNCHANGED <<nticks, cursor>>

-----------------------------------------------------------------------------
(* alt_tick *)

Tick ==
    /\ cursor = Null
    /\ nticks' = (nticks + 1) % Word
    /\ due' = [a \in Alarm |-> IF a \in Armed(links) THEN due[a] - 1 ELSE due[a]]
    /\ cursor' = links.next[List]
    /\ UNCHANGED <<links, time, rollover>>

\* The flag is cleared by the tick that wraps the counter.
StillAfterWrapStuck(a) == rollover[a]
StillAfterWrap(a) == rollover[a] /\ nticks # 0
Expired(a) == time[a] <= nticks /\ ~StillAfterWrap(a)

Pass ==
    /\ cursor \in Alarm /\ ~Expired(cursor)
    /\ rollover' = [rollover EXCEPT ![cursor] = StillAfterWrap(cursor)]
    /\ cursor' = links.next[cursor]
    /\ UNCHANGED <<nticks, links, time, due>>

\* What a callback may have done when it returns; the flag of the alarm that
\* expired is clear by then.
Expiring == [links |-> links, time |-> time, due |-> due,
             rollover |-> [rollover EXCEPT ![cursor] = StillAfterWrap(cursor)]]
CallbackEffects ==
    {Expiring}
      \cup {Started(Expiring, a, n) : a \in Alarm \ Armed(links), n \in Intervals}
      \cup {Stopped(Expiring, a) : a \in {b \in Alarm : /\ Known(links, b)
                                                        /\ Careful => b # links.next[cursor]}}

\* The next alarm was noted before the callback ran.
NextNotedAfter(s) == s.links.next[cursor]
NextNoted(s) == links.next[cursor]

\* A callback that stopped its own alarm and returns a period changes the time
\* of an alarm that is no longer in the list.
Repeated(s, period) ==
    LET t == (s.time[cursor] + period) % Word
    IN  [links |-> s.links,
         time |-> [s.time EXCEPT ![cursor] = t],
         rollover |-> [s.rollover EXCEPT ![cursor] = t < nticks],
         due |-> [s.due EXCEPT ![cursor] =
                    IF cursor \in Armed(s.links) THEN period ELSE 0]]

Fire ==
    /\ cursor \in Alarm /\ Expired(cursor)
    /\ \E effect \in CallbackEffects, period \in Periods :
         LET after == IF period = 0 THEN Stopped(effect, cursor)
                                    ELSE Repeated(effect, period)
         IN  Become(after) /\ cursor' = NextNoted(after)
    /\ UNCHANGED nticks

TickDone ==
    /\ cursor = List
    /\ cursor' = Null
    /\ UNCHANGED <<nticks, links, time, rollover, due>>

Walk == Pass \/ Fire \/ TickDone

Next == \/ \E a \in Alarm : Stop(a) \/ \E n \in Intervals : Start(a, n)
        \/ Tick \/ Walk

Spec == Init /\ [][Next]_vars /\ WF_vars(Walk)

-----------------------------------------------------------------------------
\* Type invariant.
TypeOK ==
    /\ nticks \in 0 .. Word - 1
    /\ links \in [next : [Node -> Node \cup {Null}], prev : [Node -> Node \cup {Null}]]
    /\ time \in [Alarm -> 0 .. Word - 1] /\ rollover \in [Alarm -> BOOLEAN]
    /\ cursor \in Node \cup {Null}
    /\ due \in [Alarm -> 0 .. Word]

\* The list stays a ring through the head in both directions, and holds the
\* armed alarms, whatever callbacks do to it during a walk.
Chain == LET at[i \in 0 .. Cardinality(Alarm)] ==
               IF i = 0 THEN links.next[List] ELSE links.next[at[i - 1]]
         IN  {at[i] : i \in 0 .. Cardinality(Alarm)}
WellLinked ==
    /\ \A n \in Node : links.next[n] # Null => /\ links.prev[links.next[n]] = n
                                               /\ links.next[links.prev[n]] = n
    /\ Chain \ {List} = Armed(links)

\* The comparison with a counter that wraps, and the flag that goes with it,
\* find an alarm expired in the very tick it was asked for: neither early nor
\* late, across any number of wraps.
ExpiresWhenDue == cursor \in Armed(links) => (Expired(cursor) <=> due[cursor] <= 0)

\* No alarm is passed over: when alt_tick is done, every armed alarm is due in
\* a later tick.
NoneMissed == cursor = Null => \A a \in Armed(links) : due[a] > 0

\* alt_tick ends, so that the interrupted program runs again.
TickEnds == cursor # Null ~> cursor = Null
=============================================================================
