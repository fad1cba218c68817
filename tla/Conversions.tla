----------------------------- MODULE Conversions -----------------------------
(* TIME values on their way from the source to the target: the driver's        *)
(* timedelta, codec.encode and decode through the file, db.bind_value to the   *)
(* text the server reads.  The radices of the clock are constants.             *)
EXTENDS Integers

CONSTANTS Micro, Second, Hour, Day   \* units per second, seconds per minute,
                                     \* minutes per hour, hours per day

ASSUME ConversionsAssumption == {Micro, Second, Hour, Day} \subseteq Nat \ {0}

DaySeconds == Day * Hour * Second

\* timedelta keeps seconds and microseconds from going below zero.
Timedelta(total) ==
    LET seconds == total \div Micro
    IN [days |-> seconds \div DaySeconds, seconds |-> seconds % DaySeconds, micros |-> total % Micro]

Total(d) == (d.days * DaySeconds + d.seconds) * Micro + d.micros

\* codec: one number in the line of the file.
Encode(d) == Total(d)
Decode(v) == Timedelta(v)

\* Mutant: the sign is taken from the days, the parts as they are.
BindParts(d) ==
    [negative |-> d.days < 0, hours |-> d.seconds \div (Hour * Second),
     minutes |-> (d.seconds \div Second) % Hour, seconds |-> d.seconds % Second, fraction |-> d.micros]

\* The text -hh:mm:ss.ffffff.
BindValue(d) ==
    LET size == IF Total(d) < 0 THEN -Total(d) ELSE Total(d)
        seconds == size \div Micro
    IN [negative |-> Total(d) < 0,
        hours |-> seconds \div (Hour * Second), minutes |-> (seconds \div Second) % Hour,
        seconds |-> seconds % Second, fraction |-> size % Micro]

\* The server: the sign is that of the whole value.
Read(t) ==
    LET size == ((t.hours * Hour + t.minutes) * Second + t.seconds) * Micro + t.fraction
    IN IF t.negative THEN -size ELSE size

-----------------------------------------------------------------------------
\* A TIME arrives as it was, below zero, with a fraction or of several days, and
\* its text is one that strict mode reads: no part reaches its radix.
TimeArrives(total) ==
    LET text == BindValue(Decode(Encode(Timedelta(total))))
    IN /\ Read(text) = total
       /\ text.minutes \in 0..(Hour - 1) /\ text.seconds \in 0..(Second - 1)
       /\ text.fraction \in 0..(Micro - 1) /\ text.hours \in Nat

=============================================================================
