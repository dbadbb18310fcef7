------------------------------- MODULE Using -------------------------------
(***************************************************************************)
(* The USING clause every statement builder embeds (qb/using.go): the      *)
(* setters of a using value and what writeCql makes of it.  Durations and  *)
(* times are whole microseconds.  A statement's text is the sequence of    *)
(* its parts, each a clause and its placeholders, told apart by the name   *)
(* they stand for, or the literal of a USING clause.  Names are paths,     *)
(* <<"a">> or <<"prefix", "a">>.                                           *)
(***************************************************************************)
EXTENDS Integers, Sequences, SequencesExt

NoName == ""
Keys == {"TTL", "TIMESTAMP", "TIMEOUT"}
Millisecond == 1000
Second == 1000 * Millisecond
Minute == 60 * Second

(* Go's integer division and conversion of floats: towards zero.            *)
Quot(d, unit) == IF d < 0 THEN -((-d) \div unit) ELSE d \div unit

NoUsing == [ttl |-> 0, ttlName |-> NoName, timestamp |-> 0,
            timestampName |-> NoName, timeout |-> 0, timeoutName |-> NoName]

(* Zero stands for no TTL, so a TTL of zero seconds is kept as -1; the      *)
(* setter clears the timestamp's name, not the TTL's.                       *)
TTL(u, d) ==
    LET s == Quot(d, Second)
    IN  [u EXCEPT !.ttl = IF s = 0 THEN -1 ELSE s, !.timestampName = NoName]
TTLNamed(u, name) == [u EXCEPT !.ttl = 0, !.ttlName = name]

Timestamp(u, t) == [u EXCEPT !.timestamp = t, !.timestampName = NoName]
TimestampNamed(u, name) == [u EXCEPT !.timestamp = 0, !.timestampName = name]

(* Mutant: the name is kept, but so is the duration, which wins over it.    *)
KeepTimeout(u, name) == [u EXCEPT !.timeoutName = name]

Timeout(u, d) == [u EXCEPT !.timeout = d, !.timeoutName = NoName]
TimeoutNamed(u, name) == [u EXCEPT !.timeout = 0, !.timeoutName = name]

Set(u, key, by, arg, name) ==
    CASE key = "TTL"       -> IF by = "value" THEN TTL(u, arg) ELSE TTLNamed(u, name)
      [] key = "TIMESTAMP" -> IF by = "value" THEN Timestamp(u, arg)
                                              ELSE TimestampNamed(u, name)
      [] key = "TIMEOUT"   -> IF by = "value" THEN Timeout(u, arg)
                                              ELSE TimeoutNamed(u, name)

(* Mutant: the whole minutes are not taken off the seconds.                 *)
WithMinutes(d) ==
    IF d < 0 THEN <<0, 0, 0>>
    ELSE <<d \div Minute, d \div Second, (d % Second) \div Millisecond>>

(* The minutes, seconds and milliseconds that are written; a part that is   *)
(* not positive is left out, here 0.                                        *)
formatDuration(d) ==
    IF d < 0 THEN <<0, 0, 0>>
    ELSE <<d \div Minute, (d % Minute) \div Second, (d % Second) \div Millisecond>>

Clause(clause, holes, literal) ==
    [clause |-> clause, holes |-> holes, literal |-> literal]

(* A value: the sequence of the names of its parameters, here one or none.  *)
Param(name) == << <<name>> >>
Lit == <<>>

(* One of the three parts of writeCql: the value wins over the name, which  *)
(* is returned if it is written.                                            *)
Part(key, value, literal, name) ==
    IF value # 0 THEN <<Clause(key, Lit, literal)>>
    ELSE IF name # NoName THEN <<Clause(key, Param(name), <<>>)>>
    ELSE <<>>

(* The name that goes with it: none if the value is written.                *)
NameOf(value, name) == IF value = 0 /\ name # NoName THEN Param(name) ELSE Lit

WrittenTTL(ttl) == IF ttl = -1 THEN 0 ELSE ttl

(* What writeCql writes, and the names it returns.                          *)
Clauses(u) ==
    Part("TTL", u.ttl, <<WrittenTTL(u.ttl)>>, u.ttlName) \o
    Part("TIMESTAMP", u.timestamp, <<u.timestamp>>, u.timestampName) \o
    Part("TIMEOUT", u.timeout, formatDuration(u.timeout), u.timeoutName)

Names(u) ==
    NameOf(u.ttl, u.ttlName) \o NameOf(u.timestamp, u.timestampName) \o
    NameOf(u.timeout, u.timeoutName)

(* What writeCql leaves behind: the sentinel has become its value.          *)
AfterWrite(u) == [u EXCEPT !.ttl = WrittenTTL(u.ttl)]

(* Of some parts, those of one clause.                                      *)
Only(clause, part) == IF part.clause = clause THEN <<part>> ELSE <<>>
OfClause(clause, parts) ==
    FlattenSeq([i \in DOMAIN parts |-> Only(clause, parts[i])])
=============================================================================
