---------------------------- MODULE UsingClause ----------------------------
(***************************************************************************)
(* A using value over its life: the setters of a builder, in any order and *)
(* any number of times, between calls of ToCql, which writes the clause    *)
(* and may be called again (a builder is reused to make several queries).  *)
(***************************************************************************)
EXTENDS Using

CONSTANTS
    Durations,  \* the arguments of TTL and Timeout, in microseconds
    Times       \* the arguments of Timestamp, in microseconds of the epoch

VARIABLES
    u,      \* the using value
    out,    \* the clauses ToCql wrote, if it was the last call
    last    \* history: the last setter of each key; how often a TTL of no
            \* whole second was written since (0, 1 or more), and whether a
            \* TTL came after a timestamp's name

vars == <<u, out, last>>

Setter(by, arg, name) ==
    [by |-> by, arg |-> arg, name |-> name, writes |-> 0, ttlAfter |-> FALSE]
NoSetter == Setter("none", 0, NoName)
Nothing == [written |-> FALSE, clauses |-> <<>>]

Init == u = NoUsing /\ out = Nothing /\ last = [key \in Keys |-> NoSetter]

(* The histories after a setter and after a ToCql.                          *)
AfterSet(key, by, arg, name) ==
    [k \in Keys |->
        IF k = key THEN Setter(by, arg, name)
        ELSE [last[k] EXCEPT
                !.ttlAfter = @ \/ (key = "TTL" /\ by = "value" /\ last[k].by = "name"
                                     /\ k = "TIMESTAMP")]]
AfterToCql ==
    LET c == last["TTL"]
    IN  IF c.by = "value" /\ Quot(c.arg, Second) = 0
        THEN [last EXCEPT !["TTL"].writes = IF @ = 2 THEN 2 ELSE @ + 1]
        ELSE last

SetValue ==
    /\ \E key \in Keys : \E arg \in IF key = "TIMESTAMP" THEN Times ELSE Durations :
         /\ u' = Set(u, key, "value", arg, NoName)
         /\ last' = AfterSet(key, "value", arg, NoName)
    /\ out' = Nothing

SetName ==
    /\ \E key \in Keys :
         /\ u' = Set(u, key, "name", 0, key)
         /\ last' = AfterSet(key, "name", 0, key)
    /\ out' = Nothing

ToCql ==
    /\ out' = [written |-> TRUE, clauses |-> Clauses(u)]
    /\ u' = AfterWrite(u)
    /\ last' = AfterToCql

Next == SetValue \/ SetName \/ ToCql

Spec == Init /\ [][Next]_vars

-----------------------------------------------------------------------------
Shown(key) == OfClause(key, out.clauses)

Literal(key, arg) ==
    CASE key = "TTL"       -> <<Quot(arg, Second)>>
      [] key = "TIMESTAMP" -> <<arg>>
      [] key = "TIMEOUT"   -> formatDuration(arg)

(* The clause the last setter of a key asks for.                            *)
Asked(key) ==
    CASE last[key].by = "none"  -> <<>>
      [] last[key].by = "name"  -> <<Clause(key, Param(last[key].name), <<>>)>>
      [] last[key].by = "value" -> <<Clause(key, Lit, Literal(key, last[key].arg))>>

(* The calls whose clause the code does not keep: a TTL of no whole second  *)
(* after its first ToCql, or of -1 seconds at all; a timestamp's name       *)
(* before a TTL; the epoch; a timeout of less than a millisecond, of which  *)
(* writeCql leaves out all, or all but the words before it.                 *)
Dropped(key) ==
    LET c == last[key] IN
    \/ /\ key = "TTL" /\ c.by = "value"
       /\ \/ Quot(c.arg, Second) = -1
          \/ Quot(c.arg, Second) = 0 /\ c.writes > 1
    \/ key = "TIMESTAMP" /\ c.by = "name" /\ c.ttlAfter
    \/ key = "TIMESTAMP" /\ c.by = "value" /\ c.arg = 0
    \/ key = "TIMEOUT" /\ c.by = "value" /\ c.arg < Millisecond

(* Every field holds a value of its Go type, and a clause is a literal or a *)
(* placeholder, never both (using.go, struct using and writeCql).           *)
TypeOK ==
    /\ u.ttl \in Int /\ u.timestamp \in Int /\ u.timeout \in Int
    /\ {u.ttlName, u.timestampName, u.timeoutName} \subseteq Keys \cup {NoName}
    /\ \A i \in DOMAIN out.clauses :
         out.clauses[i].clause \in Keys =>
            ((out.clauses[i].literal = <<>>) <=> (out.clauses[i].holes # Lit))

(* However setters and writes interleave, each clause ToCql writes is the   *)
(* one the last setter of its key asked for, and a clause nobody asked for  *)
(* is not written, but for the calls Dropped names (using.go).              *)
LastSetterWins ==
    out.written => \A key \in Keys : Dropped(key) \/ Shown(key) = Asked(key)

(* A timeout of a millisecond or more is written once, with an amount       *)
(* behind the word, and whatever the parts it is written in they make up    *)
(* the last duration set, to less than a millisecond (utils.go; which way   *)
(* the rest goes is not said here, where the code cuts and its comment      *)
(* rounds, nor anything of shorter ones, which are written without any).    *)
TimeoutKept ==
    out.written /\ last["TIMEOUT"].by = "value" =>
        LET d == last["TIMEOUT"].arg
            written == Shown("TIMEOUT")
        IN  d >= Millisecond =>
                /\ Len(written) = 1
                /\ LET l == written[1].literal
                       rest == d - (l[1] * Minute + l[2] * Second + l[3] * Millisecond)
                   IN  l # <<0, 0, 0>> /\ -Millisecond < rest /\ rest < Millisecond

(* The doc of the builders' TimestampNamed, "adds a USING TIMESTAMP clause  *)
(* to the query with a custom parameter name" (qb/update.go:120): a later   *)
(* TTL does not take it away.  The code's TTL clears the timestamp's name.  *)
NamedTimestampStays ==
    out.written /\ last["TIMESTAMP"].by = "name"
        => Shown("TIMESTAMP") = Asked("TIMESTAMP")
=============================================================================
