------------------------------ MODULE EventLog ------------------------------
(***************************************************************************)
(* What Store promises the commands: for every user the last N records      *)
(* pushed since the user was last erased, and the time of the last push.    *)
(***************************************************************************)
EXTENDS Naturals, Sequences, SequencesExt

CONSTANTS Uid, Rec, Ts, N

VARIABLES
    log,    \* Uid -> [recs, ts], oldest record first
    out     \* the records in the last reply, none for a write

vars == <<log, out>>

NoLog == [recs |-> <<>>, ts |-> 0]

LastN(s, n) == IF Len(s) <= n THEN s ELSE SubSeq(s, Len(s) - n + 1, Len(s))

Init == log = [u \in Uid |-> NoLog] /\ out = <<>>

Push(u, r, t) ==
    /\ log' = [log EXCEPT ![u] = [recs |-> LastN(Append(@.recs, r), N), ts |-> t]]
    /\ out' = <<>>

Erase(u) == log' = [log EXCEPT ![u] = NoLog] /\ out' = <<>>

\* GET: the newest n records, newest first.
Get(u, n) == out' = Reverse(LastN(log[u].recs, n)) /\ UNCHANGED log

\* The snapshot's view of a key: all records, oldest first.
Dump(u) == out' = log[u].recs /\ UNCHANGED log

Next ==
    \E u \in Uid :
        \/ \E r \in Rec, t \in Ts : Push(u, r, t)
        \/ Erase(u)
        \/ \E n \in 1 .. N : Get(u, n)
        \/ Dump(u)

Spec == Init /\ [][Next]_vars
=============================================================================
