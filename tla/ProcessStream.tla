---------------------------- MODULE ProcessStream ----------------------------
(***************************************************************************)
(* What a consumer of an executor process may rely on: it sees the events   *)
(* of the process in the order they happened, without gap or repetition,    *)
(* until the stream is complete (the closed event) or is given up with a    *)
(* failure, after which nothing follows.                                    *)
(*                                                                         *)
(* This is the promise of the process events of the exec-server client; how *)
(* it is kept over connections that break is module ExecRecovery.           *)
(***************************************************************************)
EXTENDS Naturals, Sequences

VARIABLES
    log,    \* the events of the process, in the order of their sequence numbers
    seen,   \* the events the consumer got
    failed  \* whether the stream was given up

vars == <<log, seen, failed>>

Kinds == {"out", "exit", "closed"}

Has(s, kind) == \E i \in DOMAIN s : s[i] = kind

Complete == Has(seen, "closed")

Init == log = <<>> /\ seen = <<>> /\ failed = FALSE

\* The process writes output, exits once, and is closed once, after its exit
\* and as its last event.
Happens(kind) ==
    /\ ~Has(log, "closed")
    /\ kind = "exit" => ~Has(log, "exit")
    /\ kind = "closed" => Has(log, "exit")
    /\ log' = Append(log, kind)
    /\ UNCHANGED <<seen, failed>>

\* The consumer is given some of the next events.
Deliver ==
    /\ ~failed
    /\ \E n \in (Len(seen) + 1) .. Len(log) : seen' = SubSeq(log, 1, n)
    /\ UNCHANGED <<log, failed>>

GiveUp ==
    /\ ~failed /\ ~Complete
    /\ failed' = TRUE
    /\ UNCHANGED <<log, seen>>

Next == (\E kind \in Kinds : Happens(kind)) \/ Deliver \/ GiveUp

Spec == Init /\ [][Next]_vars
=============================================================================
