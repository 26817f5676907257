----------------------------- MODULE MCRunOnce -----------------------------
(* RunOnce for model checking.  A behaviour is one of a program that is     *)
(* chosen at the start: for each thread the ways it may begin.              *)
EXTENDS RunOnce

CONSTANTS t1, t2, t3

VARIABLE program

Programs ==
    LET P(a, b, c) == [t \in Threads |-> CASE t = t1 -> a [] t = t2 -> b [] t = t3 -> c]
    IN {P({"check", "sync", "async", "execute"}, {"check", "sync", "async", "execute"}, {}),
        P({"execute"}, {"execute"}, {"execute"}),
        P({"sync"}, {"execute"}, {"sync", "check"}),
        P({"sync"}, {"sync"}, {"async"}),
        P({"async"}, {"async"}, {"sync"})}

MCBegin(t) == \/ "check" \in program[t] /\ CheckOnly(t)
              \/ BeginInitialize(t) /\ call'[t] \in program[t]

MCNext == /\ \E t \in Threads : MCBegin(t) \/ Work(t) \/ Complete(t) \/ CompleteRejected(t)
          /\ UNCHANGED program

MCInit == Init /\ program \in Programs

MCSpec == MCInit /\ [][MCNext]_<<vars, program>> /\ Fairness
=============================================================================
