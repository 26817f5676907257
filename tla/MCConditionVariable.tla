------------------------ MODULE MCConditionVariable ------------------------
(* ConditionVariable for model checking.  A behaviour is one of a program   *)
(* the run chooses at the start: what each thread calls.                    *)
EXTENDS ConditionVariable, TLC

CONSTANT Programs

VARIABLE program

AllCalls == [t \in Threads |-> Operations]
Symmetry == Permutations(Threads)

(* One thread wakes, the others sleep without time-out. *)
Untimed(w) == [t \in Threads |-> IF t = w THEN {"wake", "wakeAll"} ELSE {"sleep"}]

(* One thread wakes, two sleep, one of them with a time-out. *)
OneTimed(w, r, s) ==
    [t \in Threads |-> CASE t = w -> {"wake", "wakeAll"}
                         [] t = r -> {"timedSleep"}
                         [] t = s -> {"sleep"}
                         [] OTHER -> {}]

(* Nobody wakes; one of three sleepers has a time-out. *)
LeftAlone(w, r) == [t \in Threads |-> CASE t = w -> {} [] t = r -> {"timedSleep"}
                                         [] OTHER -> {"sleep"}]

(* All sleepers have one, and nobody wakes. *)
AllTimed == [t \in Threads |-> {"timedSleep"}]

NobodyTimed == {Untimed(w) : w \in Threads}
Distinct(n) == {p \in [1..n -> Threads] : Cardinality({p[i] : i \in 1..n}) = n}
GoodPrograms == NobodyTimed \cup {OneTimed(p[1], p[2], p[3]) : p \in Distinct(3)}
                            \cup {LeftAlone(p[1], p[2]) : p \in Distinct(2)}
TimedPrograms == {AllTimed}

MCInit == Init /\ program \in Programs

MCNext == /\ \E t \in Threads :
                \/ Step(t) \/ TimeOut(t) \/ Relock(t)
                \/ program[t] \cap {"sleep", "timedSleep"} # {} /\ AcquireLock(t)
                \/ Sleep(t) /\ IF timed'[t] THEN "timedSleep" \in program[t]
                                            ELSE "sleep" \in program[t]
                \/ "wake" \in program[t] /\ RtlWakeConditionVariable(t)
                \/ "wakeAll" \in program[t] /\ RtlWakeAllConditionVariable(t)
          /\ UNCHANGED program

MCSpec == MCInit /\ [][MCNext]_<<vars, program>>
=============================================================================
