---------------------------- MODULE TimerQueue -----------------------------
(* The global timer queue of the thread pool: two lists of armed timers,    *)
(* two kernel timers and one thread.  A timer that expires is handed to the *)
(* pool by the composing module.                                            *)
EXTENDS Clock, FiniteSets

CONSTANTS Timers,    \* the timer objects
          Linger     \* THREADPOOL_WORKER_TIMEOUT, in units of the clock

ASSUME LingerNat == Linger \in Nat

VARIABLES timer,     \* u.timer of each timer object
          timerq     \* timerqueue, with the state of its thread

timerVars == <<timer, timerq>>

NoTimer == [initialized |-> FALSE, pending |-> FALSE, set |-> FALSE, timeout |-> 0,
            period |-> 0, window |-> 0]

Kinds == {"abs", "rel"}

NoQueue == [objcount |-> 0, thread |-> "none", list |-> [k \in Kinds |-> <<>>],
            due |-> [k \in Kinds |-> Never]]

TimerInit ==
    /\ timer = [o \in Timers |-> NoTimer]
    /\ timerq = NoQueue

(* The thread owns timerqueue.cs while it looks for expired timers. *)
TimerCsFree == timerq.thread # "scan"

(* The time to wake for list l: the last of the timers at its head that lie *)
(* in the windows of all those before them.                                 *)
get_next_timeout(l, tm) ==
    LET Merged(k) == \A i \in 1..k : \A j \in 1..(i - 1) :
                       tm[l[i]].timeout < tm[l[j]].timeout + tm[l[j]].window
        last == CHOOSE k \in DOMAIN l : Merged(k) /\ \A n \in DOMAIN l : Merged(n) => n <= k
    IN IF l = <<>> THEN Never ELSE tm[l[last]].timeout

(* Fault: the kernel timers keep their times. *)
UpdateNothing(q, tm) == q

update_timers(q, tm) ==
    LET next == get_next_timeout(q.list["rel"], tm) IN
    [q EXCEPT !.due = [k \in Kinds |->
       IF k = "abs" THEN get_next_timeout(q.list["abs"], tm)
       ELSE IF q.objcount = 0 THEN now + Linger
       ELSE IF next > now THEN next ELSE now]]

(* o into list l, before the first timer that is later. *)
Inserted(l, o, tm) ==
    LET Later == {i \in DOMAIN l : tm[o].timeout < tm[l[i]].timeout}
        k == IF Later = {} THEN Len(l) + 1 ELSE CHOOSE i \in Later : \A j \in Later : i <= j
    IN Before(l, k, o)

tp_timerqueue_lock(o) ==
    /\ TimerCsFree
    /\ timer' = [timer EXCEPT ![o] = [NoTimer EXCEPT !.initialized = TRUE]]
    /\ timerq' = [timerq EXCEPT !.objcount = @ + 1,
                    !.thread = IF @ = "none" THEN "start" ELSE @]

(* Fault: an armed timer stays on its list. *)
UnlockKeepsArmed(S) ==
    /\ S # {} => TimerCsFree
    /\ timer' = timer
    /\ timerq' = [timerq EXCEPT !.objcount = @ - Cardinality({o \in S : timer[o].initialized})]

(* For the timers of S, which are shut down together.  Nothing reads the    *)
(* rest of such a timer any more.                                           *)
tp_timerqueue_unlock(S) ==
    LET locked == {o \in S : timer[o].initialized}
        tm == [o \in Timers |-> IF o \in S THEN NoTimer ELSE timer[o]]
        q == [timerq EXCEPT !.objcount = @ - Cardinality(locked),
                !.list = [k \in Kinds |-> Without(timerq.list[k], S)]]
    IN /\ S # {} => TimerCsFree
       /\ timer' = tm
       /\ timerq' = IF locked # {} /\ q.objcount = 0 THEN update_timers(q, tm) ELSE q

(* at is <<"abs", t>>, <<"rel", delay>>, <<"zero", 0>> or <<"null", 0>>. *)
TpSetTimerEx(o, at, period, window) ==
    LET kind == IF at[1] = "abs" THEN "abs" ELSE "rel"
        when == CASE at[1] = "abs" -> at[2] [] at[1] = "rel" -> now + at[2]
                  [] OTHER -> now + period
        arm == at[1] \in Kinds \/ (at[1] = "zero" /\ period > 0)
        tm == [timer EXCEPT ![o].set = at[1] # "null", ![o].pending = arm,
                 ![o].timeout = IF arm THEN when ELSE @, ![o].period = IF arm THEN period ELSE @,
                 ![o].window = IF arm THEN window ELSE @]
        off == [timerq EXCEPT !.list = [k \in Kinds |-> Without(timerq.list[k], {o})]]
        on == [off EXCEPT !.list[kind] = Inserted(@, o, tm)]
    IN /\ TimerCsFree /\ timer[o].initialized
       /\ timer' = tm
       /\ timerq' = IF ~arm THEN off
                    ELSE IF Head(on.list[kind]) = o THEN update_timers(on, tm) ELSE on

-----------------------------------------------------------------------------
(* timerqueue_thread_proc.  Looking for expired timers takes no time.       *)

Expired(k) == timerq.list[k] # <<>> /\ timer[Head(timerq.list[k])].timeout <= now
AnyExpired == \E k \in Kinds : Expired(k)
ExpiredKind == IF Expired("abs") THEN "abs" ELSE "rel"
ExpiredTimer == Head(timerq.list[ExpiredKind])

(* One turn of submit_expired_timers; shut: the timer is marked for shutdown. *)
submit_expired_timers(shut) ==
    LET o == ExpiredTimer
        again == timer[o].period > 0 /\ ~shut
        base == IF ExpiredKind = "abs" THEN now ELSE timer[o].timeout
        next == IF base + timer[o].period > now THEN base + timer[o].period ELSE now + 1
        tm == [timer EXCEPT ![o].pending = again, ![o].timeout = IF again THEN next ELSE @]
        q == [timerq EXCEPT !.list[ExpiredKind] = Tail(@)]
    IN /\ timerq.thread = "scan" /\ AnyExpired
       /\ timer' = tm
       /\ timerq' = IF again THEN [q EXCEPT !.list["rel"] = Inserted(@, o, tm)] ELSE q

TimerThreadWaits ==
    /\ timerq.thread = "scan" /\ ~AnyExpired
    /\ timerq' = [update_timers(timerq, timer) EXCEPT !.thread = "wait"]
    /\ UNCHANGED timer

(* NtWaitForMultipleObjects returns; timerqueue.cs is not taken yet. *)
TimerThreadWakes ==
    /\ timerq.thread = "wait"
    /\ \E k \in Kinds : timerq.due[k] <= now
    /\ timerq' = [timerq EXCEPT !.thread = "woken"]
    /\ UNCHANGED timer

TimerThreadEnters ==
    /\ timerq.thread \in {"start", "woken"}
    /\ timerq' = IF timerq.thread = "woken" /\ timerq.objcount = 0 THEN NoQueue
                  ELSE [timerq EXCEPT !.thread = "scan"]
    /\ UNCHANGED timer

-----------------------------------------------------------------------------
Armed(k) == {timerq.list[k][i] : i \in DOMAIN timerq.list[k]}

(* Types: of the timer queue. *)
TimerTypeOK ==
    /\ timer \in [Timers -> [initialized : BOOLEAN, pending : BOOLEAN, set : BOOLEAN,
                             timeout : Nat, period : Nat, window : Nat]]
    /\ timerq \in [objcount : Nat, thread : {"none", "start", "scan", "wait", "woken"},
                   list : [Kinds -> Seq(Timers)], due : [Kinds -> Nat]]

(* Both lists are sorted, and a timer is on one of them, once, exactly      *)
(* while it is pending, through any order of setting, expiry and release.   *)
TimerListsSound ==
    /\ \A k \in Kinds : \A i, j \in DOMAIN timerq.list[k] :
         i < j => /\ timerq.list[k][i] # timerq.list[k][j]
                  /\ timer[timerq.list[k][i]].timeout <= timer[timerq.list[k][j]].timeout
    /\ Armed("abs") \cap Armed("rel") = {}
    /\ {o \in Timers : timer[o].pending} = Armed("abs") \cup Armed("rel")

(* While the thread waits, the kernel timers are set no later than any      *)
(* armed timer is due, but for a window that some timer was given:          *)
(* TpSetTimerEx sets them again only for a timer at the head of its list,   *)
(* and the one that was there may have had that window.                     *)
WakesInTime(windows) ==
    timerq.thread = "wait" =>
      \A k \in Kinds : \A o \in Armed(k) :
        \/ timerq.due[k] <= now
        \/ \E n \in windows : timerq.due[k] <= timer[o].timeout + n

(* Coalescing never oversleeps: the time get_next_timeout computes lies in  *)
(* the window of every armed timer that is due by then.                     *)
WindowsKept ==
    \A k \in Kinds : \A o \in Armed(k) :
      get_next_timeout(timerq.list[k], timer) <= timer[o].timeout + timer[o].window

(* "When the lock is acquired successfully, it is guaranteed that the timer *)
(* thread is running": it runs as long as there are timer objects.          *)
TimerThreadServes ==
    timerq.objcount > 0 => timerq.thread # "none"
=============================================================================
