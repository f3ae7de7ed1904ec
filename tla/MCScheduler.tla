---------------------------- MODULE MCScheduler -----------------------------
(***************************************************************************)
(* Instances of the scheduler.  Task 3 is init, which System launches.     *)
(***************************************************************************)
EXTENDS SchedulerProps

(* Three processes: init launches and cancels, the second clones, waits    *)
(* and exits, the third exits or blocks with a timeout.                    *)
ThreeCalls == [t \in User |-> CASE t = 3 -> {"launch", "cancel"}
                                 [] t = 4 -> {"clone", "wait", "exit"}
                                 [] OTHER -> {"exit", "poll"}]

(* Two processes for the liveness properties: init launches the other,     *)
(* waits for it and sleeps; the other sleeps and exits.                    *)
LiveCalls == [t \in User |-> IF t = 3 THEN {"launch", "wait", "sleep"}
                                       ELSE {"sleep", "exit"}]
=============================================================================
