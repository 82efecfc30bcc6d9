---------------------------- MODULE StatementTimeout ----------------------------
(***************************************************************************)
(* The statement limit of SQLite connections: Connect.execute with         *)
(* Connect._deadline (parseval/db_manager.py), under _run of               *)
(* parseval/main.py. Statements run one after the other on one connection  *)
(* (the StaticPool of a scratch database keeps it open between them); each *)
(* has a progress handler and a threading.Timer, whose callback runs in a  *)
(* thread of its own and interrupts the connection, not the statement.     *)
(*                                                                         *)
(* SQLite, as far as it is used: interrupt() stops a statement that runs   *)
(* when it is called, and does nothing when none runs; the progress        *)
(* handler is called while bytecode runs, not while a statement waits.     *)
(***************************************************************************)
EXTENDS Naturals

CONSTANT N           \* statements on the connection
ASSUME NIsPositive == N \in Nat \ {0}

Statements == 1 .. N

VARIABLES
  current,       \* the statement of the main thread
  pc,            \* of the main thread
  waiting,       \* the statement waits outside bytecode
  interrupted,   \* interrupt() was called while the running statement ran
  handler,       \* the statement whose deadline the progress handler has; 0: none
  outcome,       \* how the statement ended: "rows", "failed" or "stopped"
  result,        \* [Statements -> what _run returned]
  late,          \* [Statements -> whether its limit has passed]
  done,          \* [Statements -> its event]
  timer,         \* [Statements -> its timer]
  overran        \* history: statements that had not set done at their limit

mainVars == <<current, pc, waiting, handler, outcome, result>>
vars == <<mainVars, interrupted, late, done, timer, overran>>

Init ==
  /\ current = 1 /\ pc = "between"
  /\ waiting = FALSE /\ interrupted = FALSE /\ handler = 0
  /\ outcome = "none"
  /\ result = [i \in Statements |-> "none"]
  /\ late = [i \in Statements |-> FALSE]
  /\ done = [i \in Statements |-> FALSE]
  /\ timer = [i \in Statements |-> "none"]
  /\ overran = {}

---------------------------------------------------------------------------------
(* The main thread.                                                         *)

(* begin turns foreign keys on: a statement too, without a limit. *)
Begin ==
  /\ pc = "between"
  /\ pc' = "begin"
  /\ interrupted' = FALSE
  /\ UNCHANGED <<current, waiting, handler, outcome, result, late, done, timer,
                 overran>>

(* The statement of begin is over; handler and timer are set, and the limit *)
(* runs before the statement does.                                          *)
Enter ==
  /\ pc = "begin"
  /\ pc' = "limited"
  /\ handler' = current
  /\ timer' = [timer EXCEPT ![current] = "armed"]
  /\ UNCHANGED <<current, waiting, outcome, result, interrupted, late, done, overran>>

(* The statement starts; an interrupt before this is forgotten. *)
Start ==
  /\ pc = "limited"
  /\ pc' = "run"
  /\ interrupted' = FALSE
  /\ UNCHANGED <<current, waiting, handler, outcome, result, late, done, timer,
                 overran>>

(* The statement starts or stops waiting. *)
Wait ==
  /\ pc = "run"
  /\ waiting' = ~waiting
  /\ UNCHANGED <<current, pc, handler, outcome, result, interrupted, late, done,
                 timer, overran>>

(* The statement ends by itself. *)
End ==
  /\ pc = "run"
  /\ outcome' \in {"rows", "failed"}
  /\ pc' = "leave"
  /\ UNCHANGED <<current, waiting, handler, result, interrupted, late, done,
                 timer, overran>>

Stop ==
  /\ pc = "run"
  /\ interrupted \/ (~waiting /\ handler = current /\ late[current])
  /\ outcome' = "stopped"
  /\ pc' = "leave"
  /\ UNCHANGED <<current, waiting, handler, result, interrupted, late, done,
                 timer, overran>>

(* An interrupt hits the statement of begin; the limit has not started. *)
StopBegin ==
  /\ pc = "begin"
  /\ interrupted
  /\ outcome' = "stopped"
  /\ pc' = "report"
  /\ UNCHANGED <<current, waiting, handler, result, interrupted, late, done,
                 timer, overran>>

(* finally: the event, the timer, the progress handler. *)
SetDone ==
  /\ pc = "leave"
  /\ done' = [done EXCEPT ![current] = TRUE]
  /\ pc' = "cancel"
  /\ UNCHANGED <<current, waiting, handler, outcome, result, interrupted, late,
                 timer, overran>>

Cancel ==
  /\ pc = "cancel"
  /\ timer' = [timer EXCEPT ![current] = IF @ = "armed" THEN "over" ELSE @]
  /\ pc' = "clear"
  /\ UNCHANGED <<current, waiting, handler, outcome, result, interrupted, late,
                 done, overran>>

Clear ==
  /\ pc = "clear"
  /\ handler' = 0
  /\ waiting' = FALSE
  /\ pc' = "report"
  /\ UNCHANGED <<current, outcome, result, interrupted, late, done, timer, overran>>

(* The bug of one statement too many. *)
OneTooMany ==
  IF current <= N THEN current' = current + 1 /\ pc' = "between"
                  ELSE current' = current /\ pc' = "closed"

FollowingStatement ==
  IF current < N THEN current' = current + 1 /\ pc' = "between"
                 ELSE current' = current /\ pc' = "closed"

(* _run: an error after the limit is a query out of time. *)
Report ==
  /\ pc = "report"
  /\ result' = [result EXCEPT ![current] =
       CASE outcome = "rows" -> "rows"
         [] outcome # "rows" /\ late[current] -> "timeout"
         [] OTHER -> outcome]
  /\ outcome' = "none"
  /\ FollowingStatement
  /\ UNCHANGED <<waiting, handler, interrupted, late, done, timer, overran>>

---------------------------------------------------------------------------------
(* Time and the timers' threads.                                            *)

Pass(i) ==
  /\ ~late[i]
  /\ timer[i] # "none"
  /\ late' = [late EXCEPT ![i] = TRUE]
  /\ overran' = IF done[i] THEN overran ELSE overran \cup {i}
  /\ UNCHANGED <<mainVars, interrupted, done, timer>>

(* Timer.run waited its interval and was not cancelled. *)
Expire(i) ==
  /\ timer[i] = "armed"
  /\ late[i]
  /\ timer' = [timer EXCEPT ![i] = "expired"]
  /\ UNCHANGED <<mainVars, interrupted, late, done, overran>>

(* The bug of relying on cancel alone. *)
LookAway(i) ==
  /\ timer[i] = "expired"
  /\ timer' = [timer EXCEPT ![i] = "interrupting"]
  /\ UNCHANGED <<mainVars, interrupted, late, done, overran>>

(* done.is_set() or ... *)
Look(i) ==
  /\ timer[i] = "expired"
  /\ timer' = [timer EXCEPT ![i] = IF done[i] THEN "over" ELSE "interrupting"]
  /\ UNCHANGED <<mainVars, interrupted, late, done, overran>>

(* The bug of a callback that only looks. *)
InterruptNothing(i) ==
  /\ timer[i] = "interrupting"
  /\ timer' = [timer EXCEPT ![i] = "over"]
  /\ UNCHANGED <<mainVars, interrupted, late, done, overran>>

(* ... raw.interrupt() *)
Interrupt(i) ==
  /\ timer[i] = "interrupting"
  /\ interrupted' = (interrupted \/ pc \in {"begin", "run"})
  /\ timer' = [timer EXCEPT ![i] = "over"]
  /\ UNCHANGED <<mainVars, late, done, overran>>

Terminated ==
  /\ pc = "closed"
  /\ \A i \in Statements : timer[i] \in {"none", "over"}
  /\ UNCHANGED vars

Main ==
  \/ Begin \/ Enter \/ Start \/ Stop \/ StopBegin \/ SetDone \/ Cancel \/ Clear \/ Report
Clock(i) == Pass(i) \/ Expire(i) \/ Look(i) \/ Interrupt(i)

Next == Main \/ Wait \/ End \/ (\E i \in Statements : Clock(i)) \/ Terminated

(* The main thread and the timers are scheduled and time passes; a          *)
(* statement need not end by itself (End has no fairness), but SQLite stops *)
(* one that was interrupted, or whose handler asks for it.                  *)
Spec ==
  /\ Init /\ [][Next]_vars
  /\ WF_vars(Main)
  /\ \A i \in Statements : WF_vars(Clock(i))

---------------------------------------------------------------------------------
(* Properties.                                                              *)

TypeOK ==
  /\ current \in Statements
  /\ pc \in {"between", "begin", "limited", "run", "leave", "cancel", "clear", "report",
            "closed"}
  /\ waiting \in BOOLEAN /\ interrupted \in BOOLEAN
  /\ handler \in 0 .. N
  /\ outcome \in {"none", "rows", "failed", "stopped"}
  /\ result \in [Statements -> {"none", "rows", "failed", "stopped", "timeout"}]
  /\ late \in [Statements -> BOOLEAN]
  /\ done \in [Statements -> BOOLEAN]
  /\ timer \in [Statements -> {"none", "armed", "expired", "interrupting", "over"}]
  /\ overran \in SUBSET Statements

(* A statement is stopped for another one's limit only if that one was      *)
(* still inside its limit's block when the limit passed: a statement that   *)
(* left in time never disturbs a later one, whatever its timer does.        *)
OnlyOverrunsDisturb ==
  \A i \in Statements :
    result[i] = "stopped" => \E j \in 1 .. i - 1 : j \in overran

(* Every statement that starts is over at some time, if its timer did not   *)
(* fire before it started: also one that never ends by itself, and one that *)
(* waits where the progress handler is not called ("the timer also          *)
(* interrupts a statement waiting outside it").  One whose timer fired      *)
(* before it started is over too, unless it waits.                          *)
EveryStatementEnds ==
  \A i \in Statements :
    /\ (current = i /\ pc = "run" /\ timer[i] # "over") ~> (result[i] # "none")
    /\ (current = i /\ pc = "run" /\ ~waiting) ~> (result[i] # "none" \/ waiting)

(* _run: "The rows of a query, the backend's error message, or None when    *)
(* timeout_s ran out": a query stopped by a limit is not a failing query.   *)
StoppedIsTimeout == \A i \in Statements : result[i] # "stopped"

=================================================================================
