------------------------- MODULE StatementTimeout_proofs -------------------------
(***************************************************************************)
(* Whatever the number of statements and however threads interleave, a     *)
(* statement that left in time disturbs no later one.                      *)
(***************************************************************************)
EXTENDS StatementTimeout, TLAPS

(* What may be blamed for an interrupt that stops the current statement. *)
Blamed == late[current] \/ \E j \in 1 .. current - 1 : j \in overran

(* Timers exist for the statements that have entered their limit's block. *)
Started ==
  \A i \in Statements :
    timer[i] # "none" =>
      i < current \/ (i = current /\ pc \notin {"between", "begin"})

(* A limit passed for each timer that expired, in the block for those that  *)
(* will interrupt.                                                          *)
Expired ==
  \A i \in Statements :
    /\ late[i] /\ ~done[i] => i \in overran
    /\ timer[i] \in {"expired", "interrupting"} => late[i]
    /\ timer[i] = "interrupting" => i \in overran

Interrupted == interrupted /\ pc \in {"begin", "run"} => Blamed

Stopped == outcome = "stopped" => Blamed

DisturbInvariant == Started /\ Expired /\ Interrupted /\ Stopped /\ OnlyOverrunsDisturb

Inv == TypeOK /\ DisturbInvariant

(* A behaviour of the specification is one of its safety part. *)
LEMMA SafetyPart == Spec => Init /\ [][Next]_vars
BY PTL DEF Spec

(* The variables of Connect.execute, of _run and of the timers keep their   *)
(* types, whatever the number of statements.                                *)
THEOREM TypeCorrect == Spec => []TypeOK
<1>1. Init => TypeOK
  <2> SUFFICES ASSUME Init PROVE TypeOK
    OBVIOUS
  <2>1. current \in Statements /\ handler \in 0 .. N
    BY NIsPositive DEF Init, Statements
  <2>2. late \in [Statements -> BOOLEAN] /\ done \in [Statements -> BOOLEAN]
        /\ waiting \in BOOLEAN /\ interrupted \in BOOLEAN
    BY Zenon DEF Init
  <2> QED
    BY <2>1, <2>2 DEF Init, TypeOK
<1>2. TypeOK /\ [Next]_vars => TypeOK'
  <2> SUFFICES ASSUME TypeOK, [Next]_vars PROVE TypeOK'
    OBVIOUS
  <2> USE NIsPositive DEF TypeOK, Statements, mainVars
  <2>1. CASE Begin \/ Enter \/ Start \/ Cancel \/ Clear
    <3>1. waiting' \in BOOLEAN /\ interrupted' \in BOOLEAN
      BY Zenon, <2>1 DEF Begin, Enter, Start, Cancel, Clear
    <3>2. UNCHANGED <<current, outcome, result, late, done, overran>>
      BY <2>1 DEF Begin, Enter, Start, Cancel, Clear
    <3>3. handler' \in 0 .. N
      BY <2>1 DEF Begin, Enter, Start, Cancel, Clear
    <3>4. timer' \in [Statements -> {"none", "armed", "expired", "interrupting", "over"}]
      BY <2>1 DEF Begin, Enter, Start, Cancel, Clear
    <3>5. pc' \in {"begin", "limited", "run", "clear", "report"}
      BY <2>1 DEF Begin, Enter, Start, Cancel, Clear
    <3> QED
      BY <3>1, <3>2, <3>3, <3>4, <3>5
  <2>2. CASE SetDone
    <3>1. done' \in [Statements -> BOOLEAN]
      BY <2>2 DEF SetDone
    <3> QED
      BY <2>2, <3>1 DEF SetDone
  <2>3. CASE Stop \/ StopBegin \/ Wait \/ End
    BY <2>3 DEF Stop, StopBegin, Wait, End
  <2>4. CASE Report
    <3>1. current' \in Statements /\ pc' \in {"between", "closed"}
      BY <2>4 DEF Report, FollowingStatement
    <3>2. result' \in [Statements -> {"none", "rows", "failed", "stopped", "timeout"}]
      BY <2>4 DEF Report
    <3> QED
      BY <2>4, <3>1, <3>2 DEF Report
  <2>5. ASSUME NEW i \in Statements, Clock(i) PROVE TypeOK'
    BY <2>5 DEF Clock, Pass, Expire, Look, Interrupt
  <2>6. CASE UNCHANGED vars
    BY <2>6 DEF vars
  <2> QED
    BY <2>1, <2>2, <2>3, <2>4, <2>5, <2>6 DEF Next, Main, Terminated
<1> QED
  BY <1>1, <1>2, SafetyPart, PTL

(* A step that only adds to what went wrong clears nobody of blame. *)
LEMMA BlameStays ==
  ASSUME Blamed, current' = current, overran \subseteq overran',
         late[current] => late'[current]
  PROVE  Blamed'
BY DEF Blamed

(* The statements before the current one end only by their limits' blocks.  *)
LEMMA MainKeeps ==
  ASSUME Inv, Begin \/ Enter \/ Start \/ Wait \/ End \/ Stop \/ StopBegin \/ SetDone
              \/ Cancel \/ Clear
  PROVE  DisturbInvariant'
<1> USE DEF Inv, DisturbInvariant
<1>1. /\ current' = current /\ late' = late /\ overran' = overran /\ result' = result
      /\ current \in Statements
  BY DEF Begin, Enter, Start, Wait, End, Stop, StopBegin, SetDone, Cancel, Clear, TypeOK
<1>2. Blamed' <=> Blamed
  BY <1>1 DEF Blamed
<1>3. Started'
  BY <1>1 DEF Started, TypeOK, Begin, Enter, Start, Wait, End, Stop, StopBegin, SetDone, Cancel, Clear
<1>4. Expired'
  BY <1>1 DEF Expired, TypeOK, Begin, Enter, Start, Wait, End, Stop, StopBegin, SetDone, Cancel, Clear
<1>5. Interrupted'
  BY <1>1, <1>2 DEF Interrupted, Begin, Enter, Start, Wait, End, Stop, StopBegin, SetDone, Cancel, Clear
<1>6. Stopped'
  <2>1. CASE Stop
    <3>1. interrupted \/ late[current]
      BY <2>1 DEF Stop
    <3>2. pc = "run"
      BY <2>1 DEF Stop
    <3>3. Blamed
      BY Zenon, <3>1, <3>2 DEF Interrupted, Blamed
    <3> QED
      BY <1>2, <3>3 DEF Stopped
  <2>2. CASE StopBegin
    <3>1. interrupted /\ pc = "begin"
      BY <2>2 DEF StopBegin
    <3>2. Blamed
      BY Zenon, <3>1 DEF Interrupted
    <3> QED
      BY <1>2, <3>2 DEF Stopped
  <2>3. CASE ~(Stop \/ StopBegin)
    BY <1>2, <2>3 DEF Stopped, Begin, Enter, Start, Wait, End, SetDone, Cancel, Clear
  <2> QED
    BY <2>1, <2>2, <2>3
<1>7. OnlyOverrunsDisturb'
  BY <1>1 DEF OnlyOverrunsDisturb
<1> QED
  BY <1>3, <1>4, <1>5, <1>6, <1>7

(* _run reports a stopped statement: as a timeout if it is late itself. *)
LEMMA ReportKeeps ==
  ASSUME Inv, Report
  PROVE  DisturbInvariant'
<1> USE DEF Inv, DisturbInvariant
<1>1. UNCHANGED <<interrupted, late, done, timer, overran>> /\ outcome' = "none"
      /\ current \in Statements /\ N \in Nat
  BY NIsPositive DEF Report, TypeOK
<1>2. \/ current' = current + 1 /\ pc' = "between"
      \/ current' = current /\ pc' = "closed"
  BY DEF Report, FollowingStatement
<1>3. Started'
  BY <1>1, <1>2 DEF Started, Report, Statements
<1>4. Expired' /\ Interrupted' /\ Stopped'
  BY <1>1, <1>2 DEF Expired, Interrupted, Stopped
<1>5. OnlyOverrunsDisturb'
  <2>1. ASSUME NEW i \in Statements, result'[i] = "stopped"
        PROVE  \E j \in 1 .. i - 1 : j \in overran
    <3>1. CASE i # current
      BY <2>1, <3>1 DEF Report, TypeOK, OnlyOverrunsDisturb
    <3>2. CASE i = current
      <4>1. outcome = "stopped" /\ ~late[current]
        BY <2>1, <3>2 DEF Report, TypeOK
      <4> QED
        BY <3>2, <4>1 DEF Stopped, Blamed
    <3> QED
      BY <3>1, <3>2
  <2> QED
    BY <1>1, <2>1 DEF OnlyOverrunsDisturb
<1> QED
  BY <1>3, <1>4, <1>5

(* Only a timer whose statement overran interrupts, and it hits its own     *)
(* statement or a later one.                                                *)
LEMMA ClockKeeps ==
  ASSUME Inv, NEW i \in Statements, Clock(i)
  PROVE  DisturbInvariant'
<1> USE DEF Inv, DisturbInvariant
<1>1. UNCHANGED <<current, pc, outcome, result, done>> /\ current \in Statements
  BY DEF Clock, Pass, Expire, Look, Interrupt, mainVars, TypeOK
<1>2. overran \subseteq overran' /\ (late[current] => late'[current])
  BY <1>1 DEF Clock, Pass, Expire, Look, Interrupt, TypeOK
<1>3. Blamed => Blamed'
  BY <1>1, <1>2, BlameStays
<1>4. Started'
  BY <1>1 DEF Clock, Pass, Expire, Look, Interrupt, TypeOK, Started
<1>5. Expired'
  BY <1>1 DEF Clock, Pass, Expire, Look, Interrupt, TypeOK, Expired
<1>6. Interrupted'
  <2>1. CASE Interrupt(i)
    <3>1. timer[i] = "interrupting"
      BY <2>1 DEF Interrupt
    <3>2. late[i] /\ i \in overran
      BY <3>1 DEF Expired
    <3>3. i < current \/ (i = current /\ pc # "begin")
      BY <3>1 DEF Started
    <3>4. Blamed
      BY <1>1, <3>2, <3>3 DEF Blamed, Statements
    <3> QED
      BY <1>3, <3>4 DEF Interrupted
  <2>2. CASE ~Interrupt(i)
    BY <1>1, <1>3, <2>2 DEF Clock, Pass, Expire, Look, Interrupted
  <2> QED
    BY <2>1, <2>2
<1>7. Stopped' /\ OnlyOverrunsDisturb'
  BY <1>1, <1>2, <1>3 DEF Stopped, OnlyOverrunsDisturb
<1> QED
  BY <1>4, <1>5, <1>6, <1>7

(* A statement is stopped for another one's limit only if that one was      *)
(* still in its limit's block when the limit passed: the event that         *)
(* Connect._deadline sets before it cancels the timer is enough, for any    *)
(* number of statements and every interleaving with the timers' threads.    *)
THEOREM DisturbedByOverruns == Spec => []OnlyOverrunsDisturb
<1>1. Init => DisturbInvariant
  BY DEF Init, DisturbInvariant, Started, Expired, Interrupted, Stopped, OnlyOverrunsDisturb
<1>2. TypeOK /\ DisturbInvariant /\ [Next]_vars => DisturbInvariant'
  <2> SUFFICES ASSUME Inv, [Next]_vars PROVE DisturbInvariant'
    BY DEF Inv
  <2>1. CASE UNCHANGED vars
    BY <2>1 DEF vars, mainVars, Inv, DisturbInvariant, Started, Expired, Interrupted, Stopped,
       Blamed, OnlyOverrunsDisturb
  <2> QED
    BY <2>1, MainKeeps, ReportKeeps, ClockKeeps DEF Next, Main, Terminated
<1>3. DisturbInvariant => OnlyOverrunsDisturb
  BY DEF DisturbInvariant
<1> QED
  BY <1>1, <1>2, <1>3, TypeCorrect, SafetyPart, PTL

=================================================================================
