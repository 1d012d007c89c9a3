------------------------- MODULE OutboundGuardsProofs -------------------------
(***************************************************************************)
(* The kill switch, the caps and the audit of outbound calls, for every    *)
(* set of turns and every TTL, window, cap and number of calls and faults. *)
(*                                                                         *)
(* The argument for the switch: an answer is cached with the time at which *)
(* it was asked for, so an "off" that the switch has overtaken was asked   *)
(* for before the switch was engaged, whoever cached it and however late   *)
(* (StaleInv), and the cache gives it out for less than a TTL.             *)
(***************************************************************************)
EXTENDS OutboundGuards, CircuitBreaker, FiniteSetTheorems, SequenceTheorems,
        WellFoundedInduction, TLAPS

Places == {"idle", "check", "select", "fill", "denied", "resolve", "refused",
           "post", "sent", "cancelled", "ready", "closing", "closed"}

(* The types without those of the counters.                                *)
Typed ==
    /\ now \in Times /\ engaged \in BOOLEAN /\ engagedAt \in Times \cup {Never}
    /\ cache \in [on : BOOLEAN, at : Times \cup {Never}]
    /\ pc \in [Turns -> Places] /\ kind \in [Turns -> {"list", "call"}]
    /\ stamp \in [Turns -> Times] /\ answer \in [Turns -> BOOLEAN]
    /\ untold \subseteq Turns

(* No time stamp lies in the future, and an engaged switch has one.        *)
ClockInv ==
    /\ \A t \in Turns : stamp[t] <= now
    /\ cache.at <= now
    /\ engaged => engagedAt \in Times /\ engagedAt <= now

(* An "off" that is no longer true was asked for before it became false.   *)
StaleInv ==
    engaged =>
       /\ ~cache.on /\ cache.at # Never => cache.at <= engagedAt
       /\ \A t \in Turns : pc[t] = "fill" /\ ~answer[t] => stamp[t] <= engagedAt

(* The types of the counters: the cap of the tool, of a turn, the bounds. *)
CapInv ==
    /\ window \in Seq(Times) /\ Len(window) <= PerMinute
    /\ count \in [Turns -> 0..PerTurn]
    /\ tries \in [Turns -> 0..MaxCalls]
    /\ flips \in 0..MaxFlips /\ faults \in 0..MaxFaults

(* An attempt without its row is refused, on its way, or about to leave it. *)
UntoldInv == \A t \in untold : pc[t] \in {"denied", "refused", "post", "sent", "cancelled"}

-----------------------------------------------------------------------------
LEMMA InitInv == Init => Typed /\ ClockInv /\ StaleInv /\ SwitchTakesHold /\ UntoldInv
<1> SUFFICES ASSUME Init PROVE Typed /\ ClockInv /\ StaleInv /\ SwitchTakesHold /\ UntoldInv
  OBVIOUS
<1>1. Typed
  <2>1. 0 \in Times
    BY GuardsAssumption DEF Times
  <2>2. cache \in [on : BOOLEAN, at : Times \cup {Never}]
    BY DEF Init
  <2>3. /\ pc \in [Turns -> Places] /\ kind \in [Turns -> {"list", "call"}]
        /\ stamp \in [Turns -> Times] /\ answer \in [Turns -> BOOLEAN]
    BY <2>1 DEF Init, Places
  <2> QED
    BY <2>1, <2>2, <2>3 DEF Init, Typed
<1>2. ClockInv
  BY DEF Init, ClockInv, Never
<1>3. StaleInv /\ SwitchTakesHold /\ UntoldInv
  BY DEF Init, StaleInv, SwitchTakesHold, Passed, UntoldInv
<1> QED
  BY <1>1, <1>2, <1>3

(* What a turn does with an answer: a call goes on only if the switch is   *)
(* off, and an attempt without a row is one that was denied.               *)
LEMMA AnswerStep ==
  ASSUME Typed, NEW t \in Turns, NEW on \in BOOLEAN, Answered(t, on)
  PROVE  \E l \in {"denied", "resolve", "closing"} :
            /\ pc' = [pc EXCEPT ![t] = l]
            /\ kind[t] = "call" /\ l = "resolve" => ~on
            /\ untold' \in {untold, untold \cup {t}}
            /\ untold' # untold => l = "denied"
<1>1. CASE kind[t] = "list"
  BY <1>1 DEF Answered, Goto
<1>2. CASE kind[t] = "call" /\ pc' = [pc EXCEPT ![t] = "denied"] /\ untold' = untold \cup {t}
  BY <1>2
<1>3. CASE /\ kind[t] = "call" /\ ~on
           /\ pc' = [pc EXCEPT ![t] = IF Fits(t) THEN "resolve" ELSE "denied"]
           /\ untold' = IF Fits(t) THEN untold ELSE untold \cup {t}
  BY <1>3
<1> QED
  BY <1>1, <1>2, <1>3 DEF Answered, Goto

(* Every step keeps the types. *)
LEMMA TypeStep ==
  ASSUME Typed, [Next]_vars
  PROVE  Typed'
<1> USE GuardsAssumption DEF Typed, Times, Never, Places
<1>1. CASE Tick
  BY <1>1 DEF Tick, switch, limits, asking
<1>2. CASE Flip
  BY <1>2 DEF Flip, limits, asking
<1>3. ASSUME NEW t \in Turns, OpenTurn(t) PROVE Typed'
  BY <1>3 DEF OpenTurn, Goto, switch, asking
<1>4. ASSUME NEW t \in Turns, Check(t) PROVE Typed'
  BY <1>4, AnswerStep DEF Check, Goto, switch
<1>5. ASSUME NEW t \in Turns, Select(t) PROVE Typed'
  BY <1>5 DEF Select, Goto, Fault, switch, limits
<1>6. ASSUME NEW t \in Turns, Fill(t) PROVE Typed'
  BY <1>6, AnswerStep DEF Fill, switch
<1>7. ASSUME NEW t \in Turns, Resolve(t) PROVE Typed'
  BY <1>7 DEF Resolve, Goto, switch, limits, asking
<1>8. ASSUME NEW t \in Turns, Post(t) PROVE Typed'
  BY <1>8 DEF Post, Goto, switch, limits, asking
<1>9. ASSUME NEW t \in Turns, EmitAudit(t) PROVE Typed'
  BY <1>9 DEF EmitAudit, Goto, Fault, After, switch, limits, asking
<1>10. ASSUME NEW t \in Turns, Continue(t) PROVE Typed'
  BY <1>10 DEF Continue, Goto, switch, limits
<1>11. ASSUME NEW t \in Turns, CloseTurn(t) PROVE Typed'
  BY <1>11 DEF CloseTurn, Goto, switch
<1>12. ASSUME NEW t \in Turns, Cancel(t) PROVE Typed'
  BY <1>12 DEF Cancel, Goto, Fault, switch, limits, asking
<1>13. ASSUME NEW t \in Turns, CancelAudit(t) PROVE Typed'
  BY <1>13 DEF CancelAudit, Goto, Fault, switch, limits, asking
<1>14. CASE UNCHANGED vars
  BY <1>14 DEF vars
<1> QED
  BY <1>1, <1>2, <1>3, <1>4, <1>5, <1>6, <1>7, <1>8, <1>9, <1>10, <1>11, <1>12, <1>13, <1>14
     DEF Next, Step

(* Time only moves on. *)
LEMMA ClockStep ==
  ASSUME Typed, ClockInv, [Next]_vars
  PROVE  ClockInv'
<1> USE GuardsAssumption DEF Typed, ClockInv, Times, Never
<1>1. CASE Tick
  BY <1>1 DEF Tick, switch, limits, asking
<1>2. CASE Flip
  BY <1>2 DEF Flip, limits, asking
<1>3. ASSUME NEW t \in Turns, OpenTurn(t) PROVE ClockInv'
  BY <1>3 DEF OpenTurn, Goto, switch, asking
<1>4. ASSUME NEW t \in Turns, Check(t) PROVE ClockInv'
  BY <1>4, AnswerStep DEF Check, Goto, switch
<1>5. ASSUME NEW t \in Turns, Select(t) PROVE ClockInv'
  BY <1>5 DEF Select, Goto, Fault, switch, limits
<1>6. ASSUME NEW t \in Turns, Fill(t) PROVE ClockInv'
  BY <1>6, AnswerStep DEF Fill, switch
<1>7. ASSUME NEW t \in Turns, Resolve(t) PROVE ClockInv'
  BY <1>7 DEF Resolve, Goto, switch, limits, asking
<1>8. ASSUME NEW t \in Turns, Post(t) PROVE ClockInv'
  BY <1>8 DEF Post, Goto, switch, limits, asking
<1>9. ASSUME NEW t \in Turns, EmitAudit(t) PROVE ClockInv'
  BY <1>9 DEF EmitAudit, Goto, Fault, After, switch, limits, asking
<1>10. ASSUME NEW t \in Turns, Continue(t) PROVE ClockInv'
  BY <1>10 DEF Continue, Goto, switch, limits
<1>11. ASSUME NEW t \in Turns, CloseTurn(t) PROVE ClockInv'
  BY <1>11 DEF CloseTurn, Goto, switch
<1>12. ASSUME NEW t \in Turns, Cancel(t) PROVE ClockInv'
  BY <1>12 DEF Cancel, Goto, Fault, switch, limits, asking
<1>13. ASSUME NEW t \in Turns, CancelAudit(t) PROVE ClockInv'
  BY <1>13 DEF CancelAudit, Goto, Fault, switch, limits, asking
<1>14. CASE UNCHANGED vars
  BY <1>14 DEF vars
<1> QED
  BY <1>1, <1>2, <1>3, <1>4, <1>5, <1>6, <1>7, <1>8, <1>9, <1>10, <1>11, <1>12, <1>13, <1>14
     DEF Next, Step

(* A flip comes after every answer that was asked for before it. *)
LEMMA StaleStep ==
  ASSUME Typed, ClockInv, StaleInv, [Next]_vars
  PROVE  StaleInv'
<1> USE GuardsAssumption DEF Typed, ClockInv, StaleInv, Times, Never
<1>1. CASE Tick
  BY <1>1 DEF Tick, switch, limits, asking
<1>2. CASE Flip
  BY <1>2 DEF Flip, limits, asking
<1>3. ASSUME NEW t \in Turns, OpenTurn(t) PROVE StaleInv'
  BY <1>3 DEF OpenTurn, Goto, switch, asking
<1>4. ASSUME NEW t \in Turns, Check(t) PROVE StaleInv'
  BY <1>4, AnswerStep DEF Check, Goto, switch
<1>5. ASSUME NEW t \in Turns, Select(t) PROVE StaleInv'
  BY <1>5 DEF Select, Goto, Fault, switch, limits
<1>6. ASSUME NEW t \in Turns, Fill(t) PROVE StaleInv'
  BY <1>6, AnswerStep DEF Fill, switch
<1>7. ASSUME NEW t \in Turns, Resolve(t) PROVE StaleInv'
  BY <1>7 DEF Resolve, Goto, switch, limits, asking
<1>8. ASSUME NEW t \in Turns, Post(t) PROVE StaleInv'
  BY <1>8 DEF Post, Goto, switch, limits, asking
<1>9. ASSUME NEW t \in Turns, EmitAudit(t) PROVE StaleInv'
  BY <1>9 DEF EmitAudit, Goto, Fault, After, switch, limits, asking
<1>10. ASSUME NEW t \in Turns, Continue(t) PROVE StaleInv'
  BY <1>10 DEF Continue, Goto, switch, limits
<1>11. ASSUME NEW t \in Turns, CloseTurn(t) PROVE StaleInv'
  BY <1>11 DEF CloseTurn, Goto, switch
<1>12. ASSUME NEW t \in Turns, Cancel(t) PROVE StaleInv'
  BY <1>12 DEF Cancel, Goto, Fault, switch, limits, asking
<1>13. ASSUME NEW t \in Turns, CancelAudit(t) PROVE StaleInv'
  BY <1>13 DEF CancelAudit, Goto, Fault, switch, limits, asking
<1>14. CASE UNCHANGED vars
  BY <1>14 DEF vars
<1> QED
  BY <1>1, <1>2, <1>3, <1>4, <1>5, <1>6, <1>7, <1>8, <1>9, <1>10, <1>11, <1>12, <1>13, <1>14
     DEF Next, Step

(* A call passes on an answer that is younger than a TTL. *)
LEMMA SwitchStep ==
  ASSUME Typed, ClockInv, StaleInv, SwitchTakesHold, [Next]_vars
  PROVE  SwitchTakesHold'
<1> USE GuardsAssumption DEF Typed, ClockInv, StaleInv, SwitchTakesHold, Passed, Times, Never
<1>1. CASE Tick
  BY <1>1 DEF Tick, switch, limits, asking
<1>2. CASE Flip
  BY <1>2 DEF Flip, limits, asking
<1>3. ASSUME NEW t \in Turns, OpenTurn(t) PROVE SwitchTakesHold'
  BY <1>3 DEF OpenTurn, Goto, switch, asking
<1>4. ASSUME NEW t \in Turns, Check(t) PROVE SwitchTakesHold'
  BY <1>4, AnswerStep DEF Check, Goto, switch
<1>5. ASSUME NEW t \in Turns, Select(t) PROVE SwitchTakesHold'
  BY <1>5 DEF Select, Goto, Fault, switch, limits
<1>6. ASSUME NEW t \in Turns, Fill(t) PROVE SwitchTakesHold'
  BY <1>6, AnswerStep DEF Fill, switch
<1>7. ASSUME NEW t \in Turns, Resolve(t) PROVE SwitchTakesHold'
  BY <1>7 DEF Resolve, Goto, switch, limits, asking
<1>8. ASSUME NEW t \in Turns, Post(t) PROVE SwitchTakesHold'
  BY <1>8 DEF Post, Goto, switch, limits, asking
<1>9. ASSUME NEW t \in Turns, EmitAudit(t) PROVE SwitchTakesHold'
  BY <1>9 DEF EmitAudit, Goto, Fault, After, switch, limits, asking
<1>10. ASSUME NEW t \in Turns, Continue(t) PROVE SwitchTakesHold'
  BY <1>10 DEF Continue, Goto, switch, limits
<1>11. ASSUME NEW t \in Turns, CloseTurn(t) PROVE SwitchTakesHold'
  BY <1>11 DEF CloseTurn, Goto, switch
<1>12. ASSUME NEW t \in Turns, Cancel(t) PROVE SwitchTakesHold'
  BY <1>12 DEF Cancel, Goto, Fault, switch, limits, asking
<1>13. ASSUME NEW t \in Turns, CancelAudit(t) PROVE SwitchTakesHold'
  BY <1>13 DEF CancelAudit, Goto, Fault, switch, limits, asking
<1>14. CASE UNCHANGED vars
  BY <1>14 DEF vars
<1> QED
  BY <1>1, <1>2, <1>3, <1>4, <1>5, <1>6, <1>7, <1>8, <1>9, <1>10, <1>11, <1>12, <1>13, <1>14
     DEF Next, Step

(* A request that is cut off still leaves its row. *)
LEMMA UntoldStep ==
  ASSUME Typed, UntoldInv, [Next]_vars
  PROVE  UntoldInv'
<1> USE DEF Typed, UntoldInv
<1>1. CASE Tick
  BY <1>1 DEF Tick, switch, limits, asking
<1>2. CASE Flip
  BY <1>2 DEF Flip, limits, asking
<1>3. ASSUME NEW t \in Turns, OpenTurn(t) PROVE UntoldInv'
  BY <1>3 DEF OpenTurn, Goto, switch, asking
<1>4. ASSUME NEW t \in Turns, Check(t) PROVE UntoldInv'
  BY <1>4, AnswerStep DEF Check, Goto, switch
<1>5. ASSUME NEW t \in Turns, Select(t) PROVE UntoldInv'
  BY <1>5 DEF Select, Goto, Fault, switch, limits
<1>6. ASSUME NEW t \in Turns, Fill(t) PROVE UntoldInv'
  BY <1>6, AnswerStep DEF Fill, switch
<1>7. ASSUME NEW t \in Turns, Resolve(t) PROVE UntoldInv'
  BY <1>7 DEF Resolve, Goto, switch, limits, asking
<1>8. ASSUME NEW t \in Turns, Post(t) PROVE UntoldInv'
  BY <1>8 DEF Post, Goto, switch, limits, asking
<1>9. ASSUME NEW t \in Turns, EmitAudit(t) PROVE UntoldInv'
  BY <1>9 DEF EmitAudit, Goto, Fault, After, switch, limits, asking
<1>10. ASSUME NEW t \in Turns, Continue(t) PROVE UntoldInv'
  BY <1>10 DEF Continue, Goto, switch, limits
<1>11. ASSUME NEW t \in Turns, CloseTurn(t) PROVE UntoldInv'
  BY <1>11 DEF CloseTurn, Goto, switch
<1>12. ASSUME NEW t \in Turns, Cancel(t) PROVE UntoldInv'
  BY <1>12 DEF Cancel, Goto, Fault, switch, limits, asking
<1>13. ASSUME NEW t \in Turns, CancelAudit(t) PROVE UntoldInv'
  BY <1>13 DEF CancelAudit, Goto, Fault, switch, limits, asking
<1>14. CASE UNCHANGED vars
  BY <1>14 DEF vars
<1> QED
  BY <1>1, <1>2, <1>3, <1>4, <1>5, <1>6, <1>7, <1>8, <1>9, <1>10, <1>11, <1>12, <1>13, <1>14
     DEF Next, Step

(* Evicting the expired timestamps leaves the others. *)
LEMMA EvictedIsShorter ==
  ASSUME CapInv
  PROVE  Evicted \in Seq(Times) /\ Len(Evicted) <= Len(window)
<1> DEFINE Popped(n) == /\ \A k \in 1..n : Expired(window[k])
                        /\ n < Len(window) => ~Expired(window[n + 1])
           Fresh == {n \in 0..Len(window) : n < Len(window) => ~Expired(window[n + 1])}
<1>1. Len(window) \in Nat /\ \A k \in 1..Len(window) : window[k] \in Times
  BY DEF CapInv
<1>2. PICK n \in Fresh : \A k \in Fresh : ~(k < n)
  <2>1. Len(window) \in Fresh /\ Fresh \subseteq Nat
    BY <1>1
  <2>2. PICK n \in Fresh : \A k \in Fresh : ~(<<k, n>> \in OpToRel(<, Nat))
    <3> HIDE DEF Fresh
    <3>1. Fresh # {} /\ Fresh \subseteq Nat
      BY <2>1
    <3> QED
      BY <3>1, NatLessThanWellFounded, WFMin
  <2>3. \A k \in Fresh : ~(k < n)
    BY <2>1, <2>2 DEF OpToRel
  <2> QED
    BY <2>3
<1>3. Popped(n)
  <2>1. ASSUME NEW k \in 1..n PROVE Expired(window[k])
    <3>1. k - 1 \in 0..Len(window) /\ k - 1 < n /\ k - 1 < Len(window) /\ (k - 1) + 1 = k
      BY <1>1
    <3>2. k - 1 \notin Fresh
      <4> HIDE DEF Fresh
      <4> QED
        BY <1>2, <3>1
    <3> QED
      BY <3>1, <3>2
  <2> QED
    BY <2>1
<1>4. PICK m \in 0..Len(window) : m = CHOOSE i \in 0..Len(window) : Popped(i)
  <2>1. n \in 0..Len(window)
    OBVIOUS
  <2> HIDE DEF Popped
  <2> QED
    BY <1>3, <2>1
<1>5. Evicted = SubSeq(window, m + 1, Len(window))
  BY <1>4 DEF Evicted
<1>6. \A i \in m + 1..Len(window) : window[i] \in Times
  BY <1>1
<1>7. m + 1 \in Int /\ Len(window) \in Int
  BY <1>1
<1>8. /\ SubSeq(window, m + 1, Len(window)) \in Seq(Times)
      /\ Len(SubSeq(window, m + 1, Len(window)))
           = IF m + 1 <= Len(window) THEN Len(window) - (m + 1) + 1 ELSE 0
  <2> HIDE DEF Popped, Fresh
  <2> QED
    BY <1>6, <1>7, SubSeqProperties
<1> QED
  BY <1>1, <1>5, <1>8

(* What is counted is counted below both caps. *)
LEMMA AcquireStep ==
  ASSUME Typed, CapInv, NEW t \in Turns, Acquire(t) \/ UNCHANGED limits
  PROVE  /\ window' \in Seq(Times) /\ Len(window') <= PerMinute
         /\ count' \in [Turns -> 0..PerTurn]
<1>1. CASE UNCHANGED limits
  BY <1>1 DEF CapInv, limits
<1>2. CASE Acquire(t) /\ Fits(t)
  <2>1. now \in Times /\ Evicted \in Seq(Times) /\ Len(Evicted) < PerMinute
    BY <1>2, EvictedIsShorter DEF Typed, Fits
  <2>2. window' = Append(Evicted, now) /\ count' = [count EXCEPT ![t] = @ + 1] /\ count[t] < PerTurn
    BY <1>2 DEF Acquire, Fits
  <2>3. window' \in Seq(Times) /\ Len(window') = Len(Evicted) + 1 /\ Len(Evicted) \in Nat
    BY <2>1, <2>2
  <2>4. count' \in [Turns -> 0..PerTurn]
    BY <2>2, GuardsAssumption DEF CapInv
  <2> QED
    BY <2>1, <2>3, <2>4, GuardsAssumption
<1>3. CASE Acquire(t) /\ ~Fits(t)
  <2>1. window' = Evicted /\ count' = count
    BY <1>3 DEF Acquire
  <2>2. Len(Evicted) \in Nat /\ Len(window) \in Nat
    BY EvictedIsShorter DEF CapInv
  <2> QED
    BY <2>1, <2>2, EvictedIsShorter, GuardsAssumption DEF CapInv
<1> QED
  BY <1>1, <1>2, <1>3

(* The limiter counts only in Acquire. *)
LEMMA CapStep ==
  ASSUME Typed, CapInv, [Next]_vars
  PROVE  CapInv'
<1>1. ASSUME NEW t \in Turns, NEW on \in BOOLEAN, Answered(t, on)
      PROVE  /\ window' \in Seq(Times) /\ Len(window') <= PerMinute
             /\ count' \in [Turns -> 0..PerTurn]
  BY <1>1, AcquireStep DEF Answered
<1>2. ASSUME NEW t \in Turns, Check(t) PROVE CapInv'
  <2>1. (\E on \in BOOLEAN : Answered(t, on)) \/ UNCHANGED limits
    BY <1>2 DEF Check, Typed
  <2>2. /\ window' \in Seq(Times) /\ Len(window') <= PerMinute
        /\ count' \in [Turns -> 0..PerTurn]
    BY <1>1, <2>1 DEF limits, CapInv
  <2> QED
    BY <1>2, <2>2 DEF Check, CapInv
<1>3. ASSUME NEW t \in Turns, Fill(t) PROVE CapInv'
  <2>1. answer[t] \in BOOLEAN /\ Answered(t, answer[t])
    BY <1>3 DEF Fill, Typed
  <2> QED
    BY <1>1, <1>3, <2>1 DEF Fill, CapInv
<1>4. ASSUME NEW t \in Turns, OpenTurn(t) \/ CloseTurn(t) PROVE CapInv'
  BY <1>4, GuardsAssumption DEF OpenTurn, CloseTurn, CapInv
<1>5. ASSUME NEW t \in Turns, Continue(t) PROVE CapInv'
  <2>1. tries' \in [Turns -> 0..MaxCalls]
    <3>1. tries[t] \in 0..MaxCalls
      BY DEF CapInv
    <3>2. \/ tries' = tries
          \/ tries[t] > 0 /\ tries' = [tries EXCEPT ![t] = tries[t] - 1]
      BY <1>5 DEF Continue
    <3>3. CASE tries[t] > 0 /\ tries' = [tries EXCEPT ![t] = tries[t] - 1]
      <4>1. tries[t] - 1 \in 0..MaxCalls
        BY <3>1, <3>3, GuardsAssumption
      <4> QED
        BY <3>3, <4>1 DEF CapInv
    <3> QED
      BY <3>2, <3>3 DEF CapInv
  <2> QED
    BY <1>5, <2>1 DEF Continue, limits, CapInv
<1>6. ASSUME NEW t \in Turns,
             Select(t) \/ Resolve(t) \/ Post(t) \/ EmitAudit(t) \/ Cancel(t) \/ CancelAudit(t)
      PROVE  CapInv'
  <2>1. UNCHANGED <<window, count, tries, flips>>
    BY <1>6 DEF Select, Resolve, Post, EmitAudit, Cancel, CancelAudit, limits
  <2>2. faults' = faults \/ Fault
    BY <1>6 DEF Select, Resolve, Post, EmitAudit, Cancel, CancelAudit
  <2> QED
    BY <2>1, <2>2, GuardsAssumption DEF Fault, CapInv
<1>7. CASE Tick \/ Flip
  BY <1>7, GuardsAssumption DEF Tick, Flip, limits, CapInv
<1>8. CASE UNCHANGED vars
  BY <1>8 DEF vars, CapInv
<1> QED
  BY <1>2, <1>3, <1>4, <1>5, <1>6, <1>7, <1>8 DEF Next, Step

-----------------------------------------------------------------------------
LEMMA Invariance == Spec => [](Typed /\ ClockInv /\ StaleInv /\ SwitchTakesHold /\ UntoldInv)
  BY InitInv, TypeStep, ClockStep, StaleStep, SwitchStep, UntoldStep, PTL DEF Spec

(* Every variable keeps its type: a turn never makes more external calls   *)
(* than per_turn_cap, and the window of a tool never holds more timestamps *)
(* than per_minute_cap.                                                    *)
THEOREM TypeCorrect == Spec => []TypeOK
<1>1. Init => CapInv
  BY GuardsAssumption DEF Init, CapInv
<1>2. Typed /\ CapInv => TypeOK
  BY DEF Typed, CapInv, TypeOK, Places
<1> QED
  BY <1>1, <1>2, CapStep, Invariance, PTL DEF Spec

(* CACHE_TTL_SECONDS bounds the time a call of a tool can still pass after *)
(* the switch was engaged, however long the SELECT of the switch takes and *)
(* whichever turn fills the shared entry last.                             *)
THEOREM SwitchHolds == Spec => []SwitchTakesHold
  BY Invariance, PTL

(* When a call or a turn is over, every refusal and every request of its   *)
(* has left its row in the ledger, unless the write of the row failed.     *)
THEOREM NoUnauditedAttempt == Spec => []AttemptsAreAudited
<1>1. UntoldInv => AttemptsAreAudited
  BY DEF UntoldInv, AttemptsAreAudited
<1> QED
  BY <1>1, Invariance, PTL

-----------------------------------------------------------------------------
(***************************************************************************)
(* The circuit breaker of a connector, for every finite set of callers and *)
(* every threshold, budget of probes, cooldown and length of a call.       *)
(*                                                                         *)
(* The counter of a half-open circuit is changed by admissions only, since *)
(* every record leaves that state, and it is set anew on entering it.  So  *)
(* the property is inductive once the callers it counts are known to be    *)
(* calls in flight, a finite set.                                          *)
(***************************************************************************)
BreakerInv == BreakerTypeOK /\ ProbesAreCounted

-----------------------------------------------------------------------------
(* A caller that is not in flight is a new element of the set it joins.    *)
LEMMA OneMore ==
  ASSUME BreakerTypeOK, NEW c \in Callers \ calling
  PROVE  /\ IsFiniteSet(sinceChange) /\ Cardinality(sinceChange) \in Nat
         /\ Cardinality(sinceChange \cup {c}) = Cardinality(sinceChange) + 1
<1>1. IsFiniteSet(sinceChange)
  BY BreakerAssumption, FS_Subset DEF BreakerTypeOK
<1>2. c \notin sinceChange
  BY DEF BreakerTypeOK
<1> QED
  BY <1>1, <1>2, FS_AddElement, FS_CardinalityType

(* What the records do to the breaker: neither leaves it half-open.        *)
LEMMA Records ==
  ASSUME BreakerTypeOK, RecordSuccess \/ RecordFailure
  PROVE  /\ state' \in {"closed", "open"}
         /\ failures' \in 0..(FailureThreshold - 1)
         /\ wait' \in 0..Cooldown /\ probes' \in 0..HalfOpenMaxProbes
  BY BreakerAssumption
     DEF BreakerTypeOK, RecordSuccess, RecordFailure, Open, Trips, Decremented, breaker

LEMMA BreakerInitInv == BreakerInit => BreakerInv
  BY BreakerAssumption DEF BreakerInit, BreakerInv, BreakerTypeOK, ProbesAreCounted

(* An admission is counted, the first of a half-open circuit as the only one. *)
LEMMA AcquireSlotStep ==
  ASSUME BreakerInv, NEW c \in Callers, AcquireSlot(c)
  PROVE  BreakerInv'
<1> USE BreakerAssumption DEF BreakerInv, BreakerTypeOK
<1>1. c \in Callers \ calling
  BY DEF AcquireSlot
<1>2. /\ calling' = calling \cup {c} /\ up' = up
      /\ left' \in [Callers -> 0..CallTime]
  BY DEF AcquireSlot, Admit
<1>3. CASE state = "closed" /\ sinceChange' = sinceChange \cup {c} /\ UNCHANGED breaker
  BY <1>1, <1>2, <1>3 DEF breaker, ProbesAreCounted
<1>4. CASE /\ state = "half_open" \/ (state = "open" /\ wait = 0)
           /\ SlotsTaken < HalfOpenMaxProbes
           /\ state' = "half_open" /\ probes' = SlotsTaken + 1
           /\ sinceChange' = {c} \cup IF state = "open" THEN {} ELSE sinceChange
           /\ UNCHANGED <<failures, wait>>
  <2>1. BreakerTypeOK'
    BY <1>1, <1>2, <1>4 DEF SlotsTaken
  <2>2. CASE state = "open"
    <3>1. sinceChange' = {c} /\ probes' = 1
      BY <1>4, <2>2 DEF SlotsTaken
    <3>2. Cardinality({c}) = 1
      BY FS_Singleton
    <3> QED
      BY <2>1, <3>1, <3>2 DEF ProbesAreCounted
  <2>3. CASE state = "half_open"
    <3>1. sinceChange' = sinceChange \cup {c} /\ probes' = probes + 1
      BY <1>4, <2>3 DEF SlotsTaken
    <3>2. Cardinality(sinceChange') = probes'
      BY <1>1, <2>3, <3>1, OneMore DEF ProbesAreCounted
    <3> QED
      BY <1>4, <2>1, <2>3, <3>1, <3>2 DEF ProbesAreCounted, SlotsTaken
  <2> QED
    BY <1>4, <2>2, <2>3
<1> QED
  BY <1>3, <1>4 DEF AcquireSlot

(* A record leaves the half-open state, and its caller. *)
LEMMA RecordStep ==
  ASSUME BreakerInv, NEW c \in Callers, Answer(c) \/ Fail(c) \/ CancelCall(c)
  PROVE  BreakerInv'
<1>1. (RecordSuccess \/ RecordFailure) /\ Leave(c)
  BY DEF Answer, Fail, CancelCall
<1>2. /\ calling' \subseteq Callers /\ sinceChange' \subseteq calling'
      /\ left' \in [Callers -> 0..CallTime] /\ up' = up
  BY <1>1, BreakerAssumption DEF BreakerInv, BreakerTypeOK, Leave
<1> QED
  BY <1>1, <1>2, Records DEF BreakerInv, BreakerTypeOK, ProbesAreCounted

(* Time and the dependency leave the counter alone. *)
LEMMA WorldStep ==
  ASSUME BreakerInv, Elapse \/ Outage \/ UNCHANGED breakerVars
  PROVE  BreakerInv'
<1> USE BreakerAssumption DEF BreakerInv, BreakerTypeOK, ProbesAreCounted
<1>1. CASE Elapse
  BY <1>1 DEF Elapse, Decremented
<1>2. CASE Outage
  BY <1>2 DEF Outage, breaker, calls
<1>3. CASE UNCHANGED breakerVars
  BY <1>3 DEF breakerVars
<1> QED
  BY <1>1, <1>2, <1>3

LEMMA BreakerNextInv == BreakerInv /\ [BreakerNext]_breakerVars => BreakerInv'
  BY AcquireSlotStep, RecordStep, WorldStep DEF BreakerNext

LEMMA BreakerInvariance == BreakerSpec => []BreakerInv
  BY BreakerInitInv, BreakerNextInv, PTL DEF BreakerSpec

(* Every field of the breaker keeps its range: the consecutive failures stay *)
(* below the threshold, the probes within the budget.                      *)
THEOREM BreakerTypeCorrect == BreakerSpec => []BreakerTypeOK
<1>1. BreakerInv => BreakerTypeOK
  BY DEF BreakerInv
<1> QED
  BY <1>1, BreakerInvariance, PTL

(* The half-open counter of circuit_breaker.py is the number of calls it   *)
(* has admitted since, whatever late records of earlier calls did to it.   *)
THEOREM HalfOpenCountsItsProbes == BreakerSpec => []ProbesAreCounted
<1>1. BreakerInv => ProbesAreCounted
  BY DEF BreakerInv
<1> QED
  BY <1>1, BreakerInvariance, PTL
=============================================================================
