--------------------------- MODULE EmailOutboxProofs ---------------------------
(***************************************************************************)
(* Theorems about EmailOutbox, for any number of senders, rows, attempts   *)
(* and deferrals.                                                          *)
(***************************************************************************)
EXTENDS EmailOutbox, TLAPS

\* The sender works on the attempt that its row still records.
Holds(s) == sender[s].pc # "idle" /\ StillClaimed(s)

\* NotificationStore.record: a row with a result has had an attempt.
RowsValid ==
    \A i \in RowIds : outbox[i].state \notin {"absent", "pending"} => outbox[i].attempts > 0

\* A claim is of a row that exists, and never newer than the row.
ClaimsKnown ==
    \A s \in Senders :
       sender[s].pc # "idle" =>
          /\ sender[s].row \in RowIds
          /\ outbox[sender[s].row].state # "absent"
          /\ sender[s].attempts <= outbox[sender[s].row].attempts

\* A sender whose second transaction is open has the lock, and its claim.
LockHeld ==
    /\ \A s \in Senders : sender[s].pc \in {"open", "result"} => lock = s /\ StillClaimed(s)
    /\ lock # None => sender[lock].pc \in {"open", "result"}

\* The result of a conversation is a state that finish accepts.
ResultsFinal ==
    \A s \in Senders :
       sender[s].pc = "result" => sender[s].result \in {"confirmed", "failed", "unknown"}

\* No two senders hold the same attempt of a row.
ClaimsDistinct ==
    \A s, t \in Senders : Holds(s) /\ Holds(t) /\ sender[s].row = sender[t].row => s = t

ClaimInv ==
    TypeOK /\ RowsValid /\ ClaimsKnown /\ LockHeld /\ ResultsFinal /\ ClaimsDistinct

\* Where no sender comes to hold an attempt, the attempts held stay distinct.
LEMMA ClaimsStayDistinct ==
    ASSUME ClaimsDistinct,
           \A t \in Senders : Holds(t)' => Holds(t) /\ sender'[t].row = sender[t].row
    PROVE  ClaimsDistinct'
  BY DEF ClaimsDistinct

\* A new row is nobody's (enqueue).
LEMMA EnqueueKeepsClaims ==
    ASSUME ClaimInv, NEW i \in RowIds, NEW kind \in {"entry", "notice"},
           NEW suppressed \in BOOLEAN, Enqueue(i, kind, suppressed)
    PROVE  ClaimInv'
<1> USE OutboxAssumption DEF ClaimInv
<1>1. TypeOK'
  <2>1. outbox' \in [RowIds -> Row]
    BY DEF Enqueue, Present, TypeOK, Row, DeliveryState
  <2>2. sender' \in [Senders -> SenderState]
    BY DEF Enqueue, Present, TypeOK, Row, SenderState, DeliveryState
  <2>3. /\ lock' \in Senders \cup {None}
        /\ bodies' \in [RowIds -> Nat]
        /\ accepted' \in [RowIds -> Nat]
        /\ deferrals' \in 0..MaxDeferrals
    BY DEF Enqueue, Present, TypeOK, SenderState
  <2> QED  BY <2>1, <2>2, <2>3 DEF TypeOK
<1>2. RowsValid'
  BY DEF Enqueue, Present, TypeOK, RowsValid, ClaimsKnown, LockHeld, ResultsFinal, Row,
     SenderState, DeliveryState
<1>3. ClaimsKnown'
  BY DEF Enqueue, Present, TypeOK, ClaimsKnown, LockHeld, Row, SenderState,
     DeliveryState, StillClaimed, Holds, ClaimsDistinct
<1>4. LockHeld'
  BY DEF Enqueue, Present, TypeOK, LockHeld, ClaimsKnown, Row, SenderState,
     DeliveryState, StillClaimed
<1>5. ResultsFinal'
  BY DEF Enqueue, Present, TypeOK, ResultsFinal, Row, SenderState, DeliveryState
<1>6. ClaimsDistinct'
  <2>1. \A t \in Senders : Holds(t)' => Holds(t) /\ sender'[t].row = sender[t].row
    BY DEF Enqueue, Present, TypeOK, Row, SenderState, ClaimsKnown, LockHeld, Holds,
       StillClaimed
  <2> QED  BY <2>1, ClaimsStayDistinct
<1> QED  BY <1>1, <1>2, <1>3, <1>4, <1>5, <1>6

\* Suppression leaves claims alone (suppress).
LEMMA SuppressKeepsClaims ==
    ASSUME ClaimInv, NEW i \in RowIds, Suppress(i)
    PROVE  ClaimInv'
<1> USE OutboxAssumption DEF ClaimInv
<1>1. TypeOK'
  <2>0. i \in RowIds /\ outbox[i] \in Row
    BY DEF Suppress, Present, TypeOK, ClaimsKnown
  <2>a. [outbox[i] EXCEPT !.suppressed = TRUE] \in Row
    BY <2>0 DEF Suppress, Present, Row, DeliveryState, RowsValid, StillClaimed
  <2>1. outbox' \in [RowIds -> Row]
    <3>1. outbox' = [outbox EXCEPT ![i] = [outbox[i] EXCEPT !.suppressed = TRUE]]
      BY DEF Suppress, Present
    <3> QED  BY <3>1, <2>0, <2>a DEF TypeOK
  <2>2. sender' \in [Senders -> SenderState]
    BY DEF Suppress, Present, TypeOK, Row, SenderState, DeliveryState
  <2>3. /\ lock' \in Senders \cup {None}
        /\ bodies' \in [RowIds -> Nat]
        /\ accepted' \in [RowIds -> Nat]
        /\ deferrals' \in 0..MaxDeferrals
    BY DEF Suppress, Present, TypeOK, SenderState
  <2> QED  BY <2>1, <2>2, <2>3 DEF TypeOK
<1>2. RowsValid'
  BY DEF Suppress, Present, TypeOK, RowsValid, ClaimsKnown, LockHeld, ResultsFinal,
     Row, SenderState, DeliveryState
<1>3. ClaimsKnown'
  BY DEF Suppress, Present, TypeOK, ClaimsKnown, LockHeld, Row, SenderState,
     DeliveryState, StillClaimed, Holds, ClaimsDistinct
<1>4. LockHeld'
  BY DEF Suppress, Present, TypeOK, LockHeld, ClaimsKnown, Row, SenderState,
     DeliveryState, StillClaimed
<1>5. ResultsFinal'
  BY DEF Suppress, Present, TypeOK, ResultsFinal, Row, SenderState, DeliveryState
<1>6. ClaimsDistinct'
  <2>1. \A t \in Senders : Holds(t)' => Holds(t) /\ sender'[t].row = sender[t].row
    BY DEF Suppress, Present, TypeOK, Row, SenderState, ClaimsKnown, LockHeld, Holds,
       StillClaimed
  <2> QED  BY <2>1, ClaimsStayDistinct
<1> QED  BY <1>1, <1>2, <1>3, <1>4, <1>5, <1>6

\* A resolved row is unknown no more, so its claim is void (resolve).
LEMMA ResolveKeepsClaims ==
    ASSUME ClaimInv, NEW i \in RowIds, NEW outcome \in {"confirmed", "failed"},
           Resolve(i, outcome)
    PROVE  ClaimInv'
<1> USE OutboxAssumption DEF ClaimInv
<1>1. TypeOK'
  <2>0. i \in RowIds /\ outbox[i] \in Row
    BY DEF Resolve, TypeOK, ClaimsKnown
  <2>a. [outbox[i] EXCEPT !.state = outcome, !.retryable = FALSE, !.due = FALSE] \in Row
    BY <2>0 DEF Resolve, Row, DeliveryState, RowsValid, StillClaimed
  <2>1. outbox' \in [RowIds -> Row]
    <3>1. outbox' = [outbox EXCEPT ![i] = [outbox[i] EXCEPT !.state = outcome,
           !.retryable = FALSE, !.due = FALSE]]
      BY DEF Resolve
    <3> QED  BY <3>1, <2>0, <2>a DEF TypeOK
  <2>2. sender' \in [Senders -> SenderState]
    BY DEF Resolve, TypeOK, Row, SenderState, DeliveryState
  <2>3. /\ lock' \in Senders \cup {None}
        /\ bodies' \in [RowIds -> Nat]
        /\ accepted' \in [RowIds -> Nat]
        /\ deferrals' \in 0..MaxDeferrals
    BY DEF Resolve, TypeOK, SenderState
  <2> QED  BY <2>1, <2>2, <2>3 DEF TypeOK
<1>2. RowsValid'
  BY DEF Resolve, TypeOK, RowsValid, ClaimsKnown, LockHeld, ResultsFinal, Row,
     SenderState, DeliveryState
<1>3. ClaimsKnown'
  BY DEF Resolve, TypeOK, ClaimsKnown, LockHeld, Row, SenderState, DeliveryState,
     StillClaimed, Holds, ClaimsDistinct
<1>4. LockHeld'
  BY DEF Resolve, TypeOK, LockHeld, ClaimsKnown, Row, SenderState, DeliveryState,
     StillClaimed
<1>5. ResultsFinal'
  BY DEF Resolve, TypeOK, ResultsFinal, Row, SenderState, DeliveryState
<1>6. ClaimsDistinct'
  <2>1. \A t \in Senders : Holds(t)' => Holds(t) /\ sender'[t].row = sender[t].row
    BY DEF Resolve, TypeOK, Row, SenderState, ClaimsKnown, LockHeld, Holds, StillClaimed
  <2> QED  BY <2>1, ClaimsStayDistinct
<1> QED  BY <1>1, <1>2, <1>3, <1>4, <1>5, <1>6

\* A failed row is claimed by nobody who could still act on it (retry_failed).
LEMMA RetryFailedKeepsClaims ==
    ASSUME ClaimInv, NEW i \in RowIds, RetryFailed(i)
    PROVE  ClaimInv'
<1> USE OutboxAssumption DEF ClaimInv
<1>1. TypeOK'
  <2>0. i \in RowIds /\ outbox[i] \in Row
    BY DEF RetryFailed, TypeOK, ClaimsKnown
  <2>a. [outbox[i] EXCEPT !.retryable = TRUE, !.due = TRUE] \in Row
    BY <2>0 DEF RetryFailed, Row, DeliveryState, RowsValid, StillClaimed
  <2>1. outbox' \in [RowIds -> Row]
    <3>1. outbox' = [outbox EXCEPT ![i] = [outbox[i] EXCEPT !.retryable = TRUE, !.due = TRUE]]
      BY DEF RetryFailed
    <3> QED  BY <3>1, <2>0, <2>a DEF TypeOK
  <2>2. sender' \in [Senders -> SenderState]
    BY DEF RetryFailed, TypeOK, Row, SenderState, DeliveryState
  <2>3. /\ lock' \in Senders \cup {None}
        /\ bodies' \in [RowIds -> Nat]
        /\ accepted' \in [RowIds -> Nat]
        /\ deferrals' \in 0..MaxDeferrals
    BY DEF RetryFailed, TypeOK, SenderState
  <2> QED  BY <2>1, <2>2, <2>3 DEF TypeOK
<1>2. RowsValid'
  BY DEF RetryFailed, TypeOK, RowsValid, ClaimsKnown, LockHeld, ResultsFinal, Row,
     SenderState, DeliveryState
<1>3. ClaimsKnown'
  BY DEF RetryFailed, TypeOK, ClaimsKnown, LockHeld, Row, SenderState, DeliveryState,
     StillClaimed, Holds, ClaimsDistinct
<1>4. LockHeld'
  BY DEF RetryFailed, TypeOK, LockHeld, ClaimsKnown, Row, SenderState, DeliveryState,
     StillClaimed
<1>5. ResultsFinal'
  BY DEF RetryFailed, TypeOK, ResultsFinal, Row, SenderState, DeliveryState
<1>6. ClaimsDistinct'
  <2>1. \A t \in Senders : Holds(t)' => Holds(t) /\ sender'[t].row = sender[t].row
    BY DEF RetryFailed, TypeOK, Row, SenderState, ClaimsKnown, LockHeld, Holds,
       StillClaimed
  <2> QED  BY <2>1, ClaimsStayDistinct
<1> QED  BY <1>1, <1>2, <1>3, <1>4, <1>5, <1>6

\* The passing of next_attempt_ms leaves claims alone.
LEMMA ElapseKeepsClaims ==
    ASSUME ClaimInv, NEW i \in RowIds, Elapse(i)
    PROVE  ClaimInv'
<1> USE OutboxAssumption DEF ClaimInv
<1>1. TypeOK'
  <2>0. i \in RowIds /\ outbox[i] \in Row
    BY DEF Elapse, Present, TypeOK, ClaimsKnown
  <2>a. [outbox[i] EXCEPT !.due = TRUE] \in Row
    BY <2>0 DEF Elapse, Present, Row, DeliveryState, RowsValid, StillClaimed
  <2>1. outbox' \in [RowIds -> Row]
    <3>1. outbox' = [outbox EXCEPT ![i] = [outbox[i] EXCEPT !.due = TRUE]]
      BY DEF Elapse, Present
    <3> QED  BY <3>1, <2>0, <2>a DEF TypeOK
  <2>2. sender' \in [Senders -> SenderState]
    BY DEF Elapse, Present, TypeOK, Row, SenderState, DeliveryState
  <2>3. /\ lock' \in Senders \cup {None}
        /\ bodies' \in [RowIds -> Nat]
        /\ accepted' \in [RowIds -> Nat]
        /\ deferrals' \in 0..MaxDeferrals
    BY DEF Elapse, Present, TypeOK, SenderState
  <2> QED  BY <2>1, <2>2, <2>3 DEF TypeOK
<1>2. RowsValid'
  BY DEF Elapse, Present, TypeOK, RowsValid, ClaimsKnown, LockHeld, ResultsFinal, Row,
     SenderState, DeliveryState
<1>3. ClaimsKnown'
  BY DEF Elapse, Present, TypeOK, ClaimsKnown, LockHeld, Row, SenderState,
     DeliveryState, StillClaimed, Holds, ClaimsDistinct
<1>4. LockHeld'
  BY DEF Elapse, Present, TypeOK, LockHeld, ClaimsKnown, Row, SenderState,
     DeliveryState, StillClaimed
<1>5. ResultsFinal'
  BY DEF Elapse, Present, TypeOK, ResultsFinal, Row, SenderState, DeliveryState
<1>6. ClaimsDistinct'
  <2>1. \A t \in Senders : Holds(t)' => Holds(t) /\ sender'[t].row = sender[t].row
    BY DEF Elapse, Present, TypeOK, Row, SenderState, ClaimsKnown, LockHeld, Holds,
       StillClaimed
  <2> QED  BY <2>1, ClaimsStayDistinct
<1> QED  BY <1>1, <1>2, <1>3, <1>4, <1>5, <1>6

\* A claim makes a new attempt, which no other sender has (claim).
LEMMA ClaimKeepsClaims ==
    ASSUME ClaimInv, NEW s \in Senders, NEW i \in RowIds, Claim(s, i)
    PROVE  ClaimInv'
<1> USE OutboxAssumption DEF ClaimInv
<1>1. TypeOK'
  <2>1. outbox' \in [RowIds -> Row]
    BY DEF Claim, Claimable, Idle, TypeOK, Row, DeliveryState
  <2>2. sender' \in [Senders -> SenderState]
    BY DEF Claim, Claimable, Idle, TypeOK, Row, SenderState, DeliveryState
  <2>3. /\ lock' \in Senders \cup {None}
        /\ bodies' \in [RowIds -> Nat]
        /\ accepted' \in [RowIds -> Nat]
        /\ deferrals' \in 0..MaxDeferrals
    BY DEF Claim, Claimable, Idle, TypeOK, SenderState
  <2> QED  BY <2>1, <2>2, <2>3 DEF TypeOK
<1>2. RowsValid'
  BY DEF Claim, Claimable, Idle, TypeOK, RowsValid, ClaimsKnown, LockHeld,
     ResultsFinal, Row, SenderState, DeliveryState
<1>3. ClaimsKnown'
  BY DEF Claim, Claimable, Idle, TypeOK, ClaimsKnown, LockHeld, Row, SenderState,
     DeliveryState, StillClaimed, Holds, ClaimsDistinct
<1>4. LockHeld'
  BY DEF Claim, Claimable, Idle, TypeOK, LockHeld, ClaimsKnown, Row, SenderState,
     DeliveryState, StillClaimed
<1>5. ResultsFinal'
  BY DEF Claim, Claimable, Idle, TypeOK, ResultsFinal, Row, SenderState, DeliveryState
<1>6. ClaimsDistinct'
  BY DEF Claim, Claimable, Idle, TypeOK, ClaimsKnown, LockHeld, ClaimsDistinct, Row,
     SenderState, DeliveryState, Holds, StillClaimed
<1> QED  BY <1>1, <1>2, <1>3, <1>4, <1>5, <1>6

\* A sender that lost its claim lets go of it (deliver).
LEMMA SkipKeepsClaims ==
    ASSUME ClaimInv, NEW s \in Senders, Skip(s)
    PROVE  ClaimInv'
<1> USE OutboxAssumption DEF ClaimInv
<1>1. TypeOK'
  <2>1. outbox' \in [RowIds -> Row]
    BY DEF Skip, Idle, TypeOK, Row, DeliveryState
  <2>2. sender' \in [Senders -> SenderState]
    BY DEF Skip, Idle, TypeOK, Row, SenderState, DeliveryState
  <2>3. /\ lock' \in Senders \cup {None}
        /\ bodies' \in [RowIds -> Nat]
        /\ accepted' \in [RowIds -> Nat]
        /\ deferrals' \in 0..MaxDeferrals
    BY DEF Skip, Idle, TypeOK, SenderState
  <2> QED  BY <2>1, <2>2, <2>3 DEF TypeOK
<1>2. RowsValid'
  BY DEF Skip, Idle, TypeOK, RowsValid, ClaimsKnown, LockHeld, ResultsFinal, Row,
     SenderState, DeliveryState
<1>3. ClaimsKnown'
  BY DEF Skip, Idle, TypeOK, ClaimsKnown, LockHeld, Row, SenderState, DeliveryState,
     StillClaimed, Holds, ClaimsDistinct
<1>4. LockHeld'
  BY DEF Skip, Idle, TypeOK, LockHeld, ClaimsKnown, Row, SenderState, DeliveryState,
     StillClaimed
<1>5. ResultsFinal'
  BY DEF Skip, Idle, TypeOK, ResultsFinal, Row, SenderState, DeliveryState
<1>6. ClaimsDistinct'
  <2>1. \A t \in Senders : Holds(t)' => Holds(t) /\ sender'[t].row = sender[t].row
    BY DEF Skip, Idle, TypeOK, Row, SenderState, ClaimsKnown, LockHeld, Holds,
       StillClaimed
  <2> QED  BY <2>1, ClaimsStayDistinct
<1> QED  BY <1>1, <1>2, <1>3, <1>4, <1>5, <1>6

\* An attempt given back was the last one: no sender knows a newer one
\* (defer_unstarted).
LEMMA DeferKeepsClaims ==
    ASSUME ClaimInv, NEW s \in Senders, Defer(s)
    PROVE  ClaimInv'
<1> USE OutboxAssumption DEF ClaimInv
<1>1. TypeOK'
  <2>0. sender[s].row \in RowIds /\ outbox[sender[s].row] \in Row
    BY DEF Defer, Unstarted, Idle, TypeOK, ClaimsKnown
  <2>a. Unstarted(outbox[sender[s].row]) \in Row
    <3>1. outbox[sender[s].row].attempts \in 1..MaxAttempts
      <4>1. outbox[sender[s].row].state = "unknown"
        BY DEF Defer, StillClaimed
      <4> QED  BY <2>0, <4>1 DEF Row, RowsValid
    <3>2. outbox[sender[s].row].attempts - 1 \in 0..MaxAttempts
      BY <3>1
    <3> QED  BY <2>0, <3>2 DEF Unstarted, Row, DeliveryState
  <2>1. outbox' \in [RowIds -> Row]
    <3>1. outbox' = [outbox EXCEPT ![sender[s].row] = Unstarted(outbox[sender[s].row])]
      BY DEF Defer, Unstarted, Idle
    <3> QED  BY <3>1, <2>0, <2>a DEF TypeOK
  <2>2. sender' \in [Senders -> SenderState]
    BY DEF Defer, Unstarted, Idle, TypeOK, Row, SenderState, DeliveryState
  <2>3. /\ lock' \in Senders \cup {None}
        /\ bodies' \in [RowIds -> Nat]
        /\ accepted' \in [RowIds -> Nat]
        /\ deferrals' \in 0..MaxDeferrals
    BY DEF Defer, Unstarted, Idle, TypeOK, SenderState
  <2> QED  BY <2>1, <2>2, <2>3 DEF TypeOK
<1>2. RowsValid'
  BY DEF Defer, Unstarted, Idle, TypeOK, RowsValid, ClaimsKnown, LockHeld,
     ResultsFinal, Row, SenderState, DeliveryState
<1>3. ClaimsKnown'
  <2>1. outbox'[sender[s].row].attempts = outbox[sender[s].row].attempts - 1
    BY DEF Defer, Unstarted, TypeOK, Row, ClaimsKnown
  <2>2. \A i \in RowIds : outbox[i].state # "absent" => outbox'[i].state # "absent"
    BY DEF Defer, Unstarted, TypeOK, Row
  <2>3. \A i \in RowIds \ {sender[s].row} : outbox'[i] = outbox[i]
    BY DEF Defer, TypeOK
  <2>4. ASSUME NEW t \in Senders, t # s, sender[t].pc # "idle",
               sender[t].row = sender[s].row
        PROVE  sender[t].attempts <= outbox[sender[s].row].attempts - 1
    <3>1. ~ Holds(t)
      BY <2>4 DEF Defer, ClaimsDistinct, Holds
    <3>2. outbox[sender[s].row].state = "unknown"
      BY DEF Defer, StillClaimed
    <3>3. sender[t].attempts # outbox[sender[s].row].attempts
      BY <2>4, <3>1, <3>2 DEF Holds, StillClaimed
    <3>4. /\ sender[t].attempts <= outbox[sender[s].row].attempts
          /\ sender[t].attempts \in Int
          /\ outbox[sender[s].row].attempts \in Int
      BY <2>4 DEF ClaimsKnown, TypeOK, SenderState, Row
    <3> QED  BY <3>3, <3>4
  <2>5. \A t \in Senders : sender'[t].pc # "idle" => t # s /\ sender'[t] = sender[t]
    BY DEF Defer, Idle, TypeOK
  <2> QED  BY <2>1, <2>2, <2>3, <2>4, <2>5 DEF ClaimsKnown
<1>4. LockHeld'
  BY DEF Defer, Unstarted, Idle, TypeOK, LockHeld, ClaimsKnown, Row, SenderState,
     DeliveryState, StillClaimed
<1>5. ResultsFinal'
  BY DEF Defer, Unstarted, Idle, TypeOK, ResultsFinal, Row, SenderState, DeliveryState
<1>6. ClaimsDistinct'
  <2>1. \A t \in Senders : Holds(t)' => Holds(t) /\ sender'[t].row = sender[t].row
    BY DEF Defer, Unstarted, Idle, TypeOK, Row, SenderState, ClaimsKnown, LockHeld,
       Holds, StillClaimed
  <2> QED  BY <2>1, ClaimsStayDistinct
<1> QED  BY <1>1, <1>2, <1>3, <1>4, <1>5, <1>6

\* The same for an entry that is given up (_prepare_entry).
LEMMA DropKeepsClaims ==
    ASSUME ClaimInv, NEW s \in Senders, Drop(s)
    PROVE  ClaimInv'
<1> USE OutboxAssumption DEF ClaimInv
<1>1. TypeOK'
  <2>0. sender[s].row \in RowIds /\ outbox[sender[s].row] \in Row
    BY DEF Drop, Unstarted, Idle, TypeOK, ClaimsKnown
  <2>a. [Unstarted(outbox[sender[s].row]) EXCEPT !.suppressed = TRUE] \in Row
    <3>1. outbox[sender[s].row].attempts \in 1..MaxAttempts
      <4>1. outbox[sender[s].row].state = "unknown"
        BY DEF Drop, StillClaimed
      <4> QED  BY <2>0, <4>1 DEF Row, RowsValid
    <3>2. outbox[sender[s].row].attempts - 1 \in 0..MaxAttempts
      BY <3>1
    <3> QED  BY <2>0, <3>2 DEF Unstarted, Row, DeliveryState
  <2>1. outbox' \in [RowIds -> Row]
    <3>1. outbox' = [outbox EXCEPT ![sender[s].row] =
                       [Unstarted(outbox[sender[s].row]) EXCEPT !.suppressed = TRUE]]
      BY DEF Drop, Unstarted, Idle
    <3> QED  BY <3>1, <2>0, <2>a DEF TypeOK
  <2>2. sender' \in [Senders -> SenderState]
    BY DEF Drop, Unstarted, Idle, TypeOK, Row, SenderState, DeliveryState
  <2>3. /\ lock' \in Senders \cup {None}
        /\ bodies' \in [RowIds -> Nat]
        /\ accepted' \in [RowIds -> Nat]
        /\ deferrals' \in 0..MaxDeferrals
    BY DEF Drop, Unstarted, Idle, TypeOK, SenderState
  <2> QED  BY <2>1, <2>2, <2>3 DEF TypeOK
<1>2. RowsValid'
  BY DEF Drop, Unstarted, Idle, TypeOK, RowsValid, ClaimsKnown, LockHeld, ResultsFinal,
     Row, SenderState, DeliveryState
<1>3. ClaimsKnown'
  <2>1. outbox'[sender[s].row].attempts = outbox[sender[s].row].attempts - 1
    BY DEF Drop, Unstarted, TypeOK, Row, ClaimsKnown
  <2>2. \A i \in RowIds : outbox[i].state # "absent" => outbox'[i].state # "absent"
    BY DEF Drop, Unstarted, TypeOK, Row
  <2>3. \A i \in RowIds \ {sender[s].row} : outbox'[i] = outbox[i]
    BY DEF Drop, TypeOK
  <2>4. ASSUME NEW t \in Senders, t # s, sender[t].pc # "idle",
               sender[t].row = sender[s].row
        PROVE  sender[t].attempts <= outbox[sender[s].row].attempts - 1
    <3>1. ~ Holds(t)
      BY <2>4 DEF Drop, ClaimsDistinct, Holds
    <3>2. outbox[sender[s].row].state = "unknown"
      BY DEF Drop, StillClaimed
    <3>3. sender[t].attempts # outbox[sender[s].row].attempts
      BY <2>4, <3>1, <3>2 DEF Holds, StillClaimed
    <3>4. /\ sender[t].attempts <= outbox[sender[s].row].attempts
          /\ sender[t].attempts \in Int
          /\ outbox[sender[s].row].attempts \in Int
      BY <2>4 DEF ClaimsKnown, TypeOK, SenderState, Row
    <3> QED  BY <3>3, <3>4
  <2>5. \A t \in Senders : sender'[t].pc # "idle" => t # s /\ sender'[t] = sender[t]
    BY DEF Drop, Idle, TypeOK
  <2> QED  BY <2>1, <2>2, <2>3, <2>4, <2>5 DEF ClaimsKnown
<1>4. LockHeld'
  BY DEF Drop, Unstarted, Idle, TypeOK, LockHeld, ClaimsKnown, Row, SenderState,
     DeliveryState, StillClaimed
<1>5. ResultsFinal'
  BY DEF Drop, Unstarted, Idle, TypeOK, ResultsFinal, Row, SenderState, DeliveryState
<1>6. ClaimsDistinct'
  <2>1. \A t \in Senders : Holds(t)' => Holds(t) /\ sender'[t].row = sender[t].row
    BY DEF Drop, Unstarted, Idle, TypeOK, Row, SenderState, ClaimsKnown, LockHeld,
       Holds, StillClaimed
  <2> QED  BY <2>1, ClaimsStayDistinct
<1> QED  BY <1>1, <1>2, <1>3, <1>4, <1>5, <1>6

\* The lock goes to the sender that holds its attempt (deliver).
LEMMA OpenKeepsClaims ==
    ASSUME ClaimInv, NEW s \in Senders, Open(s)
    PROVE  ClaimInv'
<1> USE OutboxAssumption DEF ClaimInv
<1>1. TypeOK'
  <2>1. outbox' \in [RowIds -> Row]
    BY DEF Open, TypeOK, Row, DeliveryState
  <2>2. sender' \in [Senders -> SenderState]
    BY DEF Open, TypeOK, Row, SenderState, DeliveryState
  <2>3. /\ lock' \in Senders \cup {None}
        /\ bodies' \in [RowIds -> Nat]
        /\ accepted' \in [RowIds -> Nat]
        /\ deferrals' \in 0..MaxDeferrals
    BY DEF Open, TypeOK, SenderState
  <2> QED  BY <2>1, <2>2, <2>3 DEF TypeOK
<1>2. RowsValid'
  BY DEF Open, TypeOK, RowsValid, ClaimsKnown, LockHeld, ResultsFinal, Row,
     SenderState, DeliveryState
<1>3. ClaimsKnown'
  BY DEF Open, TypeOK, ClaimsKnown, LockHeld, Row, SenderState, DeliveryState,
     StillClaimed, Holds, ClaimsDistinct
<1>4. LockHeld'
  BY DEF Open, TypeOK, LockHeld, ClaimsKnown, Row, SenderState, DeliveryState,
     StillClaimed
<1>5. ResultsFinal'
  BY DEF Open, TypeOK, ResultsFinal, Row, SenderState, DeliveryState
<1>6. ClaimsDistinct'
  <2>1. \A t \in Senders : Holds(t)' => Holds(t) /\ sender'[t].row = sender[t].row
    BY DEF Open, TypeOK, Row, SenderState, ClaimsKnown, LockHeld, Holds, StillClaimed
  <2> QED  BY <2>1, ClaimsStayDistinct
<1> QED  BY <1>1, <1>2, <1>3, <1>4, <1>5, <1>6

\* A result is a state that finish accepts (SmtpTransport.send).
LEMMA FailBeforeBodyKeepsClaims ==
    ASSUME ClaimInv, NEW s \in Senders, FailBeforeBody(s)
    PROVE  ClaimInv'
<1> USE OutboxAssumption DEF ClaimInv
<1>1. TypeOK'
  <2>1. outbox' \in [RowIds -> Row]
    BY DEF FailBeforeBody, Answer, TypeOK, Row, DeliveryState
  <2>2. sender' \in [Senders -> SenderState]
    <3>1. PICK retryable \in BOOLEAN : Answer(s, "failed", retryable)
      BY DEF FailBeforeBody
    <3>2. [sender[s] EXCEPT !.pc = "result", !.result = "failed", !.retryable = retryable]
             \in SenderState
      BY DEF TypeOK, SenderState, DeliveryState
    <3> QED  BY <3>1, <3>2 DEF Answer, TypeOK
  <2>3. /\ lock' \in Senders \cup {None}
        /\ bodies' \in [RowIds -> Nat]
        /\ accepted' \in [RowIds -> Nat]
        /\ deferrals' \in 0..MaxDeferrals
    BY DEF FailBeforeBody, Answer, TypeOK, SenderState
  <2> QED  BY <2>1, <2>2, <2>3 DEF TypeOK
<1>2. RowsValid'
  BY DEF FailBeforeBody, Answer, TypeOK, RowsValid, ClaimsKnown, LockHeld,
     ResultsFinal, Row, SenderState, DeliveryState
<1>3. ClaimsKnown'
  BY DEF FailBeforeBody, Answer, TypeOK, ClaimsKnown, LockHeld, Row, SenderState,
     DeliveryState, StillClaimed, Holds, ClaimsDistinct
<1>4. LockHeld'
  BY DEF FailBeforeBody, Answer, TypeOK, LockHeld, ClaimsKnown, Row, SenderState,
     DeliveryState, StillClaimed
<1>5. ResultsFinal'
  BY DEF FailBeforeBody, Answer, TypeOK, ResultsFinal, Row, SenderState, DeliveryState
<1>6. ClaimsDistinct'
  <2>1. \A t \in Senders : Holds(t)' => Holds(t) /\ sender'[t].row = sender[t].row
    BY DEF FailBeforeBody, Answer, TypeOK, Row, SenderState, ClaimsKnown, LockHeld,
       Holds, StillClaimed
  <2> QED  BY <2>1, ClaimsStayDistinct
<1> QED  BY <1>1, <1>2, <1>3, <1>4, <1>5, <1>6

\* The same for a body that was sent (SmtpTransport.send).
LEMMA SendBodyKeepsClaims ==
    ASSUME ClaimInv, NEW s \in Senders, SendBody(s)
    PROVE  ClaimInv'
<1> USE OutboxAssumption DEF ClaimInv
<1>1. TypeOK'
  <2>1. outbox' \in [RowIds -> Row]
    BY DEF SendBody, Reply, Answer, TypeOK, Row, DeliveryState
  <2>2. sender' \in [Senders -> SenderState]
    BY DEF SendBody, Reply, Answer, TypeOK, Row, SenderState, DeliveryState
  <2>3. /\ lock' \in Senders \cup {None}
        /\ bodies' \in [RowIds -> Nat]
        /\ accepted' \in [RowIds -> Nat]
        /\ deferrals' \in 0..MaxDeferrals
    <3>1. PICK taken \in {0, 1} :
             accepted' = [accepted EXCEPT ![sender[s].row] = @ + taken]
      BY DEF SendBody
    <3>2. sender[s].row \in RowIds
      BY DEF SendBody, ClaimsKnown
    <3>3. accepted[sender[s].row] + taken \in Nat /\ bodies[sender[s].row] + 1 \in Nat
      BY <3>2 DEF TypeOK
    <3>4. /\ UNCHANGED <<lock, deferrals>>
          /\ bodies' = [bodies EXCEPT ![sender[s].row] = @ + 1]
      BY DEF SendBody
    <3> QED  BY <3>1, <3>2, <3>3, <3>4 DEF TypeOK
  <2> QED  BY <2>1, <2>2, <2>3 DEF TypeOK
<1>2. RowsValid'
  BY DEF SendBody, Reply, Answer, TypeOK, RowsValid, ClaimsKnown, LockHeld,
     ResultsFinal, Row, SenderState, DeliveryState
<1>3. ClaimsKnown'
  BY DEF SendBody, Reply, Answer, TypeOK, ClaimsKnown, LockHeld, Row, SenderState,
     DeliveryState, StillClaimed, Holds, ClaimsDistinct
<1>4. LockHeld'
  BY DEF SendBody, Reply, Answer, TypeOK, LockHeld, ClaimsKnown, Row, SenderState,
     DeliveryState, StillClaimed
<1>5. ResultsFinal'
  BY DEF SendBody, Reply, Answer, TypeOK, ResultsFinal, Row, SenderState, DeliveryState
<1>6. ClaimsDistinct'
  <2>1. \A t \in Senders : Holds(t)' => Holds(t) /\ sender'[t].row = sender[t].row
    BY DEF SendBody, Reply, Answer, TypeOK, Row, SenderState, ClaimsKnown, LockHeld,
       Holds, StillClaimed
  <2> QED  BY <2>1, ClaimsStayDistinct
<1> QED  BY <1>1, <1>2, <1>3, <1>4, <1>5, <1>6

\* finish ends the claim together with the transaction.
LEMMA FinishKeepsClaims ==
    ASSUME ClaimInv, NEW s \in Senders, Finish(s)
    PROVE  ClaimInv'
<1> USE OutboxAssumption DEF ClaimInv
<1>1. TypeOK'
  <2>1. outbox' \in [RowIds -> Row]
    <3>1. sender[s].row \in RowIds /\ sender[s].result \in DeliveryState
      BY DEF Finish, ClaimsKnown, ResultsFinal, DeliveryState
    <3>2. [outbox[sender[s].row] EXCEPT !.state = sender[s].result, !.due = FALSE,
                                        !.retryable = sender[s].retryable] \in Row
      <4>1. outbox[sender[s].row] \in Row /\ sender[s].retryable \in BOOLEAN
        BY <3>1 DEF TypeOK, SenderState
      <4> QED  BY <3>1, <4>1 DEF Row
    <3>3. outbox' = [outbox EXCEPT ![sender[s].row] =
                       [outbox[sender[s].row] EXCEPT !.state = sender[s].result, !.due = FALSE,
                                                     !.retryable = sender[s].retryable]]
      BY <3>1 DEF Finish, TypeOK, Row
    <3> QED  BY <3>1, <3>2, <3>3 DEF TypeOK
  <2>2. sender' \in [Senders -> SenderState]
    BY DEF Finish, Idle, TypeOK, Row, SenderState, DeliveryState
  <2>3. /\ lock' \in Senders \cup {None}
        /\ bodies' \in [RowIds -> Nat]
        /\ accepted' \in [RowIds -> Nat]
        /\ deferrals' \in 0..MaxDeferrals
    BY DEF Finish, Idle, TypeOK, SenderState
  <2> QED  BY <2>1, <2>2, <2>3 DEF TypeOK
<1>2. RowsValid'
  <2>1. outbox[sender[s].row].state = "unknown"
    BY DEF Finish, LockHeld, StillClaimed
  <2>2. \A i \in RowIds : outbox'[i].attempts = outbox[i].attempts
    BY DEF Finish, TypeOK, Row
  <2>3. \A i \in RowIds : i # sender[s].row => outbox'[i].state = outbox[i].state
    BY DEF Finish, TypeOK, Row
  <2> QED  BY <2>1, <2>2, <2>3 DEF RowsValid
<1>3. ClaimsKnown'
  <2>1. \A i \in RowIds : outbox'[i].attempts = outbox[i].attempts
    BY DEF Finish, TypeOK, Row
  <2>2. \A i \in RowIds : outbox[i].state # "absent" => outbox'[i].state # "absent"
    BY DEF Finish, TypeOK, Row, ResultsFinal
  <2>3. \A t \in Senders : sender'[t].pc # "idle" => sender'[t] = sender[t]
    BY DEF Finish, Idle, TypeOK
  <2> QED  BY <2>1, <2>2, <2>3 DEF ClaimsKnown
<1>4. LockHeld'
  BY DEF Finish, Idle, TypeOK, LockHeld, ClaimsKnown, Row, SenderState, DeliveryState,
     StillClaimed
<1>5. ResultsFinal'
  BY DEF Finish, Idle, TypeOK, ResultsFinal, Row, SenderState, DeliveryState
<1>6. ClaimsDistinct'
  <2>1. \A t \in Senders : Holds(t)' => Holds(t) /\ sender'[t].row = sender[t].row
    BY DEF Finish, Idle, TypeOK, Row, SenderState, ClaimsKnown, LockHeld, Holds,
       StillClaimed
  <2> QED  BY <2>1, ClaimsStayDistinct
<1> QED  BY <1>1, <1>2, <1>3, <1>4, <1>5, <1>6

\* A sender that dies gives up lock and claim; the row stays unknown.
LEMMA DieKeepsClaims ==
    ASSUME ClaimInv, NEW s \in Senders, Die(s)
    PROVE  ClaimInv'
<1> USE OutboxAssumption DEF ClaimInv
<1>1. TypeOK'
  <2>1. outbox' \in [RowIds -> Row]
    BY DEF Die, Idle, TypeOK, Row, DeliveryState
  <2>2. sender' \in [Senders -> SenderState]
    BY DEF Die, Idle, TypeOK, Row, SenderState, DeliveryState
  <2>3. /\ lock' \in Senders \cup {None}
        /\ bodies' \in [RowIds -> Nat]
        /\ accepted' \in [RowIds -> Nat]
        /\ deferrals' \in 0..MaxDeferrals
    BY DEF Die, Idle, TypeOK, SenderState
  <2> QED  BY <2>1, <2>2, <2>3 DEF TypeOK
<1>2. RowsValid'
  BY DEF Die, Idle, TypeOK, RowsValid, ClaimsKnown, LockHeld, ResultsFinal, Row,
     SenderState, DeliveryState
<1>3. ClaimsKnown'
  BY DEF Die, Idle, TypeOK, ClaimsKnown, LockHeld, Row, SenderState, DeliveryState,
     StillClaimed, Holds, ClaimsDistinct
<1>4. LockHeld'
  BY DEF Die, Idle, TypeOK, LockHeld, ClaimsKnown, Row, SenderState, DeliveryState,
     StillClaimed
<1>5. ResultsFinal'
  BY DEF Die, Idle, TypeOK, ResultsFinal, Row, SenderState, DeliveryState
<1>6. ClaimsDistinct'
  <2>1. \A t \in Senders : Holds(t)' => Holds(t) /\ sender'[t].row = sender[t].row
    BY DEF Die, Idle, TypeOK, Row, SenderState, ClaimsKnown, LockHeld, Holds,
       StillClaimed
  <2> QED  BY <2>1, ClaimsStayDistinct
<1> QED  BY <1>1, <1>2, <1>3, <1>4, <1>5, <1>6

\* Nobody holds anything in an empty outbox.
LEMMA ClaimInvInit == Init => ClaimInv
  BY OutboxAssumption DEF Init, ClaimInv, TypeOK, Row, SenderState, DeliveryState,
     Idle, Holds,
     RowsValid, ClaimsKnown, LockHeld, ResultsFinal, ClaimsDistinct, StillClaimed

\* The steps of Next, one by one.
LEMMA NextCases ==
    ASSUME NEW P, Next,
           \A i \in RowIds, kind \in {"entry", "notice"}, suppressed \in BOOLEAN :
              Enqueue(i, kind, suppressed) => P,
           \A i \in RowIds : Suppress(i) => P,
           \A i \in RowIds, outcome \in {"confirmed", "failed"} : Resolve(i, outcome) => P,
           \A i \in RowIds : RetryFailed(i) => P,
           \A i \in RowIds : Elapse(i) => P,
           \A s \in Senders, i \in RowIds : Claim(s, i) => P,
           \A s \in Senders : Skip(s) => P,
           \A s \in Senders : Defer(s) => P,
           \A s \in Senders : Drop(s) => P,
           \A s \in Senders : Open(s) => P,
           \A s \in Senders : FailBeforeBody(s) => P,
           \A s \in Senders : SendBody(s) => P,
           \A s \in Senders : Finish(s) => P,
           \A s \in Senders : Die(s) => P
    PROVE  P
  BY DEF Next, Deliver

\* ClaimInv is inductive.
LEMMA ClaimInvNext == ASSUME ClaimInv, [Next]_vars PROVE ClaimInv'
<1>1. CASE Next
  BY <1>1, NextCases, EnqueueKeepsClaims, SuppressKeepsClaims, ResolveKeepsClaims,
     RetryFailedKeepsClaims, ElapseKeepsClaims, ClaimKeepsClaims, SkipKeepsClaims,
     DeferKeepsClaims, DropKeepsClaims, OpenKeepsClaims, FailBeforeBodyKeepsClaims,
     SendBodyKeepsClaims, FinishKeepsClaims, DieKeepsClaims
<1>2. CASE UNCHANGED vars
  BY <1>2 DEF vars, ClaimInv, TypeOK, RowsValid, ClaimsKnown, LockHeld, ResultsFinal,
     ClaimsDistinct, Holds, StillClaimed
<1> QED  BY <1>1, <1>2

\* The rows, the senders' memory and the lock always have their types.
THEOREM SpecTypeOK == Spec => []TypeOK
<1>1. ClaimInv => TypeOK
  BY DEF ClaimInv
<1> QED  BY <1>1, ClaimInvInit, ClaimInvNext, PTL DEF Spec

-----------------------------------------------------------------------------

\* The attempt a sender is still to make has been counted, and not yet used.
BodyInv ==
    /\ AttemptsCoverBodies
    /\ \A s \in Senders :
          Holds(s) /\ sender[s].pc # "result" =>
             bodies[sender[s].row] < outbox[sender[s].row].attempts
    /\ \A i \in RowIds : ~ Present(i) => bodies[i] = 0

\* BodyInv is inductive relative to ClaimInv.
LEMMA BodyInvNext == ASSUME ClaimInv, BodyInv, [Next]_vars PROVE BodyInv'
<1>1. ASSUME NEW i \in RowIds, NEW kind \in {"entry", "notice"},
       NEW suppressed \in BOOLEAN, Enqueue(i, kind, suppressed)
      PROVE  BodyInv'
  BY <1>1 DEF Enqueue, Present, BodyInv, AttemptsCoverBodies, ResultsFinal, ClaimInv,
     TypeOK, ClaimsKnown, ClaimsDistinct, LockHeld, Holds, StillClaimed, Row,
     SenderState
<1>2. ASSUME NEW i \in RowIds, Suppress(i)
      PROVE  BodyInv'
  BY <1>2 DEF Suppress, Present, BodyInv, AttemptsCoverBodies, ResultsFinal, ClaimInv,
     TypeOK, ClaimsKnown, ClaimsDistinct, LockHeld, Holds, StillClaimed, Row,
     SenderState
<1>3. ASSUME NEW i \in RowIds, NEW outcome \in {"confirmed", "failed"}, Resolve(i, outcome)
      PROVE  BodyInv'
  BY <1>3 DEF Resolve, BodyInv, AttemptsCoverBodies, Present, ResultsFinal, ClaimInv,
     TypeOK, ClaimsKnown, ClaimsDistinct, LockHeld, Holds, StillClaimed, Row,
     SenderState
<1>4. ASSUME NEW i \in RowIds, RetryFailed(i)
      PROVE  BodyInv'
  BY <1>4 DEF RetryFailed, BodyInv, AttemptsCoverBodies, Present, ResultsFinal,
     ClaimInv, TypeOK, ClaimsKnown, ClaimsDistinct, LockHeld, Holds, StillClaimed, Row,
     SenderState
<1>5. ASSUME NEW i \in RowIds, Elapse(i)
      PROVE  BodyInv'
  BY <1>5 DEF Elapse, Present, BodyInv, AttemptsCoverBodies, ResultsFinal, ClaimInv,
     TypeOK, ClaimsKnown, ClaimsDistinct, LockHeld, Holds, StillClaimed, Row,
     SenderState
<1>6. ASSUME NEW s \in Senders, NEW i \in RowIds, Claim(s, i)
      PROVE  BodyInv'
  BY <1>6 DEF Claim, Claimable, Idle, BodyInv, AttemptsCoverBodies, Present,
     ResultsFinal, ClaimInv, TypeOK, ClaimsKnown, ClaimsDistinct, LockHeld, Holds,
     StillClaimed, Row, SenderState
<1>7. ASSUME NEW s \in Senders, Skip(s)
      PROVE  BodyInv'
  BY <1>7 DEF Skip, Idle, BodyInv, AttemptsCoverBodies, Present, ResultsFinal,
     ClaimInv, TypeOK, ClaimsKnown, ClaimsDistinct, LockHeld, Holds, StillClaimed, Row,
     SenderState
<1>8. ASSUME NEW s \in Senders, Defer(s)
      PROVE  BodyInv'
  BY <1>8 DEF Defer, Unstarted, Idle, BodyInv, AttemptsCoverBodies, Present,
     ResultsFinal, ClaimInv, TypeOK, ClaimsKnown, ClaimsDistinct, LockHeld, Holds,
     StillClaimed, Row, SenderState
<1>9. ASSUME NEW s \in Senders, Drop(s)
      PROVE  BodyInv'
  BY <1>9 DEF Drop, Unstarted, Idle, BodyInv, AttemptsCoverBodies, Present,
     ResultsFinal, ClaimInv, TypeOK, ClaimsKnown, ClaimsDistinct, LockHeld, Holds,
     StillClaimed, Row, SenderState
<1>10. ASSUME NEW s \in Senders, Open(s)
      PROVE  BodyInv'
  BY <1>10 DEF Open, BodyInv, AttemptsCoverBodies, Present, ResultsFinal, ClaimInv,
     TypeOK, ClaimsKnown, ClaimsDistinct, LockHeld, Holds, StillClaimed, Row,
     SenderState
<1>11. ASSUME NEW s \in Senders, FailBeforeBody(s)
      PROVE  BodyInv'
  BY <1>11 DEF FailBeforeBody, Answer, BodyInv, AttemptsCoverBodies, Present,
     ResultsFinal, ClaimInv, TypeOK, ClaimsKnown, ClaimsDistinct, LockHeld, Holds,
     StillClaimed, Row, SenderState
<1>12. ASSUME NEW s \in Senders, SendBody(s)
      PROVE  BodyInv'
  BY <1>12 DEF SendBody, Reply, Answer, BodyInv, AttemptsCoverBodies, Present,
     ResultsFinal, ClaimInv, TypeOK, ClaimsKnown, ClaimsDistinct, LockHeld, Holds,
     StillClaimed, Row, SenderState
<1>13. ASSUME NEW s \in Senders, Finish(s)
      PROVE  BodyInv'
  BY <1>13 DEF Finish, Idle, BodyInv, AttemptsCoverBodies, Present, ResultsFinal,
     ClaimInv, TypeOK, ClaimsKnown, ClaimsDistinct, LockHeld, Holds, StillClaimed, Row,
     SenderState
<1>14. ASSUME NEW s \in Senders, Die(s)
      PROVE  BodyInv'
  BY <1>14 DEF Die, Idle, BodyInv, AttemptsCoverBodies, Present, ResultsFinal,
     ClaimInv, TypeOK, ClaimsKnown, ClaimsDistinct, LockHeld, Holds, StillClaimed, Row,
     SenderState
<1>15. CASE UNCHANGED vars
  BY <1>15 DEF vars, BodyInv, AttemptsCoverBodies, Present, Holds, StillClaimed
<1> QED  BY <1>1, <1>2, <1>3, <1>4, <1>5, <1>6, <1>7, <1>8, <1>9, <1>10, <1>11, <1>12,
       <1>13, <1>14, <1>15, NextCases

\* The attempts in a row cover every body sent for it, whatever is deferred,
\* retried by the operator or cut short (claim, defer_unstarted, retry_failed).
THEOREM SpecAttemptsCoverBodies == Spec => []AttemptsCoverBodies
<1>1. Init => BodyInv
  BY DEF Init, BodyInv, AttemptsCoverBodies, Present, Idle, Holds
<1>2. BodyInv => AttemptsCoverBodies
  BY DEF BodyInv
<1> QED  BY <1>1, <1>2, ClaimInvInit, ClaimInvNext, BodyInvNext, PTL DEF Spec

-----------------------------------------------------------------------------

\* What the row and the sender of its attempt know of the server.
AcceptInv ==
    /\ AcceptedAtMostOnce
    /\ StateTellsWhatWasAccepted
    /\ \A s \in Senders :
          /\ Holds(s) /\ sender[s].pc # "result" => accepted[sender[s].row] = 0
          /\ sender[s].pc = "result" =>
                /\ sender[s].result = "confirmed" => accepted[sender[s].row] = 1
                /\ sender[s].result = "failed" => accepted[sender[s].row] = 0

\* AcceptInv is inductive relative to ClaimInv, where replies carry a code.
LEMMA AcceptInvNext ==
    ASSUME ~ UnreadableReply, ClaimInv, AcceptInv, [Next]_vars
    PROVE  AcceptInv'
<1>1. ASSUME NEW i \in RowIds, NEW kind \in {"entry", "notice"},
       NEW suppressed \in BOOLEAN, Enqueue(i, kind, suppressed)
      PROVE  AcceptInv'
  BY <1>1 DEF Enqueue, Present, AcceptInv, AcceptedAtMostOnce,
     StateTellsWhatWasAccepted, ClaimInv, TypeOK, ClaimsKnown, ClaimsDistinct,
     LockHeld, ResultsFinal, Holds, StillClaimed, Row, SenderState
<1>2. ASSUME NEW i \in RowIds, Suppress(i)
      PROVE  AcceptInv'
  BY <1>2 DEF Suppress, Present, AcceptInv, AcceptedAtMostOnce,
     StateTellsWhatWasAccepted, ClaimInv, TypeOK, ClaimsKnown, ClaimsDistinct,
     LockHeld, ResultsFinal, Holds, StillClaimed, Row, SenderState
<1>3. ASSUME NEW i \in RowIds, NEW outcome \in {"confirmed", "failed"}, Resolve(i, outcome)
      PROVE  AcceptInv'
  BY <1>3 DEF Resolve, AcceptInv, AcceptedAtMostOnce, StateTellsWhatWasAccepted,
     ClaimInv, TypeOK, ClaimsKnown, ClaimsDistinct, LockHeld, ResultsFinal, Holds,
     StillClaimed, Row, SenderState
<1>4. ASSUME NEW i \in RowIds, RetryFailed(i)
      PROVE  AcceptInv'
  BY <1>4 DEF RetryFailed, AcceptInv, AcceptedAtMostOnce, StateTellsWhatWasAccepted,
     ClaimInv, TypeOK, ClaimsKnown, ClaimsDistinct, LockHeld, ResultsFinal, Holds,
     StillClaimed, Row, SenderState
<1>5. ASSUME NEW i \in RowIds, Elapse(i)
      PROVE  AcceptInv'
  BY <1>5 DEF Elapse, Present, AcceptInv, AcceptedAtMostOnce,
     StateTellsWhatWasAccepted, ClaimInv, TypeOK, ClaimsKnown, ClaimsDistinct,
     LockHeld, ResultsFinal, Holds, StillClaimed, Row, SenderState
<1>6. ASSUME NEW s \in Senders, NEW i \in RowIds, Claim(s, i)
      PROVE  AcceptInv'
  BY <1>6 DEF Claim, Claimable, Idle, AcceptInv, AcceptedAtMostOnce,
     StateTellsWhatWasAccepted, ClaimInv, TypeOK, ClaimsKnown, ClaimsDistinct,
     LockHeld, ResultsFinal, Holds, StillClaimed, Row, SenderState
<1>7. ASSUME NEW s \in Senders, Skip(s)
      PROVE  AcceptInv'
  BY <1>7 DEF Skip, Idle, AcceptInv, AcceptedAtMostOnce, StateTellsWhatWasAccepted,
     ClaimInv, TypeOK, ClaimsKnown, ClaimsDistinct, LockHeld, ResultsFinal, Holds,
     StillClaimed, Row, SenderState
<1>8. ASSUME NEW s \in Senders, Defer(s)
      PROVE  AcceptInv'
  BY <1>8 DEF Defer, Unstarted, Idle, AcceptInv, AcceptedAtMostOnce,
     StateTellsWhatWasAccepted, ClaimInv, TypeOK, ClaimsKnown, ClaimsDistinct,
     LockHeld, ResultsFinal, Holds, StillClaimed, Row, SenderState
<1>9. ASSUME NEW s \in Senders, Drop(s)
      PROVE  AcceptInv'
  BY <1>9 DEF Drop, Unstarted, Idle, AcceptInv, AcceptedAtMostOnce,
     StateTellsWhatWasAccepted, ClaimInv, TypeOK, ClaimsKnown, ClaimsDistinct,
     LockHeld, ResultsFinal, Holds, StillClaimed, Row, SenderState
<1>10. ASSUME NEW s \in Senders, Open(s)
      PROVE  AcceptInv'
  BY <1>10 DEF Open, AcceptInv, AcceptedAtMostOnce, StateTellsWhatWasAccepted,
     ClaimInv, TypeOK, ClaimsKnown, ClaimsDistinct, LockHeld, ResultsFinal, Holds,
     StillClaimed, Row, SenderState
<1>11. ASSUME NEW s \in Senders, FailBeforeBody(s)
      PROVE  AcceptInv'
  BY <1>11 DEF FailBeforeBody, Answer, AcceptInv, AcceptedAtMostOnce,
     StateTellsWhatWasAccepted, ClaimInv, TypeOK, ClaimsKnown, ClaimsDistinct,
     LockHeld, ResultsFinal, Holds, StillClaimed, Row, SenderState
<1>12. ASSUME NEW s \in Senders, SendBody(s)
      PROVE  AcceptInv'
  BY <1>12 DEF SendBody, Reply, Answer, AcceptInv, AcceptedAtMostOnce,
     StateTellsWhatWasAccepted, ClaimInv, TypeOK, ClaimsKnown, ClaimsDistinct,
     LockHeld, ResultsFinal, Holds, StillClaimed, Row, SenderState
<1>13. ASSUME NEW s \in Senders, Finish(s)
      PROVE  AcceptInv'
  BY <1>13 DEF Finish, Idle, AcceptInv, AcceptedAtMostOnce, StateTellsWhatWasAccepted,
     ClaimInv, TypeOK, ClaimsKnown, ClaimsDistinct, LockHeld, ResultsFinal, Holds,
     StillClaimed, Row, SenderState
<1>14. ASSUME NEW s \in Senders, Die(s)
      PROVE  AcceptInv'
  BY <1>14 DEF Die, Idle, AcceptInv, AcceptedAtMostOnce, StateTellsWhatWasAccepted,
     ClaimInv, TypeOK, ClaimsKnown, ClaimsDistinct, LockHeld, ResultsFinal, Holds,
     StillClaimed, Row, SenderState
<1>15. CASE UNCHANGED vars
  BY <1>15 DEF vars, AcceptInv, AcceptedAtMostOnce, StateTellsWhatWasAccepted, Holds,
     StillClaimed
<1> QED  BY <1>1, <1>2, <1>3, <1>4, <1>5, <1>6, <1>7, <1>8, <1>9, <1>10, <1>11, <1>12,
       <1>13, <1>14, <1>15, NextCases

\* Nothing was accepted before the first row.
LEMMA AcceptInvInit == Init => AcceptInv
  BY DEF Init, AcceptInv, AcceptedAtMostOnce, StateTellsWhatWasAccepted, Idle, Holds

\* However senders interleave, die or are turned away, and whenever the
\* operator steps in, no mail is accepted twice (deliver, claim, resolve),
\* given servers whose replies carry a code.
THEOREM SpecAcceptedAtMostOnce ==
    ASSUME ~ UnreadableReply
    PROVE  Spec => []AcceptedAtMostOnce
<1>1. AcceptInv => AcceptedAtMostOnce
  BY DEF AcceptInv
<1>2. ClaimInv /\ AcceptInv /\ [Next]_vars => AcceptInv'
  BY AcceptInvNext
<1> QED  BY <1>1, <1>2, AcceptInvInit, ClaimInvInit, ClaimInvNext, PTL DEF Spec

\* Given such servers, a pending or failed row was not accepted and a
\* confirmed one was, in every state (finish, resolve, defer_unstarted).
THEOREM SpecStateTellsWhatWasAccepted ==
    ASSUME ~ UnreadableReply
    PROVE  Spec => []StateTellsWhatWasAccepted
<1>1. AcceptInv => StateTellsWhatWasAccepted
  BY DEF AcceptInv
<1>2. ClaimInv /\ AcceptInv /\ [Next]_vars => AcceptInv'
  BY AcceptInvNext
<1> QED  BY <1>1, <1>2, AcceptInvInit, ClaimInvInit, ClaimInvNext, PTL DEF Spec

-----------------------------------------------------------------------------

\* A row that a sender may still send is not suppressed: an entry from the
\* moment the lock is taken, a notice from its claim.
OpenInv ==
    \A s \in Senders :
       Holds(s) /\ (sender[s].pc # "claimed" \/ outbox[sender[s].row].kind = "notice") =>
          ~ outbox[sender[s].row].suppressed

\* OpenInv is inductive relative to ClaimInv.
LEMMA OpenInvNext == ASSUME ClaimInv, OpenInv, [Next]_vars PROVE OpenInv'
<1>1. ASSUME NEW i \in RowIds, NEW kind \in {"entry", "notice"},
       NEW suppressed \in BOOLEAN, Enqueue(i, kind, suppressed)
      PROVE  OpenInv'
  BY <1>1 DEF Enqueue, Present, OpenInv, ClaimInv, TypeOK, ClaimsKnown, ClaimsDistinct,
     LockHeld, Holds, StillClaimed, Row, SenderState
<1>2. ASSUME NEW i \in RowIds, Suppress(i)
      PROVE  OpenInv'
  <2>1. \A t \in Senders : Holds(t) => sender[t].pc = "claimed"
    BY <1>2, OutboxAssumption DEF Suppress, ClaimInv, TypeOK, SenderState, LockHeld,
       Holds
  <2> QED  BY <1>2, <2>1 DEF Suppress, OpenInv, ClaimInv, TypeOK, Holds, StillClaimed,
         Row
<1>3. ASSUME NEW i \in RowIds, NEW outcome \in {"confirmed", "failed"}, Resolve(i, outcome)
      PROVE  OpenInv'
  BY <1>3 DEF Resolve, OpenInv, ClaimInv, TypeOK, ClaimsKnown, ClaimsDistinct,
     LockHeld, Holds, StillClaimed, Row, SenderState
<1>4. ASSUME NEW i \in RowIds, RetryFailed(i)
      PROVE  OpenInv'
  BY <1>4 DEF RetryFailed, OpenInv, ClaimInv, TypeOK, ClaimsKnown, ClaimsDistinct,
     LockHeld, Holds, StillClaimed, Row, SenderState
<1>5. ASSUME NEW i \in RowIds, Elapse(i)
      PROVE  OpenInv'
  BY <1>5 DEF Elapse, Present, OpenInv, ClaimInv, TypeOK, ClaimsKnown, ClaimsDistinct,
     LockHeld, Holds, StillClaimed, Row, SenderState
<1>6. ASSUME NEW s \in Senders, NEW i \in RowIds, Claim(s, i)
      PROVE  OpenInv'
  BY <1>6 DEF Claim, Claimable, Idle, OpenInv, ClaimInv, TypeOK, ClaimsKnown,
     ClaimsDistinct, LockHeld, Holds, StillClaimed, Row, SenderState
<1>7. ASSUME NEW s \in Senders, Skip(s)
      PROVE  OpenInv'
  BY <1>7 DEF Skip, Idle, OpenInv, ClaimInv, TypeOK, ClaimsKnown, ClaimsDistinct,
     LockHeld, Holds, StillClaimed, Row, SenderState
<1>8. ASSUME NEW s \in Senders, Defer(s)
      PROVE  OpenInv'
  BY <1>8 DEF Defer, Unstarted, Idle, OpenInv, ClaimInv, TypeOK, ClaimsKnown,
     ClaimsDistinct, LockHeld, Holds, StillClaimed, Row, SenderState
<1>9. ASSUME NEW s \in Senders, Drop(s)
      PROVE  OpenInv'
  BY <1>9 DEF Drop, Unstarted, Idle, OpenInv, ClaimInv, TypeOK, ClaimsKnown,
     ClaimsDistinct, LockHeld, Holds, StillClaimed, Row, SenderState
<1>10. ASSUME NEW s \in Senders, Open(s)
      PROVE  OpenInv'
  BY <1>10 DEF Open, OpenInv, ClaimInv, TypeOK, ClaimsKnown, ClaimsDistinct, LockHeld,
     Holds, StillClaimed, Row, SenderState
<1>11. ASSUME NEW s \in Senders, FailBeforeBody(s)
      PROVE  OpenInv'
  BY <1>11 DEF FailBeforeBody, Answer, OpenInv, ClaimInv, TypeOK, ClaimsKnown,
     ClaimsDistinct, LockHeld, Holds, StillClaimed, Row, SenderState
<1>12. ASSUME NEW s \in Senders, SendBody(s)
      PROVE  OpenInv'
  BY <1>12 DEF SendBody, Reply, Answer, OpenInv, ClaimInv, TypeOK, ClaimsKnown,
     ClaimsDistinct, LockHeld, Holds, StillClaimed, Row, SenderState
<1>13. ASSUME NEW s \in Senders, Finish(s)
      PROVE  OpenInv'
  BY <1>13 DEF Finish, Idle, OpenInv, ClaimInv, TypeOK, ClaimsKnown, ClaimsDistinct,
     LockHeld, Holds, StillClaimed, Row, SenderState
<1>14. ASSUME NEW s \in Senders, Die(s)
      PROVE  OpenInv'
  BY <1>14 DEF Die, Idle, OpenInv, ClaimInv, TypeOK, ClaimsKnown, ClaimsDistinct,
     LockHeld, Holds, StillClaimed, Row, SenderState
<1>15. CASE UNCHANGED vars
  BY <1>15 DEF vars, OpenInv, Holds, StillClaimed
<1> QED  BY <1>1, <1>2, <1>3, <1>4, <1>5, <1>6, <1>7, <1>8, <1>9, <1>10, <1>11, <1>12,
       <1>13, <1>14, <1>15, NextCases

\* Only a step that hands a body to the server counts one, and its row is not
\* suppressed (_prepare_entry inside the second transaction of deliver).
THEOREM SpecSuppressedIsNotSent == Spec => SuppressedIsNotSent
<1> DEFINE Sent == \A i \in RowIds : bodies'[i] > bodies[i] => ~ outbox[i].suppressed
<1>1. ASSUME ClaimInv, OpenInv, Next
      PROVE  Sent
  <2>1. ASSUME NEW s \in Senders, SendBody(s)
        PROVE  Sent
    <3>1. sender[s].row \in RowIds /\ ~ outbox[sender[s].row].suppressed
      BY <1>1, <2>1 DEF SendBody, OpenInv, ClaimInv, ClaimsKnown, LockHeld, Holds
    <3>2. \A i \in RowIds : i # sender[s].row => bodies'[i] = bodies[i]
      BY <1>1, <2>1 DEF SendBody, ClaimInv, TypeOK
    <3>3. \A i \in RowIds : bodies[i] \in Nat
      BY <1>1 DEF ClaimInv, TypeOK
    <3> QED  BY <3>1, <3>2, <3>3
  <2>2. ASSUME UNCHANGED bodies
        PROVE  Sent
    BY <1>1, <2>2 DEF ClaimInv, TypeOK
  <2> QED
    BY <1>1, <2>1, <2>2, NextCases DEF Enqueue, Suppress, Resolve, RetryFailed, Elapse,
       Claim,
       Skip, Defer, Drop, Open, FailBeforeBody, Finish, Die
<1>2. ClaimInv /\ OpenInv /\ [Next]_vars => [Sent]_vars
  BY <1>1
<1>3. Init => OpenInv
  BY DEF Init, OpenInv, Idle, Holds
<1> QED  BY <1>2, <1>3, ClaimInvInit, ClaimInvNext, OpenInvNext, PTL DEF Spec,
       SuppressedIsNotSent
=============================================================================
