------------------------------ MODULE EmailOutbox ------------------------------
(***************************************************************************)
(* The e-mail outbox: table outbox of NotificationStore, the senders that  *)
(* run EmailAlerts.deliver on it, SmtpTransport.send, and the operator who *)
(* resolves and retries rows (mu_strategy/notifications).                  *)
(*                                                                         *)
(* deliver works on a row in two transactions: the first claims it and     *)
(* commits it as unknown, the second holds the database lock through the   *)
(* SMTP conversation and writes the result.  A sender killed, or turned    *)
(* away from the lock after sqlite3's timeout, leaves the row as the first *)
(* transaction left it.                                                    *)
(*                                                                         *)
(* Time enters only as the question whether next_attempt_ms has passed     *)
(* (due); what collect decides, and what the health journal and the        *)
(* observation log say of an entry before it is sent, is left open here.   *)
(***************************************************************************)
EXTENDS Integers

CONSTANTS
    Senders,         \* processes running deliver
    RowCount,        \* bound on the rows of the outbox
    MaxAttempts,     \* max_attempts of claim
    MaxDeferrals,    \* bound on the deferrals before transport
    UnreadableReply, \* whether a server may answer the body without a reply code
    None

ASSUME OutboxAssumption ==
    /\ RowCount \in Nat
    /\ MaxAttempts \in Nat \ {0}
    /\ MaxDeferrals \in Nat
    /\ UnreadableReply \in BOOLEAN
    /\ None \notin Senders

VARIABLES
    outbox,          \* the rows, in rowid order
    sender,          \* deliver calls in progress
    lock,            \* the sender whose second transaction is open
    bodies,          \* how often the body of a row was handed to the server
    accepted,        \* how often the server took the message
    deferrals

vars == <<outbox, sender, lock, bodies, accepted, deferrals>>

RowIds == 1..RowCount

DeliveryState == {"pending", "confirmed", "failed", "unknown"}

Row ==
    [kind : {"entry", "notice"}, state : DeliveryState \cup {"absent"}, attempts : 0..MaxAttempts,
     retryable : BOOLEAN, due : BOOLEAN, suppressed : BOOLEAN]

Idle == [pc |-> "idle", row |-> None, attempts |-> 0, result |-> None, retryable |-> FALSE]

SenderState ==
    [pc : {"idle", "claimed", "open", "result"}, row : RowIds \cup {None},
     attempts : 0..MaxAttempts, result : DeliveryState \cup {None}, retryable : BOOLEAN]

TypeOK ==
    /\ outbox \in [RowIds -> Row]
    /\ sender \in [Senders -> SenderState]
    /\ lock \in Senders \cup {None}
    /\ bodies \in [RowIds -> Nat]
    /\ accepted \in [RowIds -> Nat]
    /\ deferrals \in 0..MaxDeferrals

-----------------------------------------------------------------------------
(* The collector                                                           *)

Present(i) == outbox[i].state # "absent"

\* enqueue: a new event is the last row, and may be born suppressed.  An
\* event that is there already changes nothing.
Enqueue(i, kind, suppressed) ==
    /\ lock = None
    /\ ~ Present(i)
    /\ \A j \in RowIds : j < i => Present(j)
    /\ outbox' = [outbox EXCEPT ![i] =
                    [kind |-> kind, state |-> "pending", attempts |-> 0,
                     retryable |-> FALSE, due |-> TRUE, suppressed |-> suppressed]]
    /\ UNCHANGED <<sender, lock, bodies, accepted, deferrals>>

\* suppress: only entry reminders are suppressed later on.
Suppress(i) ==
    /\ lock = None
    /\ Present(i)
    /\ outbox[i].kind = "entry"
    /\ ~ outbox[i].suppressed
    /\ outbox' = [outbox EXCEPT ![i].suppressed = TRUE]
    /\ UNCHANGED <<sender, lock, bodies, accepted, deferrals>>

-----------------------------------------------------------------------------
(* deliver                                                                 *)

\* Variant: the limit is not part of the query.
ClaimableWithoutLimit(i) ==
    /\ ~ outbox[i].suppressed
    /\ outbox[i].due
    /\ \/ outbox[i].state = "pending"
       \/ outbox[i].state = "failed" /\ outbox[i].retryable

Claimable(i) ==
    /\ ~ outbox[i].suppressed
    /\ outbox[i].attempts < MaxAttempts
    /\ outbox[i].due
    /\ \/ outbox[i].state = "pending"
       \/ outbox[i].state = "failed" /\ outbox[i].retryable

\* Variant: the oldest unfinished row is waited for.
ClaimHead(s, i) ==
    /\ sender[s].pc = "idle"
    /\ lock = None
    /\ Claimable(i)
    /\ \A j \in RowIds : j < i => outbox[j].state = "confirmed"
    /\ outbox' = [outbox EXCEPT ![i].state = "unknown", ![i].retryable = FALSE,
                                ![i].attempts = @ + 1]
    /\ sender' = [sender EXCEPT ![s] = [Idle EXCEPT !.pc = "claimed", !.row = i,
                                                    !.attempts = outbox[i].attempts + 1]]
    /\ UNCHANGED <<lock, bodies, accepted, deferrals>>

\* claim, the first transaction: the first claimable row in rowid order.
Claim(s, i) ==
    /\ sender[s].pc = "idle"
    /\ lock = None
    /\ Claimable(i)
    /\ \A j \in RowIds : j < i => ~ Claimable(j)
    /\ outbox' = [outbox EXCEPT ![i].state = "unknown", ![i].retryable = FALSE,
                                ![i].attempts = @ + 1]
    /\ sender' = [sender EXCEPT ![s] = [Idle EXCEPT !.pc = "claimed", !.row = i,
                                                    !.attempts = outbox[i].attempts + 1]]
    /\ UNCHANGED <<lock, bodies, accepted, deferrals>>

\* Variant: the attempt number is not compared.
StillClaimedByState(s) == outbox[sender[s].row].state = "unknown"

\* The second transaction goes on only with the attempt that was claimed.
StillClaimed(s) ==
    /\ outbox[sender[s].row].state = "unknown"
    /\ outbox[sender[s].row].attempts = sender[s].attempts

Skip(s) ==
    /\ sender[s].pc = "claimed"
    /\ lock = None
    /\ ~ StillClaimed(s)
    /\ sender' = [sender EXCEPT ![s] = Idle]
    /\ UNCHANGED <<outbox, lock, bodies, accepted, deferrals>>

\* Transport was not called: the attempt is given back, for 30 seconds later.
Unstarted(row) == [row EXCEPT !.state = "pending", !.attempts = @ - 1,
                              !.retryable = FALSE, !.due = FALSE]

\* defer_unstarted before transport: the fence is busy, or the source is not
\* readable or not caught up with.
Defer(s) ==
    /\ sender[s].pc = "claimed"
    /\ lock = None
    /\ StillClaimed(s)
    /\ outbox[sender[s].row].kind = "entry"
    /\ deferrals < MaxDeferrals
    /\ deferrals' = deferrals + 1
    /\ outbox' = [outbox EXCEPT ![sender[s].row] = Unstarted(@)]
    /\ sender' = [sender EXCEPT ![s] = Idle]
    /\ UNCHANGED <<lock, bodies, accepted>>

\* _prepare_entry finds the entry suppressed, expired or changed.
Drop(s) ==
    /\ sender[s].pc = "claimed"
    /\ lock = None
    /\ StillClaimed(s)
    /\ outbox[sender[s].row].kind = "entry"
    /\ outbox' = [outbox EXCEPT ![sender[s].row] = [Unstarted(@) EXCEPT !.suppressed = TRUE]]
    /\ sender' = [sender EXCEPT ![s] = Idle]
    /\ UNCHANGED <<lock, bodies, accepted, deferrals>>

\* Variant: suppression is not looked at again.
OpenUnchecked(s) ==
    /\ sender[s].pc = "claimed"
    /\ lock = None
    /\ StillClaimed(s)
    /\ lock' = s
    /\ sender' = [sender EXCEPT ![s].pc = "open"]
    /\ UNCHANGED <<outbox, bodies, accepted, deferrals>>

\* The row is still to be sent: the transaction stays open for the transport.
Open(s) ==
    /\ sender[s].pc = "claimed"
    /\ lock = None
    /\ StillClaimed(s)
    /\ outbox[sender[s].row].kind = "entry" => ~ outbox[sender[s].row].suppressed
    /\ lock' = s
    /\ sender' = [sender EXCEPT ![s].pc = "open"]
    /\ UNCHANGED <<outbox, bodies, accepted, deferrals>>

-----------------------------------------------------------------------------
(* SmtpTransport.send                                                      *)

Answer(s, state, retryable) ==
    sender' = [sender EXCEPT ![s].pc = "result", ![s].result = state,
                             ![s].retryable = retryable]

\* Connection, login, envelope or the last look at the source fails: no body
\* was sent.
FailBeforeBody(s) ==
    /\ sender[s].pc = "open"
    /\ \E retryable \in BOOLEAN : Answer(s, "failed", retryable)
    /\ UNCHANGED <<outbox, lock, bodies, accepted, deferrals>>

\* Variant: a lost reply is taken for a refusal.
ReplyTakingSilenceForRefusal(s, taken) ==
    \/ taken = 1 /\ Answer(s, "confirmed", FALSE)
    \/ taken = 0 /\ \E retryable \in BOOLEAN : Answer(s, "failed", retryable)
    \/ Answer(s, "failed", TRUE)

\* The reply to the body: accepted, refused, lost, or without a reply code,
\* which getreply reports as -1 and send takes for a refusal.
Reply(s, taken) ==
    \/ taken = 1 /\ Answer(s, "confirmed", FALSE)
    \/ taken = 0 /\ \E retryable \in BOOLEAN : Answer(s, "failed", retryable)
    \/ Answer(s, "unknown", FALSE)
    \/ UnreadableReply /\ Answer(s, "failed", FALSE)

SendBody(s) ==
    /\ sender[s].pc = "open"
    /\ \E taken \in {0, 1} :
          /\ Reply(s, taken)
          /\ accepted' = [accepted EXCEPT ![sender[s].row] = @ + taken]
    /\ bodies' = [bodies EXCEPT ![sender[s].row] = @ + 1]
    /\ UNCHANGED <<outbox, lock, deferrals>>

\* finish, and the end of the second transaction.
Finish(s) ==
    /\ sender[s].pc = "result"
    /\ outbox' = [outbox EXCEPT ![sender[s].row].state = sender[s].result,
                                ![sender[s].row].retryable = sender[s].retryable,
                                ![sender[s].row].due = FALSE]
    /\ sender' = [sender EXCEPT ![s] = Idle]
    /\ lock' = None
    /\ UNCHANGED <<bodies, accepted, deferrals>>

\* The sender is killed, or the database turns it away: what its open
\* transaction wrote is rolled back.
Die(s) ==
    /\ sender[s].pc # "idle"
    /\ sender' = [sender EXCEPT ![s] = Idle]
    /\ lock' = IF lock = s THEN None ELSE lock
    /\ UNCHANGED <<outbox, bodies, accepted, deferrals>>

-----------------------------------------------------------------------------
(* The operator, who has looked the message up as the documentation asks,  *)
(* and the clock                                                           *)

Resolve(i, outcome) ==
    /\ lock = None
    /\ outbox[i].state = "unknown"
    /\ outcome = "confirmed" <=> accepted[i] > 0
    /\ outbox' = [outbox EXCEPT ![i].state = outcome, ![i].retryable = FALSE, ![i].due = FALSE]
    /\ UNCHANGED <<sender, lock, bodies, accepted, deferrals>>

\* Variant: a retry starts counting again.
RetryFromScratch(i) ==
    /\ lock = None
    /\ outbox[i].state = "failed"
    /\ outbox[i].attempts < MaxAttempts
    /\ ~ outbox[i].suppressed
    /\ outbox' = [outbox EXCEPT ![i].retryable = TRUE, ![i].due = TRUE, ![i].attempts = 0]
    /\ UNCHANGED <<sender, lock, bodies, accepted, deferrals>>

RetryFailed(i) ==
    /\ lock = None
    /\ outbox[i].state = "failed"
    /\ outbox[i].attempts < MaxAttempts
    /\ ~ outbox[i].suppressed
    /\ outbox' = [outbox EXCEPT ![i].retryable = TRUE, ![i].due = TRUE]
    /\ UNCHANGED <<sender, lock, bodies, accepted, deferrals>>

\* next_attempt_ms passes.
Elapse(i) ==
    /\ Present(i)
    /\ ~ outbox[i].due
    /\ outbox' = [outbox EXCEPT ![i].due = TRUE]
    /\ UNCHANGED <<sender, lock, bodies, accepted, deferrals>>

-----------------------------------------------------------------------------

Init ==
    /\ outbox = [i \in RowIds |->
                   [kind |-> "notice", state |-> "absent", attempts |-> 0,
                    retryable |-> FALSE, due |-> FALSE, suppressed |-> FALSE]]
    /\ sender = [s \in Senders |-> Idle]
    /\ lock = None
    /\ bodies = [i \in RowIds |-> 0]
    /\ accepted = [i \in RowIds |-> 0]
    /\ deferrals = 0

Deliver(s) ==
    \/ \E i \in RowIds : Claim(s, i)
    \/ Skip(s)
    \/ Defer(s)
    \/ Drop(s)
    \/ Open(s)
    \/ FailBeforeBody(s)
    \/ SendBody(s)
    \/ Finish(s)

Next ==
    \/ \E i \in RowIds :
          \/ \E kind \in {"entry", "notice"}, suppressed \in BOOLEAN : Enqueue(i, kind, suppressed)
          \/ Suppress(i)
          \/ \E outcome \in {"confirmed", "failed"} : Resolve(i, outcome)
          \/ RetryFailed(i)
          \/ Elapse(i)
    \/ \E s \in Senders : Deliver(s) \/ Die(s)

Spec == Init /\ [][Next]_vars

\* The polling loop runs deliver again and again, and time passes.
Fairness ==
    /\ \A s \in Senders : WF_vars(Deliver(s))
    /\ \A i \in RowIds : WF_vars(Elapse(i))

FairSpec == Spec /\ Fairness

-----------------------------------------------------------------------------
(* Properties                                                              *)

\* No mail is accepted twice, by any senders that run at once, die or are
\* turned away, as long as the operator resolves by what really happened
\* (unknown before transport, and the comparison of state and attempt).
AcceptedAtMostOnce == \A i \in RowIds : accepted[i] <= 1

\* What a row says is true: a pending or failed message was definitely not
\* accepted, a confirmed one was (docs/email-alerts.md:78-81).
StateTellsWhatWasAccepted ==
    \A i \in RowIds :
        /\ outbox[i].state \in {"absent", "pending", "failed"} => accepted[i] = 0
        /\ outbox[i].state = "confirmed" => accepted[i] = 1

\* The attempts written in a row cover every body that was sent for it, so
\* that claim bounds the bodies although a deferral gives its attempt back.
AttemptsCoverBodies ==
    \A i \in RowIds : bodies[i] <= outbox[i].attempts

\* No body is sent for a message that is suppressed, also when it was
\* suppressed between the two transactions of deliver.
SuppressedIsNotSent ==
    [][\A i \in RowIds : bodies'[i] > bodies[i] => ~ outbox[i].suppressed]_vars

\* A row that is to be sent does not stay pending for ever behind rows that
\* fail, are suppressed or stay unknown.
NoRowWaitsForEver ==
    \A i \in RowIds :
        outbox[i].state = "pending" ~> (outbox[i].state # "pending" \/ outbox[i].suppressed)
=============================================================================
