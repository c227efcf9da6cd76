---------------------------- MODULE ManualLedger ----------------------------
(***************************************************************************)
(* The ledger of manually recorded fills (manual_positions.py), the pages  *)
(* that write to it and the gate of the rule review                        *)
(* (position_management.py).  A page shows the ledger at one moment and is *)
(* submitted at any later one, again and again: an answer may be lost, and *)
(* a page in another tab may have changed the position in between.  Every  *)
(* save is one IMMEDIATE transaction, so it is one action; the look at the *)
(* saved requests before it decides nothing that is not decided again in   *)
(* the transaction.                                                        *)
(*                                                                         *)
(* The three tables only grow.  What a page showed is therefore given by   *)
(* the lengths the tables had when it was rendered, and a version of a     *)
(* fill is its row number.  Prices, labels, units of measure and notes are *)
(* left out; forms that fail the check of a field change nothing and are   *)
(* not steps.                                                              *)
(***************************************************************************)
EXTENDS Integers, FiniteSets, Sequences, FiniteSetsExt, Functions

CONSTANTS Positions,  \* identities of positions
          Requests,   \* identities of rendered forms
          FillForms,  \* bound: what a fill form can be submitted with
          StateForms, \* bound: what a state form can be submitted with
          MaxStage    \* steps of the frozen baseline configuration

VARIABLES pages,        \* what each request identity was rendered for
          fills,        \* table fill_revisions, in the order of sequence
          states,       \* table position_state_revisions
          managements   \* table position_management_revisions

ledger == <<pages, fills, states, managements>>

\* Stage 0 is a stage left blank; stop says whether a stop was written.
ASSUME FormsAssumption ==
    /\ FillForms \subseteq [action : {"buy", "sell"}, units : Nat \ {0}, time : Nat, voided : BOOLEAN]
    /\ StateForms \subseteq [stage : 0..MaxStage, stop : BOOLEAN]

Unopened == [kind |-> "unopened"]

LedgerInit ==
    /\ pages = [r \in Requests |-> Unopened]
    /\ fills = <<>> /\ states = <<>> /\ managements = <<>>

-----------------------------------------------------------------------------
(* Reading: the replay of the latest revisions, and the statuses.          *)

Of(rows, p, n) == {i \in 1..n : rows[i].position = p}
Newest(rows, p, n) == Max({0} \union Of(rows, p, n))

\* The latest revision of each fill of p among the first n rows.
Latest(p, n) ==
    {i \in Of(fills, p, n) : \A j \in i + 1..n : fills[j].fill # fills[i].fill}

First(i) == Min({j \in 1..i : fills[j].fill = fills[i].fill})

\* Fills are replayed by execution time, then by their first submission.
Precedes(i, j) ==
    \/ fills[i].time < fills[j].time
    \/ fills[i].time = fills[j].time /\ First(i) < First(j)

Active(p) == {i \in Latest(p, Len(fills)) : ~fills[i].voided}
Buys(p) == {i \in Active(p) : fills[i].action = "buy"}

Units(S, action) ==
    SumFunction([i \in {j \in S : fills[j].action = action} |-> fills[i].units])

Quantity(S) == Units(S, "buy") - Units(S, "sell")

\* _project raises for a sale of more than is held and for a purchase after
\* everything was sold.
Replays(p) ==
    \A i \in Active(p) :
        LET before == {j \in Active(p) : Precedes(j, i)}
        IN  IF fills[i].action = "buy"
            THEN before = {} \/ Quantity(before) > 0
            ELSE fills[i].units <= Quantity(before)

Created(p) == Of(fills, p, Len(fills)) # {}
IsOpen(p) == Quantity(Active(p)) > 0

FillSequence(p) == Newest(fills, p, Len(fills))
StateRevision(p) == Newest(states, p, Len(states))
ManagementRevision(p) == Newest(managements, p, Len(managements))

StateStatus(p) ==
    CASE ~IsOpen(p) -> "not_open"
      [] IsOpen(p) /\ StateRevision(p) = 0 -> "unconfirmed"
      [] OTHER -> IF states[StateRevision(p)].fills = FillSequence(p)
                  THEN "confirmed" ELSE "needs_review"

\* The stage that current_state shows: only of a confirmed state.
Stage(p) == IF StateStatus(p) = "confirmed" THEN states[StateRevision(p)].stage ELSE 0

ManagementStatus(p) ==
    CASE ~IsOpen(p) -> "not_open"
      [] IsOpen(p) /\ ManagementRevision(p) = 0 -> "unconfigured"
      [] OTHER -> LET m == managements[ManagementRevision(p)]
                  IN  IF m.fills = FillSequence(p) /\ m.state = StateRevision(p)
                      THEN "confirmed" ELSE "needs_review"

-----------------------------------------------------------------------------
(* The gate of the rule review.                                            *)

\* project_rule_fills: all current buys are mapped, in the revisions that
\* were confirmed, and the stages advance from 1 without a gap to the
\* confirmed one.
Mapped(p, m) ==
    /\ m.versions = Buys(p)
    /\ LET stage(i) == m.stages[fills[i].fill]
       IN  /\ {stage(i) : i \in Buys(p)} = 1..Stage(p)
           /\ \A i, j \in Buys(p) : Precedes(i, j) => stage(i) <= stage(j)

\* management_checks, all of them.
Reviewable(p) ==
    /\ IsOpen(p)
    /\ StateStatus(p) = "confirmed"
    /\ Stage(p) # 0
    /\ states[StateRevision(p)].stop
    /\ Active(p) = Buys(p)
    /\ ManagementStatus(p) = "confirmed"
    /\ managements[ManagementRevision(p)].known
    /\ Mapped(p, managements[ManagementRevision(p)])

-----------------------------------------------------------------------------
(* Pages.                                                                  *)

Shown == [fills |-> Len(fills), states |-> Len(states), managements |-> Len(managements)]

\* target: the version of the fill to be revised, 0 when none is.
Render(r, kind, p, target) ==
    /\ pages[r] = Unopened
    /\ pages' = [pages EXCEPT ![r] =
           [kind |-> kind, position |-> p, target |-> target, shown |-> Shown]]
    /\ UNCHANGED <<fills, states, managements>>

\* The identity of a new position is made with its page.
OpenCreate(r, p) ==
    /\ ~Created(p)
    /\ \A q \in Requests : pages[q] # Unopened => pages[q].position # p
    /\ Render(r, "create", p, 0)

OpenAppend(r, p) == Created(p) /\ Render(r, "append", p, 0)

OpenRevise(r, p) == \E i \in Latest(p, Len(fills)) : Render(r, "revise", p, i)

OpenState(r, p) == IsOpen(p) /\ Render(r, "state", p, 0)

OpenManagement(r, p) == IsOpen(p) /\ Render(r, "management", p, 0)

-----------------------------------------------------------------------------
(* Saving.  A request that was saved is answered from its row, whatever    *)
(* happened since; with other contents it is refused.  Neither is a step.  *)

Saved(rows, r) == \E i \in 1..Len(rows) : rows[i].request = r

FillRow(r, form) ==
    LET page == pages[r]
    IN  [position |-> page.position, request |-> r,
         fill |-> IF page.kind = "revise" THEN fills[page.target].fill ELSE r,
         action |-> form.action, units |-> form.units, time |-> form.time, voided |-> form.voided]

\* Variant: any fill of the position can be revised, whatever happened to it.
TargetExists(page) == page.target \in Of(fills, page.position, Len(fills))

\* The fill that a page revises must still be in the revision that it showed.
TargetIsCurrent(page) == page.target \in Latest(page.position, Len(fills))

Save(r, form) ==
    LET page == pages[r]
        p == page.position
    IN  /\ page.kind \in {"create", "append", "revise"}
        /\ ~Saved(fills, r)
        /\ form.voided => page.kind = "revise"
        /\ page.kind = "create" => form.action = "buy" /\ ~Created(p)
        /\ page.kind = "revise" => TargetIsCurrent(page)
        /\ fills' = Append(fills, FillRow(r, form))
        /\ UNCHANGED <<pages, states, managements>>
        /\ Replays(p)'

\* Variant: the fills that the page showed are not compared.
StateIsAsShownButFills(page) ==
    Newest(states, page.position, page.shown.states) = StateRevision(page.position)

StateIsAsShown(page) ==
    /\ Newest(fills, page.position, page.shown.fills) = FillSequence(page.position)
    /\ Newest(states, page.position, page.shown.states) = StateRevision(page.position)

SaveState(r, form) ==
    LET page == pages[r]
        p == page.position
    IN  /\ page.kind = "state"
        /\ ~Saved(states, r)
        /\ IsOpen(p)
        /\ StateIsAsShown(page)
        /\ states' = Append(states, [position |-> p, request |-> r, fills |-> FillSequence(p),
                                     stage |-> form.stage, stop |-> form.stop])
        /\ UNCHANGED <<pages, fills, managements>>

\* known: anchor, initial stop and leverage were all filled in.
ManagementRow(r, stages, known) ==
    LET p == pages[r].position
    IN  [position |-> p, request |-> r, stages |-> stages, known |-> known,
         versions |-> Buys(p), fills |-> FillSequence(p), state |-> StateRevision(p)]

\* A mapping that names every stage is refused unless it fits the current stage.
SaveManagement(r, stages, known) ==
    LET page == pages[r]
        p == page.position
        row == ManagementRow(r, stages, known)
    IN  /\ page.kind = "management"
        /\ ~Saved(managements, r)
        /\ IsOpen(p)
        /\ StateIsAsShown(page)
        /\ Newest(managements, p, page.shown.managements) = ManagementRevision(p)
        /\ Buys(p) # {}
        /\ (\A f \in DOMAIN stages : stages[f] # 0) /\ Stage(p) # 0 => Mapped(p, row)
        /\ managements' = Append(managements, row)
        /\ UNCHANGED <<pages, fills, states>>

\* One field for each purchase that is not voided.
StageForms(p) == [{fills[i].fill : i \in Buys(p)} -> 0..MaxStage]

LedgerNext ==
    \E r \in Requests :
        \/ \E p \in Positions :
              \/ OpenCreate(r, p)
              \/ OpenAppend(r, p)
              \/ OpenRevise(r, p)
              \/ OpenState(r, p)
              \/ OpenManagement(r, p)
        \/ \E form \in FillForms : Save(r, form)
        \/ \E form \in StateForms : SaveState(r, form)
        \/ /\ pages[r].kind = "management"
           /\ \E stages \in StageForms(pages[r].position), known \in BOOLEAN :
                 SaveManagement(r, stages, known)

LedgerSpec == LedgerInit /\ [][LedgerNext]_ledger

-----------------------------------------------------------------------------
(* Properties.                                                             *)

\* A saved form was written as a correction of version i.
Replaced(i) == \E j \in 1..Len(fills) : pages[fills[j].request].target = i

\* What the replay of a position is made of, the latest revision of each fill,
\* is made of the forms of its operator, each saved once, but for the forms that
\* another form was written to correct, and no two forms correct the same one:
\* a form that was sent again, or a correction from a page that did not show
\* the correction made in another tab, neither counts twice nor takes another
\* form out of the count (save, _project).
FormsCountOnce ==
    /\ \A i, j \in 1..Len(fills) :
          \/ i = j
          \/ /\ fills[i].request # fills[j].request
             /\ pages[fills[i].request].kind = "revise"
                    => pages[fills[i].request].target # pages[fills[j].request].target
    /\ \A p \in Positions :
          Latest(p, Len(fills)) = {i \in Of(fills, p, Len(fills)) : ~Replaced(i)}

\* A position is reviewed by the rules (review_position) only while its fills
\* are the very revisions that both the page of the last state confirmation
\* and the page of the last management confirmation showed to the operator,
\* and the second showed the state of the first, whatever was saved from
\* other pages in between and in whatever order.
ReviewedAsShown ==
    \A p \in Positions :
        Reviewable(p) =>
            LET state == pages[states[StateRevision(p)].request].shown
                management == pages[managements[ManagementRevision(p)].request].shown
            IN  /\ Latest(p, state.fills) = Latest(p, Len(fills))
                /\ Latest(p, management.fills) = Latest(p, Len(fills))
                /\ Newest(states, p, management.states) = StateRevision(p)
=============================================================================
