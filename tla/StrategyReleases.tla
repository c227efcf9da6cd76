-------------------------- MODULE StrategyReleases --------------------------
(***************************************************************************)
(* The way of a strategy release: a candidate is built from a committed    *)
(* checkout and pinned data, a person approves it in a pull request        *)
(* review, the promotion reads the review and publishes the release under  *)
(* the digest of its content, and whoever uses a release resolves it by    *)
(* that name (research/strategy_releases.py, with the commands that build  *)
(* and promote).                                                           *)
(*                                                                         *)
(* The pull request and its reviews change while the promotion reads them, *)
(* and the files can be edited and copied by hand.  Digests do not collide:*)
(* the digest of a value is the value.  Times are hours.  Publishing is    *)
(* one step here (ArtifactPublication has its steps).                      *)
(***************************************************************************)
EXTENDS Integers, Sequences, FiniteSets

CONSTANTS
    Users, PullAuthor,     \* who may review; who opened the pull request
    Commits, Authors,      \* commits; Authors[c]: author and committer of c
    Generations,           \* data a candidate can be pinned to
    Windowings,            \* bound: windows an operator asks for
    Outcomes,              \* bound: what a backtest of a window can earn
    ReviewIds,             \* bound: reviews of the pull request
    MaxEdits,              \* bound: candidate files edited by hand
    MaxReleases            \* bound: releases

Symbol == "MU-USDT-SWAP"
StartingEquity == 10
Roles == <<"train", "validation", "out_of_sample">>
Modes == {"independent_review_v1", "solo_maintainer_v1"}

ASSUME ReleasesAssumption ==
    /\ PullAuthor \in Users
    /\ Authors \in [Commits -> SUBSET Users]
    /\ MaxEdits \in Nat /\ MaxReleases \in Nat

NoReading == [step |-> "none"]

VARIABLES
    candidates,  \* contents of the candidate files
    reviews,     \* reviews of the pull request
    spoken,      \* what reviewers approved, in the words they submitted
    promotion,   \* what a running promotion has read
    releases,    \* files of the release directory: [name, content]
    edits        \* candidate files edited by hand so far

releasing == <<candidates, reviews, spoken, promotion, releases, edits>>
scm == <<reviews, spoken>>

ReleasesInit ==
    /\ candidates = {} /\ reviews = {} /\ spoken = {}
    /\ promotion = NoReading /\ releases = {} /\ edits = 0

-----------------------------------------------------------------------------
(* What the records say, and when a reader accepts them.                   *)

BaselineConfig == [symbol |-> Symbol, fee |-> 5, entry_execution |-> "second_pullback"]
Assumptions == [fee |-> BaselineConfig.fee, starting_equity |-> StartingEquity]

\* Each digest stands for the content it was computed from.
ResultDigest(r) == [r EXCEPT !.result_fingerprint = <<>>]
ResultsDigest(c) == <<c.windows, c.assumptions, c.results>>
CandidateDigest(c) == [c EXCEPT !.candidate_fingerprint = <<>>]

Fingerprinted(c) ==
    LET results == [i \in DOMAIN c.results |->
                       [c.results[i] EXCEPT !.result_fingerprint = ResultDigest(c.results[i])]]
        x == [c EXCEPT !.results = results, !.config_sha256 = c.config]
        y == [x EXCEPT !.result_fingerprint = ResultsDigest(x)]
    IN  [y EXCEPT !.candidate_fingerprint = CandidateDigest(y)]

Statement(c) == <<c.candidate_fingerprint, c.commit>>

WindowsAreValid(windows) ==
    /\ Len(windows) = 3
    /\ \A i \in 1..3 : windows[i].role = Roles[i] /\ windows[i].start < windows[i].end
    /\ \A i \in 1..2 : windows[i].end = windows[i + 1].start

DatasetIsValid(dataset) == {"5m", "15m", "1h"} \subseteq dataset.intervals

ResultIsValid(r) ==
    /\ r.trades >= 0 /\ r.ending_equity >= 0 /\ r.gross_profit >= 0 /\ r.gross_loss >= 0
    /\ r.ending_equity - r.starting_equity = r.gross_profit - r.gross_loss
    /\ r.trades = 0 => r.gross_profit = 0 /\ r.gross_loss = 0
    /\ r.gross_profit > 0 /\ r.gross_loss > 0 => r.trades >= 2
    /\ r.result_fingerprint = ResultDigest(r)

CandidateIsValid(c) ==
    /\ c.config_sha256 = c.config /\ c.config.entry_execution = "second_pullback"
    /\ DatasetIsValid(c.dataset)
    /\ c.dataset.symbol = Symbol /\ c.config.symbol = c.dataset.symbol
    /\ c.assumptions.fee = c.config.fee
    /\ WindowsAreValid(c.windows)
    /\ Len(c.results) = 3
    /\ \A i \in 1..3 :
          /\ ResultIsValid(c.results[i]) /\ c.results[i].role = Roles[i]
          /\ c.results[i].starting_equity = c.assumptions.starting_equity
    /\ c.result_fingerprint = ResultsDigest(c)
    /\ c.candidate_fingerprint = CandidateDigest(c)

SnapshotDigest(s) == [s EXCEPT !.snapshot_sha256 = <<>>]

SnapshotIsValid(s) ==
    /\ s.mode = "independent_review_v1" => s.reviewer # s.author
    /\ s.statement = <<s.candidate_fingerprint, s.commit>>
    /\ s.snapshot_sha256 = SnapshotDigest(s)

ApprovalIsValid(a) ==
    /\ SnapshotIsValid(a.review_snapshot)
    /\ a.decision = a.review_snapshot.decision
    /\ a.candidate_fingerprint = a.review_snapshot.candidate_fingerprint
    /\ a.commit = a.review_snapshot.commit
    /\ a.approval_snapshot_sha256 = a.review_snapshot.snapshot_sha256

ReleaseId(candidate, approval) == <<candidate, approval>>

BindsCandidate(r) ==
    /\ r.approval.candidate_fingerprint = r.candidate.candidate_fingerprint
    /\ r.approval.commit = r.candidate.commit

ReleaseIsValid(r) ==
    /\ CandidateIsValid(r.candidate) /\ ApprovalIsValid(r.approval)
    /\ r.approval.decision = "approved"
    /\ BindsCandidate(r)
    /\ r.strategy_release_id = ReleaseId(r.candidate, r.approval)

\* resolve: a file is the release of the name it is asked for.
Resolves(file, mode) ==
    /\ ReleaseIsValid(file.content)
    /\ file.content.strategy_release_id = file.name
    /\ mode \in {"any", file.content.approval.review_snapshot.mode}
    /\ file.content.candidate.dataset.symbol = Symbol

-----------------------------------------------------------------------------
(* build_strategy_release_candidate                                        *)

\* The reader of a published generation takes no series with a hole in it.
IsReadable(generation) ==
    \A series \in {generation.quarters, generation.hours} :
        series # {} /\ \A x, y \in series : x..y \subseteq series

\* Both intervals of the generation cover every hour of every window.
ExperimentCovers(generation, windows) ==
    /\ WindowsAreValid(windows)
    /\ \A i \in DOMAIN windows :
          windows[i].start..(windows[i].end - 1)
              \subseteq generation.quarters \intersect generation.hours

WindowResult(role, outcome) ==
    [role |-> role, trades |-> outcome.trades, starting_equity |-> StartingEquity,
     ending_equity |-> StartingEquity + outcome.gross_profit - outcome.gross_loss,
     gross_profit |-> outcome.gross_profit, gross_loss |-> outcome.gross_loss,
     result_fingerprint |-> <<>>]

NewCandidate(commit, generation, windows, outcome) ==
    Fingerprinted(
        [config |-> BaselineConfig, config_sha256 |-> <<>>, commit |-> commit,
         dataset |-> [symbol |-> generation.symbol, intervals |-> generation.intervals],
         windows |-> windows, assumptions |-> Assumptions,
         results |-> [i \in 1..3 |-> WindowResult(Roles[i], outcome)],
         result_fingerprint |-> <<>>, candidate_fingerprint |-> <<>>])

\* git: what read_git_state finds in the worktree of the running code.
BuildCandidate(git, commit, generation, windows, outcome) ==
    /\ git.clean /\ git.head = commit
    /\ IsReadable(generation) /\ ExperimentCovers(generation, windows)
    /\ LET candidate == NewCandidate(commit, generation, windows, outcome)
       IN  /\ CandidateIsValid(candidate)
           /\ candidates' = candidates \union {candidate}
    /\ UNCHANGED <<scm, promotion, releases, edits>>

-----------------------------------------------------------------------------
(* The pull request.                                                       *)

\* A reviewer submits a review of a candidate under a new number.
SubmitReview(id, user, state, statement) ==
    /\ \A review \in reviews : review.id # id
    /\ \A said \in spoken : said.id # id
    /\ reviews' = reviews \union
          {[id |-> id, user |-> user, state |-> state, body |-> statement, edited |-> FALSE]}
    /\ spoken' = IF state # "APPROVED" THEN spoken
                 ELSE spoken \union {[id |-> id, user |-> user, body |-> statement]}
    /\ UNCHANGED <<candidates, promotion, releases, edits>>

ChangeReview(review, changed) ==
    /\ reviews' = (reviews \ {review}) \union changed
    /\ UNCHANGED <<candidates, spoken, promotion, releases, edits>>

EditReview(review, statement) ==
    ChangeReview(review, {[review EXCEPT !.body = statement, !.edited = TRUE]})
DismissReview(review) == ChangeReview(review, {[review EXCEPT !.state = "DISMISSED"]})
DeleteReview(review) == ChangeReview(review, {})

-----------------------------------------------------------------------------
(* promote_strategy_release                                                *)

\* A candidate file that does not parse ends the promotion at once.
ReadCandidate(candidate, id, mode) ==
    /\ promotion = NoReading /\ Cardinality(releases) < MaxReleases
    /\ CandidateIsValid(candidate)
    /\ promotion' = [step |-> "pull", candidate |-> candidate, id |-> id, mode |-> mode]
    /\ UNCHANGED <<candidates, scm, releases, edits>>

\* The pull request, whose commits are what was pushed last, must contain the
\* evaluated commit.
FetchPullRequest(commits) ==
    /\ promotion.step = "pull"
    /\ promotion' = IF promotion.candidate.commit \in commits
                    THEN [promotion EXCEPT !.step = "review"] ELSE NoReading
    /\ UNCHANGED <<candidates, scm, releases, edits>>

IsIndependent(user, commit, mode) ==
    /\ user # PullAuthor
    /\ mode = "independent_review_v1" => user \notin Authors[commit]

\* As if an edited review still spoke for its reviewer.
ApprovesAsEdited(review, candidate, mode) ==
    /\ IsIndependent(review.user, candidate.commit, mode)
    /\ review.state = "APPROVED"
    /\ review.body = Statement(candidate)

Approves(review, candidate, mode) ==
    /\ IsIndependent(review.user, candidate.commit, mode)
    /\ review.state = "APPROVED"
    /\ ~review.edited
    /\ review.body = Statement(candidate)

Snapshot(review, candidate, mode, author) ==
    LET s == [reviewer |-> review.user, author |-> author, mode |-> mode,
              decision |-> "approved", statement |-> review.body,
              candidate_fingerprint |-> candidate.candidate_fingerprint,
              commit |-> candidate.commit, snapshot_sha256 |-> <<>>]
    IN  [s EXCEPT !.snapshot_sha256 = SnapshotDigest(s)]

Approval(s) ==
    [decision |-> s.decision, candidate_fingerprint |-> s.candidate_fingerprint,
     commit |-> s.commit, review_snapshot |-> s, approval_snapshot_sha256 |-> s.snapshot_sha256]

NewRelease(candidate, approval) ==
    [candidate |-> candidate, approval |-> approval,
     strategy_release_id |-> ReleaseId(candidate, approval)]

\* The review is fetched after the pull request, and judged as it is then.
FetchReview ==
    /\ promotion.step = "review"
    /\ \/ \E review \in reviews, author \in Authors[promotion.candidate.commit] :
            /\ review.id = promotion.id
            /\ Approves(review, promotion.candidate, promotion.mode)
            /\ LET s == Snapshot(review, promotion.candidate, promotion.mode, author)
               IN  promotion' = [step |-> "publish",
                                 release |-> NewRelease(promotion.candidate, Approval(s))]
       \/ /\ ~\E review \in reviews :
                review.id = promotion.id
                    /\ Approves(review, promotion.candidate, promotion.mode)
          /\ promotion' = NoReading
    /\ UNCHANGED <<candidates, scm, releases, edits>>

\* The name is taken by another content, or the release gets it.
PublishRelease ==
    /\ promotion.step = "publish"
    /\ LET name == promotion.release.strategy_release_id
       IN  releases' = IF \E file \in releases : file.name = name THEN releases
                       ELSE releases \union {[name |-> name, content |-> promotion.release]}
    /\ promotion' = NoReading
    /\ UNCHANGED <<candidates, scm, edits>>

-----------------------------------------------------------------------------
(* Files in the hands of people: a field is changed, with or without the   *)
(* fingerprints that go with it, or a file is copied to another name.  The *)
(* evidence of the review itself has no signature; it is changed without   *)
(* its digest only.                                                        *)

EditedCandidates(c) ==
    LET changed ==
            {[c EXCEPT !.commit = x] : x \in Commits}
            \union {[c EXCEPT !.config.fee = 0, !.assumptions.fee = 0],
                    [c EXCEPT !.windows[3].end = @ + 1],
                    [c EXCEPT !.results[3].gross_profit = @ + 1]}
    IN  changed \union {Fingerprinted(x) : x \in changed}

EditedReleases(r) ==
    LET parts == {[r EXCEPT !.candidate = c] : c \in EditedCandidates(r.candidate)}
                 \union {[r EXCEPT !.approval.commit = x] : x \in Commits}
                 \union {[r EXCEPT !.approval.review_snapshot.mode = m] : m \in Modes}
                 \union {[r EXCEPT !.approval.review_snapshot.reviewer = u] : u \in Users}
    IN  parts \union {NewRelease(x.candidate, x.approval) : x \in parts}

EditCandidateFile(c, edited) ==
    /\ edits < MaxEdits /\ edits' = edits + 1
    /\ candidates' = (candidates \ {c}) \union {edited}
    /\ UNCHANGED <<scm, promotion, releases>>

\* A file of the release directory as a resolver may find it: as published,
\* or edited, under any name it was or would be published under.
FoundFiles ==
    UNION {LET contents == {file.content} \union EditedReleases(file.content)
           IN  UNION {[name : {f.name : f \in releases} \union {r.strategy_release_id},
                       content : {r}] : r \in contents} : file \in releases}

ReleasesNext ==
    \/ \E git \in [head : Commits, clean : BOOLEAN], commit \in Commits,
          generation \in Generations, windows \in Windowings, outcome \in Outcomes :
          BuildCandidate(git, commit, generation, windows, outcome)
    \/ \E id \in ReviewIds, user \in Users, state \in {"APPROVED", "COMMENTED"},
          c \in candidates : SubmitReview(id, user, state, Statement(c))
    \/ \E review \in reviews :
          \/ \E c \in candidates : EditReview(review, Statement(c))
          \/ DismissReview(review)
          \/ DeleteReview(review)
    \/ \E c \in candidates, id \in ReviewIds, mode \in Modes : ReadCandidate(c, id, mode)
    \/ \E commits \in SUBSET Commits : FetchPullRequest(commits)
    \/ FetchReview \/ PublishRelease
    \/ \E c \in candidates : \E edited \in EditedCandidates(c) : EditCandidateFile(c, edited)

ReleasesSpec == ReleasesInit /\ [][ReleasesNext]_releasing

-----------------------------------------------------------------------------
(* Properties.                                                             *)

\* Whatever a resolver hands out, somebody approved exactly this candidate and
\* commit in the words he submitted, although the review may have been edited
\* while the promotion read it and the files may have been edited since; he
\* had not opened the pull request, and for an independent review had not
\* written the commit (capture_verified_approval, StrategyReleaseV1, resolve).
ResolvedWasReviewed ==
    \A file \in FoundFiles : \A mode \in Modes \union {"any"} :
        Resolves(file, mode) =>
            LET s == file.content.approval.review_snapshot
            IN  /\ \E said \in spoken :
                       said.user = s.reviewer /\ said.body = Statement(file.content.candidate)
                /\ IsIndependent(s.reviewer, file.content.candidate.commit, mode)
=============================================================================
