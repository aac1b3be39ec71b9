----------------------- MODULE SpeculativeCoordinator -----------------------
(***************************************************************************)
(* decoding/speculative_coordinator.py: drafts queued for verification,    *)
(* the acceptance of a draft token by token, and the test whether to       *)
(* speculate at all.  What matters of a position is how the target's       *)
(* probability compares with the draft's: at least as large ("sure"),      *)
(* smaller ("less"), or missing because fewer target log-probabilities     *)
(* were passed ("none").  Log lines and the speedup estimate are left out. *)
(*                                                                         *)
(* A definition marked (fault) is a plausible bug in the definition after  *)
(* it; nothing uses it, and some property tells the two apart.             *)
(***************************************************************************)
EXTENDS Integers, Sequences, FiniteSets, SequencesExt

CONSTANTS
    Overlapped,      \* enable_overlapped
    Targets,         \* target agents
    DraftTokens,     \* the drafts submitted
    Odds,            \* sequences over {"sure", "less", "none"}, one a draft token
    Controllers,     \* kinds of controller: "none", "QueueingController", "rho"
    MinRho,          \* min_stability_rho, in tenths
    Rhos,            \* utilisations, in tenths
    MaxDrafts        \* bound on the drafts submitted

ASSUME SpeculativeAssumption == Overlapped \in BOOLEAN /\ MaxDrafts \in Nat

VARIABLES
    draftQueue,     \* _draft_queue: [target, tokens]
    currentDraft,   \* _current_draft
    submitted,      \* history: the drafts ever put in the queue
    handedOut,      \* history: the drafts returned as overlapped_next_draft
    verdict,        \* the last outcome of verify_and_commit
    speculating     \* the last answer of is_speculative_viable

specVars == <<draftQueue, currentDraft, submitted, handedOut, verdict, speculating>>

SpecInit ==
    /\ draftQueue = << >> /\ currentDraft = << >>
    /\ submitted = << >> /\ handedOut = << >>
    /\ verdict = [odds |-> << >>, accepted |-> 0, rejectedAt |-> -1, raised |-> FALSE]
    /\ speculating = [controller |-> "none", rho |-> 0, viable |-> FALSE]

-----------------------------------------------------------------------------
\* _is_queue_stable asks for current_rho, by which QueueingController has no
\* method: only a controller that has one is heard.
QueueStable(controller, rho) == controller = "rho" => rho < MinRho

\* Both roles are allowed ones (agents named otherwise are never viable)
IsSpeculativeViable(rolesFit, controller, rho) ==
    /\ speculating' = [controller |-> controller, rho |-> rho,
                       viable |-> rolesFit /\ QueueStable(controller, rho)]
    /\ UNCHANGED <<draftQueue, currentDraft, submitted, handedOut, verdict>>

\* The queue is unbounded, so put() does not suspend.  Without overlap a draft
\* replaces the one before it, which nothing has read.
SubmitDraft(target, tokens) ==
    LET entry == [target |-> target, tokens |-> tokens] IN
    /\ Len(submitted) < MaxDrafts
    /\ IF Overlapped
       THEN /\ draftQueue' = Append(draftQueue, entry)
            /\ submitted' = Append(submitted, entry)
            /\ UNCHANGED currentDraft
       ELSE /\ currentDraft' = <<entry>>
            /\ UNCHANGED <<draftQueue, submitted>>
    /\ UNCHANGED <<handedOut, verdict, speculating>>

\* The first position that is not accepted: a sure token always is, a missing
\* probability raises when the loop gets there.
Stops(odds, n) ==
    /\ \A i \in 1 .. n : odds[i] # "none"
    /\ n < Len(odds) => odds[n + 1] # "sure"

\* (fault) the draft is read, and stays in the queue
FetchOverlappedNextFault ==
    /\ handedOut' = IF Overlapped /\ draftQueue # << >>
                    THEN Append(handedOut, Head(draftQueue)) ELSE handedOut
    /\ UNCHANGED draftQueue

\* The next draft is whatever is first in the queue, whoever it is meant for
FetchOverlappedNext ==
    IF Overlapped /\ draftQueue # << >>
    THEN /\ draftQueue' = Tail(draftQueue)
         /\ handedOut' = Append(handedOut, Head(draftQueue))
    ELSE UNCHANGED <<draftQueue, handedOut>>

\* wrongLength: draft_logprobs of another length than the draft
VerifyAndCommit(odds, n, wrongLength) ==
    LET raised == wrongLength \/ (n < Len(odds) /\ odds[n + 1] = "none") IN
    /\ odds # << >> /\ Stops(odds, n)
    /\ verdict' = [odds       |-> odds,
                   accepted   |-> IF raised THEN 0 ELSE n,
                   rejectedAt |-> IF raised \/ n = Len(odds) THEN -1 ELSE n,
                   raised     |-> raised]
    /\ IF raised THEN UNCHANGED <<draftQueue, handedOut>> ELSE FetchOverlappedNext
    /\ UNCHANGED <<currentDraft, submitted, speculating>>

SpecNext ==
    \/ \E fit \in BOOLEAN, c \in Controllers, rho \in Rhos : IsSpeculativeViable(fit, c, rho)
    \/ \E target \in Targets, tokens \in DraftTokens : SubmitDraft(target, tokens)
    \/ \E odds \in Odds : \E n \in 0 .. Len(odds), wrong \in BOOLEAN :
          VerifyAndCommit(odds, n, wrong)

SpecSpec == SpecInit /\ [][SpecNext]_specVars

-----------------------------------------------------------------------------
SpecTypeOK ==
    /\ Len(draftQueue) <= MaxDrafts /\ Len(currentDraft) <= 1
    /\ verdict.accepted <= Len(verdict.odds)

\* No draft that was queued is lost, handed out twice or out of turn, whatever
\* verifications fail on the way.
NoDraftLost == submitted = handedOut \o draftQueue

\* "don't run speculative if rho > 0.8" (SpeculativeConfig), for whichever
\* controller is given.
NoSpeculationUnderLoad ==
    speculating.viable /\ speculating.controller # "none" => speculating.rho < MinRho
=============================================================================
