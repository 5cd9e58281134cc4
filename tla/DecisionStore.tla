--------------------------- MODULE DecisionStore ---------------------------
(***************************************************************************)
(* Advisory decisions over the dispatch table: the decision_records table  *)
(* and the admission that consumes a decision (vibemux_store/src/          *)
(* decision.rs, with the binding rules of vibemux_decision/src/record.rs). *)
(*                                                                         *)
(* A decision names what it authorises: the harness, the prompt and the    *)
(* dispatch configuration it was made for, which is also what the request  *)
(* fingerprint of an admission digests.  A decided admission runs every    *)
(* gate of HarnessDispatchStore!Admit in the same transaction.             *)
(***************************************************************************)
EXTENDS HarnessDispatchStore

CONSTANTS Decisions,   \* decision ids
          HarnessOf,   \* what a fingerprint is the digest of: harness,
          PromptOf,    \*   prompt
          ConfigOf,    \*   and dispatch configuration
          Readings,    \* readings of the wall clock when decisions are used
          DecisionTtl  \* DECISION_TTL, in the unit of Readings

ASSUME DecisionAssumption ==
    /\ Fingerprints = DOMAIN HarnessOf
    /\ Fingerprints = DOMAIN PromptOf
    /\ Fingerprints = DOMAIN ConfigOf
    /\ \A f, g \in Fingerprints :  \* of nothing else, and without collisions
          HarnessOf[f] = HarnessOf[g] /\ PromptOf[f] = PromptOf[g] /\ ConfigOf[f] = ConfigOf[g]
             => f = g
    /\ Nothing \notin Requests
    /\ Readings \subseteq Nat
    /\ DecisionTtl \in Nat \ {0}

VARIABLE decisions  \* the table decision_records

decisionVars == <<vars, decisions>>

\* A record is resolved to a choice or escalated; consuming it adds by whom
\* and when.
NoDecision == [status |-> "absent", choice |-> Nothing, createdAt |-> 0,
               consumedBy |-> Nothing, consumedAt |-> 0]

\* The row record_decision inserts.
RecordedRow(status, choice, now) ==
    [status |-> status, choice |-> choice, createdAt |-> now,
     consumedBy |-> Nothing, consumedAt |-> 0]

\* What the consumption makes of a row.
ConsumedRow(row, r, now) ==
    [status |-> row.status, choice |-> row.choice, createdAt |-> row.createdAt,
     consumedBy |-> r, consumedAt |-> now]

Consumed(d) == decisions[d].consumedBy # Nothing

\* DecisionRecord::is_expired: a clock behind the creation counts too.
IsExpired(d, now) ==
    \/ now < decisions[d].createdAt
    \/ now >= decisions[d].createdAt + DecisionTtl

----------------------------------------------------------------------------
(* record_decision                                                         *)

\* An id recorded before writes nothing, whether the record is the same or
\* in conflict with the stored one.
RecordDecision(d, status, choice, now) ==
    /\ open
    /\ decisions[d].status = "absent"
    /\ decisions' = [decisions EXCEPT ![d] = RecordedRow(status, choice, now)]
    /\ UNCHANGED vars

----------------------------------------------------------------------------
(* admit_decided_dispatch                                                  *)

\* Mutant: expiry is looked at before the replay is recognised.
CheckDispatchableWhileFresh(d, r, fp, now) ==
    LET row == decisions[d] IN
    CASE row.status = "absent"                          -> "not_found"
      [] Consumed(d) /\ row.consumedBy # r              -> "already_consumed"
      [] row.status = "escalated"                       -> "escalated"
      [] row.status = "resolved" /\ row.consumedBy \in {r, Nothing} ->
            IF PromptOf[row.choice] # PromptOf[fp]        THEN "prompt_mismatch"
            ELSE IF IsExpired(d, now)               THEN "expired"
            ELSE IF Consumed(d)                     THEN "replay"
            ELSE IF ConfigOf[row.choice] # ConfigOf[fp]   THEN "config_changed"
            ELSE "fresh"

\* DecisionRecord::check_dispatchable: how request r relates to decision d,
\* or why it is refused.
CheckDispatchable(d, r, fp, now) ==
    LET row == decisions[d] IN
    CASE row.status = "absent"                          -> "not_found"
      [] Consumed(d) /\ row.consumedBy # r              -> "already_consumed"
      [] row.status = "escalated"                       -> "escalated"
      [] row.status = "resolved" /\ row.consumedBy \in {r, Nothing} ->
            IF PromptOf[row.choice] # PromptOf[fp]        THEN "prompt_mismatch"
            ELSE IF Consumed(d)                     THEN "replay"
            ELSE IF IsExpired(d, now)               THEN "expired"
            ELSE IF ConfigOf[row.choice] # ConfigOf[fp]   THEN "config_changed"
            ELSE "fresh"

\* Mutant: a request admitted before without this decision is let through.
SettleEither(binding, admitted) ==
    CASE admitted \notin {"changed", "unchanged"} -> admitted
      [] binding = "replay" /\ admitted = "unchanged" -> "replayed"
      [] binding = "replay" /\ admitted = "changed"   -> "projection_mismatch"
      [] binding = "fresh" /\ admitted \in {"changed", "unchanged"} -> "consumed"

\* What the transaction makes of the binding and of the dispatch admission
\* inside it: a replay must find its dispatch, a first use must not.
Settle(binding, admitted) ==
    CASE admitted \notin {"changed", "unchanged"} -> admitted
      [] binding = "replay" /\ admitted = "unchanged" -> "replayed"
      [] binding = "replay" /\ admitted = "changed"   -> "projection_mismatch"
      [] binding = "fresh"  /\ admitted = "unchanged" -> "conflict"
      [] binding = "fresh"  /\ admitted = "changed"   -> "consumed"

DecidedReply(d, r, res, fp, now) ==
    LET binding == CheckDispatchable(d, r, fp, now) IN
    IF binding \notin {"fresh", "replay"} THEN binding
    ELSE IF HarnessOf[decisions[d].choice] # HarnessOf[fp] THEN "harness_mismatch"
    ELSE Settle(binding, AdmitReply(r, res, fp))

\* The dispatch and the consumption commit together; every other reply
\* writes nothing.
AdmitDecided(d, r, res, fp, now) ==
    /\ open
    /\ DecidedReply(d, r, res, fp, now) = "consumed"
    /\ IF AdmitReply(r, res, fp) = "changed"
       THEN Write(r, AdmittedRow(res, fp, now), "admitted", NoCode, NoReport, NoFence)
       ELSE UNCHANGED <<rows, events>>
    /\ decisions' = [decisions EXCEPT ![d] = ConsumedRow(@, r, now)]
    /\ UNCHANGED <<defective, detected, open, claims, epoch>>

----------------------------------------------------------------------------
DecisionInit ==
    /\ Init
    /\ decisions = [d \in Decisions |-> NoDecision]

DecisionNext ==
    \/ Next /\ UNCHANGED decisions
    \/ \E d \in Decisions, choice \in Fingerprints, now \in Timestamps :
          RecordDecision(d, "resolved", choice, now)
    \/ \E d \in Decisions, now \in Timestamps : RecordDecision(d, "escalated", Nothing, now)
    \/ \E d \in Decisions, r \in Requests, res \in Resources, fp \in Fingerprints,
          now \in Readings : AdmitDecided(d, r, res, fp, now)

DecisionSpec == DecisionInit /\ [][DecisionNext]_decisionVars

----------------------------------------------------------------------------
(* What a decision promises.                                               *)

\* A decision and a dispatch belong to each other or not at all: a consumed
\* decision was resolved, has the dispatch it was made for in the table,
\* was used within its lifetime, and no second decision claims that
\* dispatch (the UNIQUE consumed_request_id never has to refuse).
DecisionsBound ==
    \A d \in Decisions :
        Consumed(d) =>
            LET row == decisions[d] IN
            /\ row.status = "resolved"
            /\ Exists(row.consumedBy)
            /\ rows[row.consumedBy].content = row.choice
            /\ events[row.consumedBy][1].at = row.consumedAt
            /\ row.createdAt <= row.consumedAt
            /\ row.consumedAt < row.createdAt + DecisionTtl
            /\ \A e \in Decisions : decisions[e].consumedBy = row.consumedBy => e = d

\* The answer to a decided admission may be late and the request repeated
\* at any time: after the decision expired, after the attempt ended or was
\* parked, with the harness gone.  The repetition is a replay that writes
\* nothing, and nobody else gets anything from the decision.
RepeatRecognised ==
    \A d \in Decisions, res \in Resources, now \in Readings :
        Consumed(d) =>
            \A r \in Requests :
                DecidedReply(d, r, res, decisions[d].choice, now) =
                    IF r # decisions[d].consumedBy THEN "already_consumed"
                    ELSE IF r \in defective THEN "defective" ELSE "replayed"
=============================================================================
