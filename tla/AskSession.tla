---------------------------- MODULE AskSession ----------------------------
(***************************************************************************)
(* One question to a harness from beginning to end: the client's driver    *)
(* (vibemux_client/src/ask/session.rs) polls pages and status while the    *)
(* attempt task (executor.rs, run_attempt) captures, retains the           *)
(* transcript and only then reports its outcome to the store.              *)
(*                                                                         *)
(* Each call of the driver is one step: what it reads it reads at that     *)
(* moment, and the attempt, other attempts and a restart may come between  *)
(* any two of them.  The rows follow the edges of DispatchPhase.           *)
(***************************************************************************)
EXTENDS TranscriptStore

CONSTANTS Askers,       \* the requests a driver asks and follows
          Verdicts,     \* outcomes the exchanges come to
          MaxPages,     \* MAX_PAGES_PER_TICK
          MaxRestarts   \* bound: how often the daemon restarts

ASSUME AskAssumption ==
    /\ Askers \subseteq Requests
    /\ Verdicts \subseteq Outcomes
    /\ MaxPages \in Nat \ {0}
    /\ MaxRestarts \in Nat

VARIABLES phase,     \* the stored phase of each request
          task,      \* the attempt task: none, claimed, capturing, captured, or
                     \* claim_lost, report_lost: it ended without the writer's answer
          asking,    \* the driver: pc, the pages of this pass, what it read
          reader,    \* its reassembler
          ended,     \* how the Ask ended, or "no"
          restarts

daemonVars == <<phase, task>>
clientVars == <<asking, reader, ended>>
askVars == <<transcriptVars, daemonVars, clientVars, restarts>>

----------------------------------------------------------------------------
(* The attempt: run_attempt_with_final_text.                               *)

Claim(r) ==
    /\ task[r] = "none"
    /\ phase[r] = "admitted"
    /\ phase' = [phase EXCEPT ![r] = ClaimEdge(@).to]
    /\ task' = [task EXCEPT ![r] = "claimed"]
    /\ UNCHANGED <<transcriptVars, clientVars, restarts>>

\* The claim fails, or its answer comes too late: the task ends.
ClaimLost(r) ==
    /\ task[r] = "none"
    /\ phase[r] = "admitted"
    /\ task' = [task EXCEPT ![r] = "claim_lost"]
    /\ UNCHANGED <<phase, transcriptVars, clientVars, restarts>>

\* A claim that nobody waits for is carried out all the same.
LateClaim(r) ==
    /\ task[r] = "claim_lost"
    /\ phase[r] = "admitted"
    /\ phase' = [phase EXCEPT ![r] = ClaimEdge(@).to]
    /\ UNCHANGED <<task, transcriptVars, clientVars, restarts>>

BeginCapture(r) ==
    /\ task[r] = "claimed"
    /\ Begin(r)
    /\ task' = [task EXCEPT ![r] = "capturing"]
    /\ UNCHANGED <<phase, clientVars, restarts>>

Capture(r, size) ==
    /\ task[r] = "capturing"
    /\ AppendRecord(r, size)
    /\ UNCHANGED <<daemonVars, clientVars, restarts>>

\* The exchange is over, however it went.
EndCapture(r) ==
    /\ task[r] = "capturing"
    /\ FinishTranscript(r)
    /\ task' = [task EXCEPT ![r] = "captured"]
    /\ UNCHANGED <<phase, clientVars, restarts>>

\* finish_harness_dispatch.
ReportOutcome(r, outcome) ==
    /\ task[r] = "captured"
    /\ phase' = [phase EXCEPT ![r] = FinishEdge(@, outcome).to]
    /\ task' = [task EXCEPT ![r] = "none"]
    /\ UNCHANGED <<transcriptVars, clientVars, restarts>>

\* The finish fails after its retries, which run_attempt ignores.
ReportLost(r) ==
    /\ task[r] = "captured"
    /\ task' = [task EXCEPT ![r] = "report_lost"]
    /\ UNCHANGED <<phase, transcriptVars, clientVars, restarts>>

\* So is a report.
LateReport(r, outcome) ==
    /\ task[r] = "report_lost"
    /\ phase[r] \in {"running", "cancel_requested"}
    /\ phase' = [phase EXCEPT ![r] = FinishEdge(@, outcome).to]
    /\ UNCHANGED <<task, transcriptVars, clientVars, restarts>>

\* The daemon dies and comes back: the store recovers its rows, transcripts
\* and tasks are gone.
Restart ==
    /\ restarts < MaxRestarts
    /\ restarts' = restarts + 1
    /\ phase' = [r \in Requests |-> IF RecoverEdge(phase[r]).kind = "changed"
                                    THEN RecoverEdge(phase[r]).to ELSE phase[r]]
    /\ task' = [r \in Requests |-> "none"]
    /\ LoseTranscripts
    /\ UNCHANGED clientVars

----------------------------------------------------------------------------
(* The driver.                                                             *)

\* attempt_end.
AttemptEnd(p) ==
    CASE p \in ActivePhases        -> "no"
      [] IsTerminal(p)             -> p
      [] p = "recovery_pending"    -> "dispatch_recovery_pending"

Ends(r, end) == ended' = [ended EXCEPT ![r] = end]

Goto(r, pc) == asking' = [asking EXCEPT ![r].pc = pc]

\* What a cancel leaves: that of an attempt that ended before is refused.
Cancelled(p) == IF CancelEdge(p).kind = "changed" THEN CancelEdge(p).to ELSE p

\* submit: the request is admitted and its attempt launched.  A request
\* nobody asks through a driver comes from another client.
Submit(r) ==
    /\ asking[r].pc = "submit"
    /\ phase' = [phase EXCEPT ![r] = "admitted"]
    /\ Goto(r, "poll")
    /\ UNCHANGED <<task, transcriptVars, reader, ended, restarts>>

\* The submission is refused.
Refuse(r) ==
    /\ asking[r].pc = "submit"
    /\ Ends(r, "refused")
    /\ Goto(r, "done")
    /\ UNCHANGED <<daemonVars, transcriptVars, reader, restarts>>

\* The top of the loop: a cancel the user asked for is sent once.  Refused,
\* because the attempt has ended, or lost, it ends the Ask.
SendCancel(r) ==
    /\ asking[r].pc = "poll"
    /\ ~asking[r].cancelSent
    /\ \/ /\ CancelEdge(phase[r]).kind # "refused"
          /\ asking' = [asking EXCEPT ![r].pc = "read", ![r].pages = 0, ![r].cancelSent = TRUE]
          /\ phase' = [phase EXCEPT ![r] = Cancelled(@)]
          /\ UNCHANGED ended
       \/ /\ CancelEdge(phase[r]).kind = "refused"
          /\ Ends(r, "cancel_refused")
          /\ Goto(r, "done")
          /\ UNCHANGED phase
    /\ UNCHANGED <<task, transcriptVars, reader, restarts>>

NoCancel(r) ==
    /\ asking[r].pc = "poll"
    /\ asking' = [asking EXCEPT ![r].pc = "read", ![r].pages = 0]
    /\ UNCHANGED <<daemonVars, transcriptVars, reader, ended, restarts>>

Output(r, output) == asking' = [asking EXCEPT ![r].pc = "status", ![r].output = output]

\* What a read makes of the reader: the page is accepted, and a cursor that the
\* transcript does not have is refused (harness_dispatch_invalid_request).
AfterRead(r, page) ==
    IF ValidCursor(Records(r), CursorOf(reader[r]))
    THEN Accept(reader[r], page)
    ELSE [reader[r] EXCEPT !.consistent = FALSE]

\* abandon(): a driver that gives up asks for a cancel it has not asked for
\* yet; that request may be lost too.
Abandoned(r) ==
    IF asking[r].cancelSent THEN {phase}
    ELSE {phase, [phase EXCEPT ![r] = Cancelled(@)]}

\* read_output, one page: served under the store's lock and accepted.
ReadPage(r) ==
    /\ asking[r].pc = "read"
    /\ Available(r)
    /\ \E fragments \in Fragments(Records(r), CursorOf(reader[r])) :
       \E page \in {OutputPage(r, CursorOf(reader[r]), fragments)} :
       \E read \in {AfterRead(r, page)} :
           /\ reader' = [reader EXCEPT ![r] = read]
           /\ IF read.consistent THEN UNCHANGED ended ELSE Ends(r, "inconsistent")
           /\ CASE ~read.consistent -> Goto(r, "done")
                [] read.consistent /\ page.complete -> Output(r, "delivered")
                [] read.consistent /\ ~page.complete ->
                      IF page.fragments = << >> \/ asking[r].pages + 1 = MaxPages
                      THEN Output(r, "partial")
                      ELSE asking' = [asking EXCEPT ![r].pages = @ + 1]
           /\ phase' \in IF read.consistent THEN {phase} ELSE Abandoned(r)
    /\ UNCHANGED <<task, transcriptVars, restarts>>

\* harness_dispatch_output_unavailable.
ReadMissing(r) ==
    /\ asking[r].pc = "read"
    /\ ~Available(r)
    /\ Output(r, "missing")
    /\ UNCHANGED <<daemonVars, transcriptVars, reader, ended, restarts>>

\* A settled attempt whose transcript was missing: its own end, unless that
\* promises a reply.
MissingEnd(end) == IF end \in {"completed", "unverified"} THEN "output_unavailable" ELSE end

\* Mutant: what was read last is taken for all there is.
OutcomeOfAnyOutput(output, end) ==
    IF output = "missing" THEN MissingEnd(end) ELSE end

\* What the status makes of this pass: the Ask's end, or "no".
OutcomeOf(output, end) ==
    CASE output = "delivered" -> end
      [] output = "missing"   -> MissingEnd(end)
      [] output = "partial"   -> "no"

ReadStatus(r) ==
    /\ asking[r].pc = "status"
    /\ LET end == AttemptEnd(phase[r])
           how == IF end = "no" THEN "no" ELSE OutcomeOf(asking[r].output, end)
       IN  /\ Ends(r, how)
           /\ Goto(r, IF how = "no" THEN "poll" ELSE "done")
    /\ UNCHANGED <<daemonVars, transcriptVars, reader, restarts>>

\* A call fails, a cancel included, or the deadline has passed.
GiveUp(r) ==
    /\ asking[r].pc \in {"poll", "read", "status"}
    /\ Ends(r, "gave_up")
    /\ Goto(r, "done")
    /\ phase' \in Abandoned(r)
    /\ UNCHANGED <<task, transcriptVars, reader, restarts>>

----------------------------------------------------------------------------
AskInit ==
    /\ TranscriptInit
    /\ phase = [r \in Requests |-> "absent"]
    /\ task = [r \in Requests |-> "none"]
    /\ asking = [r \in Requests |->
                    [pc |-> "submit", pages |-> 0, output |-> "none", cancelSent |-> FALSE]]
    /\ reader = [r \in Requests |-> NewReader]
    /\ ended = [r \in Requests |-> "no"]
    /\ restarts = 0

AttemptStep(r) ==
    \/ Claim(r)
    \/ ClaimLost(r)
    \/ BeginCapture(r)
    \/ EndCapture(r)
    \/ \E outcome \in Verdicts : ReportOutcome(r, outcome)
    \/ ReportLost(r)

\* The driver's own steps, in the order of its loop.
DriverStep(r) ==
    \/ SendCancel(r)
    \/ NoCancel(r)
    \/ ReadPage(r)
    \/ ReadMissing(r)
    \/ ReadStatus(r)

AskNext ==
    \/ \E r \in Requests :
          \/ AttemptStep(r)
          \/ \E size \in Sizes : Capture(r, size)
          \/ LateClaim(r)
          \/ \E outcome \in Verdicts : LateReport(r, outcome)
          \/ Submit(r)
    \/ \E r \in Askers :
          \/ DriverStep(r)
          \/ Refuse(r)
          \/ GiveUp(r)
    \/ Restart

AskSpec == AskInit /\ [][AskNext]_askVars

\* Driver and attempt keep moving: the attempt's exchange ends at its route
\* deadline at the latest, and its writer calls return, with an answer or
\* without.  Nothing is assumed of the vendor, the user, a failing call, a
\* queued request nobody waits for, or the driver's own deadline.
FairAskSpec ==
    /\ AskSpec
    /\ \A r \in Askers : WF_askVars(AttemptStep(r)) /\ WF_askVars(DriverStep(r))

----------------------------------------------------------------------------
(* What readers may rely on.                                               *)

\* The retained transcripts stay within both bounds, their size is counted
\* exactly whatever was replaced and evicted, and none is live as well: the
\* unsigned subtraction of an evicted size never wraps.
RetentionExact ==
    /\ finishedBytes = TotalBytes(finished)
    /\ WithinBounds(finished)
    /\ \A i, j \in DOMAIN finished : finished[i].request = finished[j].request => i = j
    /\ \A i \in DOMAIN finished : finished[i].request \notin DOMAIN live

\* However the transcript grows, ends or is cut into pages between two
\* reads, the reader accepts every page, no cursor of its own is refused,
\* and what it holds is a prefix of what the attempt captured.
ReaderFollows ==
    \A r \in Askers :
        /\ ended[r] # "inconsistent"
        /\ IsPrefix(reader[r].records, captured[r])
        /\ reader[r].part > 0 =>
              /\ Len(reader[r].records) < Len(captured[r])
              /\ reader[r].part < captured[r][Len(reader[r].records) + 1]

\* What a step may do to a reader.
ReadsOn(r) ==
    reader'[r] # reader[r] =>
        /\ IsPrefix(reader[r].records, reader'[r].records)
        /\ \/ reader'[r].after > reader[r].after
           \/ reader'[r].after = reader[r].after /\ reader'[r].part > reader[r].part

\* Every read either brings nothing or takes the reader further, and what it
\* has shown it never takes back: a driver that reads on does not read the
\* same page forever, also when a record is far larger than a page.
ReaderAdvances == [][\A r \in Askers : ReadsOn(r)]_askVars

\* An Ask that ends as completed or unverified shows the whole reply: the
\* transcript is retained before the outcome is reported, and the driver
\* reads a settled attempt to its end.
ReplyIsWhole ==
    \A r \in Askers :
        ended[r] \in {"completed", "unverified"} =>
            reader[r].records = captured[r] /\ reader[r].part = 0

\* The row is active and has no task any more: only a cancel that finds it
\* still admitted, a restart or a deadline ends an Ask that waits for it.
Orphaned(r) == task[r] \in {"claim_lost", "report_lost"} /\ phase[r] \in ActivePhases

\* Every Ask that was submitted ends without its deadline, however many passes
\* the reply takes, unless its attempt lost a writer call: an Ask that goes on
\* for ever is one whose row is orphaned for good.
AskEnds ==
    \A r \in Askers :
        []<>(asking[r].pc \in {"submit", "done"}) \/ <>[]Orphaned(r)
=============================================================================
