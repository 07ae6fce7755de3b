---------------------------- MODULE Notifications ----------------------------
(***************************************************************************)
(* One notification fanned out over its channels: NotificationsService's   *)
(* dispatch and deliver, QueueService's enqueue, runInline and             *)
(* startWorkers, and the part of BullMQ they rely on.                      *)
(*                                                                         *)
(* The request that dispatches handles the channels one after the other.   *)
(* A run is one call of deliver, by a worker or inline in the request.     *)
(***************************************************************************)
EXTENDS Integers, Sequences, FiniteSets, Functions

CONSTANTS
    Fanouts,     \* the channel lists dispatch is called with
    Workers,     \* jobs that may be in work at once
    Attempts,    \* attempts of a job: 3 unless the caller asks for another number
    MaxStalled,  \* BullMQ: the stalls after which a job is given up
    MaxFaults    \* bound: statements that throw in a worker, and stalls

Api == "api"
Runners == Workers \cup {Api}

\* Every caller names at least one channel.
ConstantsOK ==
    /\ \A f \in Fanouts : f \in Seq({"IN_APP", "EMAIL", "SMS"}) /\ f # <<>>
    /\ IsFiniteSet(Workers)
    /\ Api \notin Workers
    /\ {Attempts, MaxStalled, MaxFaults} \subseteq Nat

ASSUME NotificationsAssumption == ConstantsOK

VARIABLES
    enabled,   \* QUEUE_ENABLED
    channels,  \* one row for each; neither changes
    status,    \* the rows of notifications
    request,   \* the request that dispatches, and the channel it is at
    run,       \* what each runner is doing
    job,       \* BullMQ: the job of each row, if any
    sent,      \* messages of each row a gateway took
    cut,       \* those whose run ended before the row said so
    together,  \* runs of a row begun while another had read it and not yet written
    errors,    \* runs in which a statement threw
    stalls,    \* times a worker died or lost its job
    dropped    \* those whose request died or failed before handing them over

fanoutVars == <<enabled, channels, status, request, run, job,
               sent, cut, together, errors, stalls, dropped>>
faults == <<cut, together, errors, stalls, dropped>>

Notes == DOMAIN channels

NoRun == [pc |-> "idle"]
NoJob == [state |-> "none"]
Waiting == [state |-> "waiting"]
GivenUp == [state |-> "failed"]
ByWorker == [state: {"active"}, worker: Workers]

FanoutInit ==
    /\ enabled \in BOOLEAN
    /\ channels \in Fanouts
    /\ status = [n \in Notes |-> "none"]
    /\ request = [pc |-> "create", at |-> 1]
    /\ run = [x \in Runners |-> NoRun]
    /\ job = [n \in Notes |-> NoJob]
    /\ sent = [n \in Notes |-> 0]
    /\ cut = [n \in Notes |-> 0]
    /\ together = [n \in Notes |-> 0]
    /\ errors = [n \in Notes |-> 0]
    /\ stalls = [n \in Notes |-> 0]
    /\ dropped = [n \in Notes |-> FALSE]

-----------------------------------------------------------------------------
(* dispatch and enqueue *)

At(pc) == request.pc = pc

\* Defect: the list is left one channel late.
NextChannelLate == [pc |-> IF request.at > Len(channels) THEN "done" ELSE "create",
                    at |-> request.at + 1]

NextChannel == [pc |-> IF request.at = Len(channels) THEN "done" ELSE "create",
                at |-> request.at + 1]

CreateRow ==
    /\ At("create")
    /\ status' = [status EXCEPT ![request.at] = "QUEUED"]
    /\ request' = [request EXCEPT !.pc = IF channels[request.at] = "IN_APP"
                                         THEN "appear" ELSE "enqueue"]
    /\ UNCHANGED <<enabled, channels, run, job, sent, faults>>

\* In-app notifications are delivered the moment the row exists.  By id: the
\* customer may have read it already.
Appear ==
    /\ At("appear")
    /\ status' = [status EXCEPT ![request.at] = "SENT"]
    /\ request' = NextChannel
    /\ UNCHANGED <<enabled, channels, run, job, sent, faults>>

StartInline ==
    /\ run' = [run EXCEPT ![Api] = [pc |-> "read", note |-> request.at]]
    /\ request' = [request EXCEPT !.pc = "inline"]

\* Defect: a job the queue did not take is only logged.
EnqueueOrLog ==
    /\ At("enqueue")
    /\ \/ /\ enabled
          /\ \E taken \in {NoJob, Waiting} :
                job' = [job EXCEPT ![request.at] = taken]
          /\ request' = NextChannel /\ run' = run
       \/ ~enabled /\ StartInline /\ job' = job
    /\ UNCHANGED <<enabled, channels, status, sent, faults>>

\* The queue takes the job; or it takes it and the answer is lost, or it does
\* not, and the request delivers by itself, as it does without a queue.
Enqueue ==
    /\ At("enqueue")
    /\ \/ /\ enabled
          /\ job' = [job EXCEPT ![request.at] = Waiting]
          /\ \/ request' = NextChannel /\ run' = run
             \/ StartInline
       \/ StartInline /\ job' = job
    /\ UNCHANGED <<enabled, channels, status, sent, faults>>

\* markRead and markAllRead: the feed shows the in-app rows.
MarkRead(n) ==
    /\ channels[n] = "IN_APP"
    /\ status[n] # "none"
    /\ status' = [status EXCEPT ![n] = "READ"]
    /\ UNCHANGED <<enabled, channels, request, run, job, sent, faults>>

-----------------------------------------------------------------------------
(* The workers *)

Take(w, n) ==
    /\ run[w] = NoRun
    /\ job[n] = Waiting
    /\ job' = [job EXCEPT ![n] = [state |-> "active", worker |-> w]]
    /\ run' = [run EXCEPT ![w] = [pc |-> "read", note |-> n]]
    /\ UNCHANGED <<enabled, channels, status, request, sent, faults>>

Holds(x, n) == job[n] = [state |-> "active", worker |-> x]

\* A run returns: its job is complete, if it still is the worker's.
Return(x, n) ==
    /\ run' = [run EXCEPT ![x] = NoRun]
    /\ job' = IF Holds(x, n) THEN [job EXCEPT ![n] = NoJob] ELSE job
    /\ request' = IF x = Api THEN NextChannel ELSE request

\* Runs of row n that have read it and not yet written.
UnderWay(n) == {x \in Runners : run[x].pc \in {"send", "write"} /\ run[x].note = n}

\* Defect: a row already sent is sent again.
DeliverReadAny(x) ==
    /\ run[x].pc = "read"
    /\ LET n == run[x].note
       IN  /\ run' = [run EXCEPT ![x].pc = "send"]
           /\ together' = [together EXCEPT ![n] = IF UnderWay(n) = {} THEN @ ELSE @ + 1]
    /\ UNCHANGED <<enabled, channels, status, request, job, sent,
                   cut, errors, stalls, dropped>>

DeliverRead(x) ==
    /\ run[x].pc = "read"
    /\ LET n == run[x].note
       IN  IF status[n] = "SENT"
           THEN Return(x, n) /\ together' = together
           ELSE /\ run' = [run EXCEPT ![x].pc = "send"]
                /\ together' = [together EXCEPT
                                   ![n] = IF UnderWay(n) = {} THEN @ ELSE @ + 1]
                /\ UNCHANGED <<request, job>>
    /\ UNCHANGED <<enabled, channels, status, sent, cut, errors, stalls, dropped>>

\* The gateway takes the message or not; the providers throw nothing.
Send(x) ==
    /\ run[x].pc = "send"
    /\ \E delivered \in BOOLEAN :
          /\ run' = [run EXCEPT ![x] = [pc |-> "write", note |-> run[x].note,
                                        delivered |-> delivered]]
          /\ sent' = [sent EXCEPT ![run[x].note] = IF delivered THEN @ + 1 ELSE @]
    /\ UNCHANGED <<enabled, channels, status, request, job, faults>>

\* Defect: the row says SENT whatever the gateway answered.
WriteSent(x) ==
    /\ run[x].pc = "write"
    /\ status' = [status EXCEPT ![run[x].note] = "SENT"]
    /\ Return(x, run[x].note)
    /\ UNCHANGED <<enabled, channels, sent, faults>>

\* A delivery that failed is recorded, and ends its job like one that did not:
\* the attempts of the job are for statements that throw.
WriteOutcome(x) ==
    /\ run[x].pc = "write"
    /\ status' = [status EXCEPT ![run[x].note] = IF run[x].delivered
                                                 THEN "SENT" ELSE "FAILED"]
    /\ Return(x, run[x].note)
    /\ UNCHANGED <<enabled, channels, sent, faults>>

-----------------------------------------------------------------------------
(* What goes wrong *)

Faults == FoldFunction(+, 0, errors) + FoldFunction(+, 0, stalls)

Delivered(x) == run[x].pc = "write" /\ run[x].delivered
CutOff(x) == cut' = [cut EXCEPT ![run[x].note] = IF Delivered(x) THEN @ + 1 ELSE @]

\* A statement of deliver throws in a worker: the job is tried again until its
\* attempts are used up.
RunThrows(w) ==
    /\ run[w].pc \in {"read", "write"}
    /\ Faults < MaxFaults
    /\ LET n == run[w].note
       IN  /\ errors' = [errors EXCEPT ![n] = @ + 1]
           /\ CutOff(w)
           /\ job' = IF Holds(w, n)
                     THEN [job EXCEPT ![n] = IF errors'[n] < Attempts
                                             THEN Waiting ELSE GivenUp]
                     ELSE job
    /\ run' = [run EXCEPT ![w] = NoRun]
    /\ UNCHANGED <<enabled, channels, status, request, sent, together, stalls, dropped>>

\* A worker dies, or goes on without the lock of its job: BullMQ gives the job to
\* another, unless that happened to it too often.
JobStalls(w, n) ==
    /\ Holds(w, n)
    /\ Faults < MaxFaults
    /\ stalls' = [stalls EXCEPT ![n] = @ + 1]
    /\ job' = [job EXCEPT ![n] = IF stalls'[n] <= MaxStalled THEN Waiting ELSE GivenUp]
    /\ \/ run' = run /\ cut' = cut
       \/ run' = [run EXCEPT ![w] = NoRun] /\ CutOff(w)
    /\ UNCHANGED <<enabled, channels, status, request, sent, together, errors, dropped>>

\* runInline swallows it, and the next channel has its turn.
InlineThrows ==
    /\ run[Api].pc \in {"read", "write"}
    /\ dropped' = [dropped EXCEPT ![run[Api].note] = TRUE]
    /\ CutOff(Api)
    /\ run' = [run EXCEPT ![Api] = NoRun]
    /\ request' = NextChannel
    /\ UNCHANGED <<enabled, channels, status, job, sent, together, errors, stalls>>

\* The request dies, or a statement of dispatchOrThrow throws, which dispatch
\* logs: the channels left get no row.
RequestEnds ==
    /\ request.pc \notin {"done", "dead"}
    /\ request' = [request EXCEPT !.pc = "dead"]
    /\ dropped' = [n \in Notes |-> dropped[n] \/ n >= request.at]
    /\ IF run[Api] = NoRun THEN cut' = cut ELSE CutOff(Api)
    /\ run' = [run EXCEPT ![Api] = NoRun]
    /\ UNCHANGED <<enabled, channels, status, job, sent, together, errors, stalls>>

Deliver(x) == DeliverRead(x) \/ Send(x) \/ WriteOutcome(x)

Dispatch == CreateRow \/ Appear \/ Enqueue

FanoutNext ==
    \/ Dispatch
    \/ \E x \in Runners : Deliver(x)
    \/ \E w \in Workers : RunThrows(w) \/ \E n \in Notes : Take(w, n) \/ JobStalls(w, n)
    \/ \E n \in Notes : MarkRead(n)
    \/ InlineThrows
    \/ RequestEnds

\* Code that has been called goes on until it returns, and a worker that is idle
\* takes a job that waits.  Redis answers in the end: its client waits for that
\* without a limit.  Nothing makes a statement throw or a process die.
Fairness ==
    /\ WF_fanoutVars(Dispatch)
    /\ \A x \in Runners : WF_fanoutVars(Deliver(x))
    /\ WF_fanoutVars(\E w \in Workers, n \in Notes : Take(w, n))

FanoutSpec == FanoutInit /\ [][FanoutNext]_fanoutVars /\ Fairness

-----------------------------------------------------------------------------
(* Properties *)

RunState == {NoRun} \cup [pc: {"read", "send"}, note: Notes]
            \cup [pc: {"write"}, note: Notes, delivered: BOOLEAN]

FanoutTypeOK ==
    /\ enabled \in BOOLEAN
    /\ channels \in Fanouts
    /\ status \in [Notes -> {"none", "QUEUED", "SENT", "FAILED", "READ"}]
    /\ request \in [pc: {"create", "appear", "enqueue", "inline", "done", "dead"},
                    at: 1..(Len(channels) + 1)]
    /\ request.at <= Len(channels) \/ request.pc \in {"done", "dead"}
    /\ run \in [Runners -> RunState]
    /\ job \in [Notes -> {NoJob, Waiting, GivenUp} \cup ByWorker]
    /\ sent \in [Notes -> Nat]
    /\ cut \in [Notes -> Nat]
    /\ together \in [Notes -> Nat]
    /\ errors \in [Notes -> Nat]
    /\ stalls \in [Notes -> Nat]
    /\ dropped \in [Notes -> BOOLEAN]

\* A message leaves once, although a job may be added and its row delivered inline
\* as well, tried again or moved to another worker: one more only for a run that
\* ended between the gateway's answer and the row, or that overlapped another.
SentOnceUnlessDisturbed ==
    \A n \in Notes : sent[n] <= 1 + cut[n] + together[n]

\* What a row says of its delivery once nobody is at it is so: SENT was sent, and
\* FAILED was not, unless a run was cut off or overlapped the one that wrote it.
OutcomeIsTrue ==
    \A n \in Notes : channels[n] # "IN_APP" /\ UnderWay(n) = {} =>
        /\ status[n] = "SENT" => sent[n] > 0
        /\ status[n] = "FAILED" /\ cut[n] + together[n] = 0 => sent[n] = 0

\* A delivery that fails does not take the other channels with it, and no row stays
\* QUEUED, whether the queue is up, down or loses its answer: each is SENT (or by
\* then READ) or FAILED in the end, unless the request ends before it has handed the
\* row over, an inline run throws, or BullMQ gives its job up.
Settled(n) ==
    n \in Notes =>
        \/ status[n] \in {"SENT", "FAILED", "READ"}
        \/ dropped[n] \/ errors[n] >= Attempts \/ stalls[n] > MaxStalled
EveryChannelSettles == \A n \in 1..3 : <>Settled(n)
=============================================================================
