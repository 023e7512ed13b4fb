---------------------------- MODULE WorkerStream ----------------------------
(***************************************************************************)
(* One local inference on the worker: the SSE stream of the managed        *)
(* llama.cpp is read event by event into OpenAiStreamAccumulator; for a    *)
(* consumer that asked to stream, each accepted event also goes through a  *)
(* bounded channel to wait_for_inference_with_lease, which uploads it to   *)
(* the coordinator while the inference is suspended.                       *)
(*                                                                         *)
(* An event of the engine is one of: text for a choice, the end of a       *)
(* choice, the usage of a finished choice, the two together (completions), *)
(* [DONE], or something malformed (bad JSON, drifting metadata, a foreign  *)
(* field, an index out of range).  The connection may close at any point.  *)
(*                                                                         *)
(* The coordinator checks each uploaded event and the result again, by     *)
(* rules of its own (validate_standard_stream_data,                        *)
(* validate_standard_result and complete_job).                             *)
(*                                                                         *)
(* Source: share.rs, lines 2159 - 2307, 2499 - 3305 and 3329 - 3478, and   *)
(* routes/jobs.rs, lines 2585 - 2717 and 2800 - 2932, and settlement.rs.   *)
(***************************************************************************)
EXTENDS Naturals, Sequences, FiniteSets

CONSTANTS
  Choice,      \* the choices the request is authorised for, 0 .. n - 1
  Capacity,    \* STREAM_EVENT_CHANNEL_CAPACITY
  MaxRead,     \* bound: events the engine sends
  MaxTokens,   \* i32::MAX, what a token count must fit in
  AuthorizedInput, \* estimated_input_tokens of the job
  PerChoice    \* the max_tokens the engine is asked for, for each choice

VARIABLES
  stream_kind, \* LocalOpenAiStreamKind
  forwarding,  \* the consumer asked to stream
  \* OpenAiStreamAccumulator and the reader
  acc,         \* what has been accumulated
  read,        \* the data events accepted so far
  saw_done,
  inference,   \* "reading", "failed" or "complete"
  obeyed,      \* history: the engine reported no counts but such as it was asked for
  \* wait_for_inference_with_lease
  channel,     \* events sent and not yet received
  uploading,   \* the event being submitted, or <<>>
  uploaded,    \* the sequences the coordinator acknowledged, in order
  broken,      \* stream_upload_error is set
  outcome,     \* what the wait returned
  answer       \* the response it returned, <<>> without one

readerVars == <<acc, read, saw_done, inference, obeyed>>
waitVars == <<channel, uploading, uploaded, broken, outcome, answer>>
vars == <<stream_kind, forwarding, readerVars, waitVars>>

-----------------------------------------------------------------------------
(***************************************************************************)
(* OpenAiStreamAccumulator                                                 *)
(***************************************************************************)

\* The usage and timings of a choice; tps: whether a valid speed is among them.
Stats == [prompt : {0, 1, MaxTokens}, tokens : {0, 1, MaxTokens}, tps : BOOLEAN]

\* A data event: text for one choice, or finishing choices, with or without
\* the statistics of a choice.  Text may be blank or, in a chat, reasoning; a
\* wide event holds several entries for its choice, or an overlong id.
Event ==
  {[type |-> "text", choice |-> c, content |-> t, wide |-> w] :
     c \in Choice, t \in {"word", "blank", "reasoning"}, w \in BOOLEAN}
  \cup {[type |-> "finish", choice |-> c, text |-> t] : c \in Choice, t \in {"empty", "same", "other"}}
  \cup {[type |-> "stats", stats |-> u] : u \in Stats}
  \cup {[type |-> "last", choice |-> c, stats |-> u] : c \in Choice, u \in Stats}

\* The prompt is never empty and no longer than the conservative bound that the job
\* was authorised for; a choice ends at its max_tokens.
Obeys(stats) == stats.prompt \in 1 .. AuthorizedInput /\ stats.tokens <= PerChoice

Open(c) == c \notin acc.finished

\* Mutant of MergeStreamUsage: the sum is not checked against the range.
MergeUnbounded(stats) == acc.usage # <<>> => acc.usage[1].prompt = stats.prompt

\* merge_stream_usage and merge_stream_timings: whether further statistics can
\* be added to those so far.
MergeStreamUsage(stats) ==
  acc.usage # <<>> =>
    /\ acc.usage[1].prompt = stats.prompt
    /\ acc.usage[1].tokens + stats.tokens <= MaxTokens
    /\ acc.usage[1].tps /\ stats.tps

\* Mutant of MergedUsage: the prompt is counted once for every choice.
MergedUsageSummed(stats) ==
  IF acc.usage = <<>> THEN <<stats>>
  ELSE <<[acc.usage[1] EXCEPT !.tokens = @ + stats.tokens, !.prompt = @ + stats.prompt]>>

MergedUsage(stats) ==
  IF acc.usage = <<>> THEN <<stats>>
  ELSE <<[acc.usage[1] EXCEPT !.tokens = @ + stats.tokens]>>

\* Mutant of ObserveTerminalStats: statistics need no newly finished choice.
ObserveAnyStats(finished, stats) ==
  /\ (stats.tokens > 0) = acc.first_token
  /\ stats.tokens > 0 => stats.tps
  /\ MergeStreamUsage(stats)

\* observe_terminal_stats: usage agrees with what was seen and belongs to a
\* choice that has finished since the last statistics.
ObserveTerminalStats(finished, stats) ==
  /\ (stats.tokens > 0) = acc.first_token
  /\ stats.tokens > 0 => stats.tps
  /\ Cardinality(finished) > acc.stats
  /\ MergeStreamUsage(stats)

\* observe_chat_choice and observe_completion_choice on a finish reason.
ObserveFinish(e) ==
  /\ Open(e.choice)
  /\ e.text = "empty" \/ (stream_kind = "completion" /\ e.text = "same")

\* observe: whether the event is accepted after the events so far.
Accepts(e) ==
  /\ acc.stats < Cardinality(Choice)
  /\ CASE e.type = "text" -> Open(e.choice) /\ (e.content = "reasoning" => stream_kind = "chat")
       [] e.type = "finish" -> ObserveFinish(e)
       [] e.type = "stats" -> stream_kind = "chat" /\ ObserveTerminalStats(acc.finished, e.stats)
       [] e.type = "last" -> /\ stream_kind = "completion" /\ Open(e.choice)
                             /\ ObserveTerminalStats(acc.finished \cup {e.choice}, e.stats)

Observe(e) ==
  [acc EXCEPT
     !.seen = IF e.type \in {"text", "finish", "last"} THEN @ \cup {e.choice} ELSE @,
     !.visible = IF e.type = "text" /\ e.content = "word" THEN @ \cup {e.choice} ELSE @,
     !.first_token = @ \/ e.type = "text",
     !.finished = IF e.type \in {"finish", "last"} THEN @ \cup {e.choice} ELSE @,
     !.stats = IF e.type \in {"stats", "last"} THEN @ + 1 ELSE @,
     !.usage = IF e.type \in {"stats", "last"} THEN MergedUsage(e.stats) ELSE @]

\* Mutant of Complete: any text of the first choice will do.
CompleteUnseen ==
  /\ saw_done
  /\ acc.stats = Cardinality(Choice)
  /\ acc.seen = Choice /\ acc.finished = Choice
  /\ stream_kind = "chat" => acc.first_token

\* finish: all choices, all statistics, [DONE], and visible text in a chat.
Complete ==
  /\ saw_done
  /\ acc.stats = Cardinality(Choice)
  /\ acc.seen = Choice /\ acc.finished = Choice
  /\ stream_kind = "chat" => 0 \in acc.visible

-----------------------------------------------------------------------------
(***************************************************************************)
(* execute_local_inference_stream, polled by the wait while nothing is     *)
(* being uploaded                                                          *)
(***************************************************************************)

Polled == outcome = "waiting" /\ uploading = <<>>
HasRoom == ~forwarding \/ Len(channel) < Capacity

\* Mutant of Normalized: the engine's own name is kept.
NotNormalized(model) == model

\* normalize_stream_event_model, normalize_standard_response_model: the name
\* of the loaded model gives way to the name the consumer asked for.
Normalized(model) == "authorized"

\* prepare_internal_stream_request: the engine always streams, and what it
\* sends is forwarded only to a consumer that asked for a stream.
Sent(event) == IF forwarding THEN Append(channel, event) ELSE channel

\* An accepted data event is forwarded under the next sequence.
ReadEvent(e) ==
  /\ Polled /\ HasRoom
  /\ inference = "reading" /\ ~saw_done /\ read < MaxRead
  /\ Accepts(e)
  /\ acc' = Observe(e)
  /\ read' = read + 1
  /\ channel' = Sent([sequence |-> read, done |-> FALSE, model |-> Normalized("local"),
                     wide |-> e.type = "text" /\ e.wide])
  /\ obeyed' = (obeyed /\ (e.type \in {"stats", "last"} => Obeys(e.stats)))
  /\ UNCHANGED <<stream_kind, forwarding, saw_done, inference, uploading, uploaded, broken, outcome, answer>>

ReadDone ==
  /\ Polled
  /\ inference = "reading" /\ ~saw_done
  /\ saw_done' = TRUE
  /\ UNCHANGED <<stream_kind, forwarding, acc, read, inference, obeyed, waitVars>>

\* An event the accumulator refuses, data after [DONE], a size limit, or a
\* connection that fails or closes early: possible at any point.
ReadFails ==
  /\ Polled
  /\ inference = "reading"
  /\ inference' = "failed"
  /\ UNCHANGED <<stream_kind, forwarding, acc, read, saw_done, obeyed, waitVars>>

\* The connection closes: finish, then the completion marker.
ReadEnds ==
  /\ Polled /\ HasRoom
  /\ inference = "reading"
  /\ Complete
  /\ inference' = "complete"
  /\ channel' = Sent([sequence |-> read, done |-> TRUE])
  /\ UNCHANGED <<stream_kind, forwarding, acc, read, saw_done, obeyed, uploading, uploaded,
                 broken, outcome, answer>>

-----------------------------------------------------------------------------
(***************************************************************************)
(* wait_for_inference_with_lease                                           *)
(***************************************************************************)

\* The coordinator's own check of an event: validate_standard_stream_data
\* takes no more entries than the request has choices, and no other model.
ValidateStandardStreamData(event) == event.model = "authorized" /\ ~ event.wide

\* An event is received; after a failed upload it is dropped.
ReceiveEvent ==
  /\ Polled
  /\ channel # <<>>
  /\ channel' = Tail(channel)
  /\ uploading' = IF broken THEN <<>> ELSE <<Head(channel)>>
  /\ UNCHANGED <<stream_kind, forwarding, readerVars, uploaded, broken, outcome, answer>>

\* submit_stream_event is acknowledged within its tries.
UploadSucceeds ==
  /\ outcome = "waiting" /\ uploading # <<>>
  /\ ~ Head(uploading).done => ValidateStandardStreamData(Head(uploading))
  /\ uploaded' = Append(uploaded, [sequence |-> Head(uploading).sequence, done |-> Head(uploading).done])
  /\ uploading' = <<>>
  /\ UNCHANGED <<stream_kind, forwarding, readerVars, channel, broken, outcome, answer>>

\* Mutant of UploadFails: the error is dropped and the next event is sent.
UploadSkipped ==
  /\ outcome = "waiting" /\ uploading # <<>>
  /\ uploading' = <<>>
  /\ UNCHANGED <<stream_kind, forwarding, readerVars, channel, uploaded, broken, outcome, answer>>

UploadFails ==
  /\ outcome = "waiting" /\ uploading # <<>>
  /\ broken' = TRUE
  /\ uploading' = <<>>
  /\ UNCHANGED <<stream_kind, forwarding, readerVars, channel, uploaded, outcome, answer>>

\* Mutant of Drained: the wait returns with events still in the channel.
DrainedEarly == TRUE

\* recv() returns None: the sender is gone and the channel is empty.
Drained == channel = <<>>

\* The inference future has ended and what it sent has been received.
WaitReturns ==
  /\ Polled
  /\ inference \in {"failed", "complete"}
  /\ Drained
  /\ outcome' = IF inference = "complete" /\ ~broken THEN "result" ELSE "error"
  /\ answer' =
       IF inference = "complete" /\ ~broken
         THEN <<[model |-> Normalized("local"), visible |-> 0 \in acc.visible, usage |-> acc.usage[1]]>>
         ELSE <<>>
  /\ UNCHANGED <<stream_kind, forwarding, readerVars, channel, uploading, uploaded, broken>>

\* renew_job_lease fails: the inference is dropped with all it has.
RenewalFails ==
  /\ Polled
  /\ inference = "reading"
  /\ outcome' = "error"
  /\ UNCHANGED <<stream_kind, forwarding, readerVars, channel, uploading, uploaded, broken, answer>>

-----------------------------------------------------------------------------
\* validate_reported_usage: the counts of the result fit the report, which the
\* worker took from the same usage.
ValidateReportedUsage(usage) == usage.prompt <= MaxTokens /\ usage.tokens <= MaxTokens

\* The output a job must be authorised for (validate_standard_job_authorization).
AuthorizedOutput == PerChoice * Cardinality(Choice)

\* complete_job: usage is not all zero and within what the job was authorised for.
UsageAuthorized(usage) ==
  /\ usage.prompt > 0 \/ usage.tokens > 0
  /\ usage.prompt <= AuthorizedInput /\ usage.tokens <= AuthorizedOutput

\* validate_standard_result
ValidateStandardResult(response) ==
  /\ response.model = "authorized"
  /\ stream_kind = "chat" => response.visible
  /\ ValidateReportedUsage(response.usage)

-----------------------------------------------------------------------------
Init ==
  /\ stream_kind \in {"chat", "completion"}
  /\ forwarding \in BOOLEAN
  /\ acc = [seen |-> {}, visible |-> {}, finished |-> {}, first_token |-> FALSE, stats |-> 0,
            usage |-> <<>>]
  /\ read = 0 /\ saw_done = FALSE /\ inference = "reading" /\ obeyed = TRUE
  /\ channel = <<>> /\ uploading = <<>> /\ uploaded = <<>>
  /\ broken = FALSE /\ outcome = "waiting" /\ answer = <<>>

Next ==
  \/ \E e \in Event : ReadEvent(e)
  \/ ReadDone \/ ReadFails \/ ReadEnds
  \/ ReceiveEvent \/ UploadSucceeds \/ UploadFails \/ WaitReturns \/ RenewalFails

Spec == Init /\ [][Next]_vars

-----------------------------------------------------------------------------
TypeOK ==
  /\ stream_kind \in {"chat", "completion"} /\ forwarding \in BOOLEAN /\ obeyed \in BOOLEAN
  /\ acc.stats \in 0 .. Cardinality(Choice)
  /\ Len(channel) <= Capacity
  /\ inference \in {"reading", "failed", "complete"}
  /\ outcome \in {"waiting", "result", "error"}

\* The coordinator sees the events of the stream in order and without a gap,
\* and the completion marker only after all of them and of a complete stream.
UploadsInOrder ==
  \A i \in DOMAIN uploaded :
    /\ uploaded[i].sequence = i - 1
    /\ uploaded[i].done => inference = "complete" /\ i = read + 1

\* A result is returned for settlement only when the whole answer was there
\* and, for a consumer that streams, every event and the marker of it has been
\* acknowledged: the stream log can be settled against the result.
ResultIsWhole ==
  outcome = "result" =>
    /\ acc.finished = Choice /\ acc.stats = Cardinality(Choice) /\ saw_done
    /\ forwarding => Len(uploaded) = read + 1 /\ uploaded[read + 1].done

\* Statistics are accepted at most once per finished choice, also when the
\* statistics of one choice come between events of another.
StatsFollowChoices == acc.stats <= Cardinality(acc.finished)

\* The coordinator takes every result that the worker's own checks let through, if
\* the engine reported no more tokens than it was asked for: no answer is computed,
\* uploaded and then refused with the lease still held.  The worker knows only the
\* range of a count; an engine that reports more, or nothing at all, is refused with
\* 400 by complete_job and the worker then reports a failure.
ResultAccepted ==
  answer # <<>> =>
    /\ ValidateStandardResult(answer[1])
    /\ obeyed => UsageAuthorized(answer[1].usage)
=============================================================================
