------------------------------ MODULE Serving -------------------------------
(***************************************************************************)
(* The serving system as LLMEngine in distserve/engine.py composes it: the *)
(* context stage of ContextStage, the decoding stage of DecodeFCFS, the    *)
(* bridge queue between them, and for each request the queue of its step   *)
(* outputs and the list of its lifetime events, which both engines write   *)
(* through callbacks and the caller of generate reads.  The callers are    *)
(* those of distserve_api_server.py, which may disconnect, or the tasks of *)
(* OfflineLLM.generate in distserve/llm.py.                                *)
(*                                                                         *)
(* All of it runs in one event loop: an action is the code between two     *)
(* awaits.  The variables of the decoding stage keep their names, those of *)
(* the context stage are prefixed.  The context stage here has the FCFS    *)
(* scheduler; the cost-compatible one changes only which requests Step     *)
(* takes.                                                                  *)
(***************************************************************************)
EXTENDS DecodeFCFS, SequencesExt

CONSTANTS
    CtxMaxBatchSize, CtxMaxTokensPerBatch, CtxGpuBlocks, CtxPipelineSize,
    Streaming  \* requests with "stream": true

VARIABLES
    ctxIssued, ctxWaiting, ctxUnaccepted, ctxOnFly, ctxPipeline, ctxAwaiting,
    ctxHolding, ctxAvail, ctxBridge, ctxDone,
    bridgeQueue,  \* LLMEngine.bridge_queue, an asyncio.Queue
    outputs,      \* request_outputs, a dict: request -> its queue
    events,       \* request_lifetime_events, a dict: request -> its list
    frontend,     \* "api", "offline", or "returned": the offline call is over
    client,       \* request -> where its caller is
    received      \* request -> the number of the last token its caller was given

ctxVars == <<ctxIssued, ctxWaiting, ctxUnaccepted, ctxOnFly, ctxPipeline,
             ctxAwaiting, ctxHolding, ctxAvail, ctxBridge, ctxDone>>
tables == <<outputs, events>>
callers == <<frontend, client, received>>
servingVars == <<vars, ctxVars, bridgeQueue, tables, callers>>

Ctx == INSTANCE ContextStage WITH
    MaxBatchSize <- CtxMaxBatchSize, MaxTokensPerBatch <- CtxMaxTokensPerBatch,
    MaxGpuBlocks <- CtxGpuBlocks, PipelineSize <- CtxPipelineSize,
    issued <- ctxIssued, waiting <- ctxWaiting, unaccepted <- ctxUnaccepted,
    onFly <- ctxOnFly, pipeline <- ctxPipeline, awaiting <- ctxAwaiting,
    holding <- ctxHolding, avail <- ctxAvail, bridge <- ctxBridge, done <- ctxDone

-----------------------------------------------------------------------------
(* dict[r] = value, and del or pop, of a dict *)
With(dict, r, value) ==
    [q \in DOMAIN dict \cup {r} |-> IF q = r THEN value ELSE dict[q]]
Without(dict, r) == Restrict(dict, DOMAIN dict \ {r})

(* lifetime.py: a request's lifetime *)
Lifetime == <<"issued", "context_begin", "context_end", "migration_begin",
              "migration_end", "decoding_begin", "decoding_end">>

(* mistake: a request that comes back from the CPU begins once more *)
WithEventAlways(S, event) ==
    [r \in DOMAIN events |->
        IF r \in S THEN Append(events[r], event) ELSE events[r]]

(* _on_new_lifetime_event_callback for each request of S.  Only decoding    *)
(* begins are sent with dont_add_if_dup.                                   *)
WithEvent(S, event) ==
    LET dup(r) == event = "decoding_begin" /\ Last(events[r]) = event
    IN  [r \in DOMAIN events |->
            IF r \in S /\ ~dup(r) THEN Append(events[r], event) ELSE events[r]]

(* _on_new_step_output_callback with token n[r] for each request of S, the  *)
(* last one of those in F.  is_finished is copied when the StepOutput is   *)
(* made.                                                                   *)
WithOutput(S, n, F) ==
    [r \in DOMAIN outputs |->
        IF r \in S THEN Append(outputs[r], [token |-> n[r], last |-> r \in F])
        ELSE outputs[r]]

ServingInit ==
    /\ Init
    /\ Ctx!Init
    /\ bridgeQueue = <<>>
    /\ outputs = <<>> /\ events = <<>>  \* no keys
    /\ frontend \in {"api", "offline"}
    /\ client = [r \in Requests |-> "none"]
    /\ received = [r \in Requests |-> 0]

Alive == failed = "none"

(* OfflineLLM starts the event loops behind the tasks of all its requests  *)
(* and cancels them when it has every result.  If a loop dies it waits for *)
(* ever, and what the rest of the engine still does is left out.           *)
LoopsRun ==
    /\ Alive /\ frontend # "returned"
    /\ frontend = "offline" => \A r \in Requests : client[r] # "none"

(* generate up to its first await.  A request without an id gets a new one *)
(* from the counter, and the API server draws a random one: ids differ.    *)
Generate(r) ==
    /\ Alive
    /\ client[r] = "none"
    /\ client' = [client EXCEPT ![r] = "reading"]
    /\ outputs' = With(outputs, r, <<>>)
    /\ events' = With(events, r, <<"issued">>)
    /\ Ctx!AddRequest(r)
    /\ UNCHANGED <<vars, bridgeQueue, frontend, received>>

-----------------------------------------------------------------------------
(* ContextStageLLMEngine._step, in two parts around its await *)
ContextStep ==
    /\ LoopsRun
    /\ Ctx!Step
    /\ events' = WithEvent(Last(ctxPipeline'), "context_begin")
    /\ UNCHANGED <<vars, bridgeQueue, outputs, callers>>

(* mistake: a finished request is sent on as well *)
SentToDecodingAll(batch) == batch

SentToDecoding(batch) == batch \ ctxDone'

(* The batch has its first tokens.  Requests that are finished by theirs   *)
(* end here, the others are put on the bridge queue; ContextStage keeps a  *)
(* batch as a set, so they may come in any order.                          *)
ContextReturn ==
    /\ LoopsRun
    /\ Ctx!Return
    /\ LET batch == Head(ctxPipeline) IN
         /\ events' = WithEvent(batch, "context_end")
         /\ outputs' = WithOutput(batch, out, batch \cap ctxDone')
         /\ \E s \in SetToSeqs(SentToDecoding(batch)) :
              bridgeQueue' = bridgeQueue \o s
    /\ UNCHANGED <<vars, callers>>

(* Event loop 1 of the decoding engine *)
Accept ==
    /\ LoopsRun
    /\ bridgeQueue # <<>>
    /\ AddRequest(Head(bridgeQueue))
    /\ bridgeQueue' = Tail(bridgeQueue)
    /\ UNCHANGED <<ctxVars, tables, callers>>

(* Event loop 2: _step of the decoding engine, and _migrate_blocks in its   *)
(* post_process.                                                           *)
DecodingStep ==
    /\ LoopsRun
    /\ Step
    /\ events' = WithEvent(Members(batches'[cur']), "decoding_begin")
    /\ UNCHANGED <<ctxVars, bridgeQueue, outputs, callers>>

DecodingFails ==
    /\ LoopsRun
    /\ StepRaises
    /\ UNCHANGED <<ctxVars, bridgeQueue, tables, callers>>

DecodingReturn ==
    /\ LoopsRun
    /\ Return
    /\ LET returned == Members(batches[pipeline[1].batch]) IN
         /\ outputs' = WithOutput(returned, out', returned \cap finished')
         /\ events' = WithEvent(returned \cap finished', "decoding_end")
    /\ UNCHANGED <<ctxVars, bridgeQueue, callers>>

MigrationBegins ==
    /\ LoopsRun
    /\ BeginMigration
    /\ events' = WithEvent(migrating', "migration_begin")
    /\ UNCHANGED <<ctxVars, bridgeQueue, outputs, callers>>

(* The copy is over: the context engine's callback frees its blocks *)
MigrationEnds ==
    /\ LoopsRun
    /\ EndMigration
    /\ \E r \in migrating : Ctx!ClearMigrated(r)
    /\ events' = WithEvent(migrating, "migration_end")
    /\ UNCHANGED <<bridgeQueue, outputs, callers>>

PostProcessEnds ==
    /\ LoopsRun
    /\ EndPostProcess
    /\ UNCHANGED <<ctxVars, bridgeQueue, tables, callers>>

-----------------------------------------------------------------------------
(* mistake: the newest output first *)
NextOutputNewest(r) == Last(outputs[r])

NextOutput(r) == Head(outputs[r])

(* generate gets a step output and yields it.  After the last one it is    *)
(* resumed once more.                                                      *)
Take(r) ==
    /\ Alive
    /\ client[r] = "reading" /\ outputs[r] # <<>>
    /\ received' = [received EXCEPT ![r] = NextOutput(r).token]
    /\ outputs' = [outputs EXCEPT ![r] = Tail(@)]
    /\ client' = [client EXCEPT ![r] = IF NextOutput(r).last THEN "ending" ELSE "reading"]
    /\ UNCHANGED <<vars, ctxVars, bridgeQueue, events, frontend>>

(* generate breaks out of its loop and forgets the queue.  The API handler *)
(* of a request that does not stream then pops the lifetime events; those  *)
(* of a stream, or of an offline call, are never removed.                  *)
Close(r) ==
    /\ Alive
    /\ client[r] = "ending"
    /\ client' = [client EXCEPT ![r] = "closed"]
    /\ outputs' = Without(outputs, r)
    /\ events' = IF r \in Streaming \/ frontend = "offline" THEN events
                 ELSE Without(events, r)
    /\ UNCHANGED <<vars, ctxVars, bridgeQueue, frontend, received>>

(* The tasks of an offline call have all ended: it returns their results.  *)
OfflineReturns ==
    /\ frontend = "offline" /\ \A r \in Requests : client[r] = "closed"
    /\ frontend' = "returned"
    /\ UNCHANGED <<vars, ctxVars, bridgeQueue, tables, client, received>>

(* abort: the engines only log that it is not implemented. *)
Abort(r) == UNCHANGED <<vars, ctxVars, bridgeQueue, tables>>

(* mistake: generate forgets the queue when it is closed early *)
LeaveForgets(r) ==
    /\ Alive /\ frontend = "api"
    /\ client[r] = "reading"
    /\ client' = [client EXCEPT ![r] = "gone"]
    /\ outputs' = Without(outputs, r)
    /\ UNCHANGED <<vars, ctxVars, bridgeQueue, events, frontend, received>>

(* The client disconnects.  A stream is closed wherever it waits; another  *)
(* handler finds out when it has been given a token, and calls abort.      *)
(* Neither way does generate come to its `del': the tables keep the        *)
(* request, and both stages go on with it.                                 *)
Leave(r) ==
    /\ Alive /\ frontend = "api"
    /\ client[r] \in {"reading", "ending"}
    /\ r \in Streaming \/ received[r] > 0
    /\ client' = [client EXCEPT ![r] = "gone"]
    /\ Abort(r)
    /\ UNCHANGED <<frontend, received>>

ServingNext ==
    \/ ContextStep \/ ContextReturn
    \/ Accept
    \/ DecodingStep \/ DecodingFails \/ DecodingReturn
    \/ MigrationBegins \/ MigrationEnds \/ PostProcessEnds
    \/ OfflineReturns
    \/ \E r \in Requests : Generate(r) \/ Take(r) \/ Close(r) \/ Leave(r)

(* The event loop runs every coroutine that can go on, and the workers     *)
(* answer.  Nothing makes a client of the server ask or leave; the tasks   *)
(* of an offline call are all started.                                     *)
ServingFairness ==
    /\ WF_servingVars(ContextStep)
    /\ WF_servingVars(ContextReturn)
    /\ WF_servingVars(Accept)
    /\ WF_servingVars(DecodingStep \/ DecodingFails \/ DecodingReturn
                      \/ MigrationBegins \/ MigrationEnds \/ PostProcessEnds)
    /\ WF_servingVars(OfflineReturns)
    /\ \A r \in Requests :
         /\ WF_servingVars(Take(r)) /\ WF_servingVars(Close(r))
         /\ WF_servingVars(frontend = "offline" /\ Generate(r))

ServingSpec == ServingInit /\ [][ServingNext]_servingVars /\ ServingFairness

-----------------------------------------------------------------------------
Returned == ctxUnaccepted \cup ctxDone
EndedInContext == ctxDone \ issued
Over == finished \cup EndedInContext

(* The engines may still call back for a request that was asked for and is *)
(* not over; the two tables have an entry for it, whatever its caller did. *)
(* A missing one is a KeyError in an engine's event loop, which ends the   *)
(* server for everybody.                                                   *)
CallbacksFindTables ==
    ctxIssued \ Over \subseteq DOMAIN outputs \cap DOMAIN events

(* The K/V of a request with unfinished output is somewhere at any time:   *)
(* in the context stage until the copy is over, in the decoding stage from *)
(* the moment the copy begins, and in both only during the copy.  The      *)
(* requests that hold blocks in the context stage for the decoding stage   *)
(* are those that it will still take.                                      *)
KVHandedOver ==
    /\ \A r \in Returned \ Over :
         /\ r \in ctxHolding \/ mem.loc[r] # "none"
         /\ r \in ctxHolding /\ mem.loc[r] # "none" => r \in migrating
    /\ ctxBridge = Members(bridgeQueue) \cup Members(unaccepted) \cup migrating

(* The lifetime events of a request are, in this order and without a gap,  *)
(* the documented ones; a request with its last output has them to the end *)
(* of the stage that finished it, so that the list a handler pops is       *)
(* complete.                                                               *)
LifetimeAsDocumented ==
    \A r \in DOMAIN events :
        /\ IsPrefix(events[r], Lifetime)
        /\ client[r] = "ending" =>
             Last(events[r]) \in {"context_end", "decoding_end"}

(* What the caller of generate sees, whatever the two stages do: tokens in *)
(* order, none twice, none left out, and an end after the last.            *)
Stream == INSTANCE TokenStream WITH
    made <- [r \in Requests |-> IF r \in Returned THEN out[r] ELSE 0],
    over <- Over,
    got <- received,
    caller <- [r \in Requests |->
        CASE client[r] = "none" -> "none"
          [] client[r] \in {"reading", "ending"} -> "reads"
          [] client[r] = "closed" -> "served"
          [] client[r] = "gone" -> "left"]
ImplementsTokenStream == Stream!StreamSpec

(* A request that was asked for comes to its end, unless the engine dies:  *)
(* its caller has every token or is gone, and neither stage holds K/V for  *)
(* it.  A caller that left does not keep its blocks taken.                 *)
EveryRequestSettles ==
    \A r \in Requests :
        r \in ctxIssued ~>
            \/ ~Alive
            \/ /\ client[r] \in {"closed", "gone"}
               /\ r \notin ctxHolding /\ mem.loc[r] = "none"
               /\ r \in Over
=============================================================================
