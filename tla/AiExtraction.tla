---------------------------- MODULE AiExtraction ----------------------------
(***************************************************************************)
(* Extraction of questions from uploaded books by an AI model              *)
(* (db/domain/ingestion.ts), with the circuit breakers around the provider *)
(* (core/ai/circuit-breaker.ts) and the canary: a second model that is     *)
(* asked the same in the shadow of each extraction, is halted when it does *)
(* badly and promoted when it does well (db/domain/ai-canary.ts).          *)
(*                                                                         *)
(* An upload is one request of the web server; requests interleave at every *)
(* await.  The breakers live in the server's process, everything else in   *)
(* the database.  All models are of the deployed provider.                 *)
(***************************************************************************)
EXTENDS Integers, FiniteSets, SequencesExt

CONSTANTS
    Files,            \* uploads, each processed by its own request
    Models,           \* rows of ai_model_versions: one organization and operation
    Operators,        \* sessions of the ai-canary command line
    Registry,         \* the roles the models were registered with before
    Pasts,            \* and their samples from earlier uploads
    FailureThreshold, \* consecutive failures that open the provider's circuit
    ShadowThreshold,  \* and that of a canary
    HaltMin, HaltWindow, PromoteMin, \* samples for a verdict
    MaxCommands,      \* bound: register, promote and halt commands
    MaxFaults         \* bound: crashes of the server and failing writes

ASSUME ExtractionAssumption ==
    /\ "provider" \notin Models /\ "none" \notin Models
    /\ Registry \in [Models -> {"unregistered", "candidate", "canary", "active"}]
    /\ \A m, n \in Models : Registry[m] = "canary" /\ Registry[n] = "canary" => m = n
    /\ Pasts \subseteq [Models -> Seq({"agree", "differ", "failed"})]
    /\ FailureThreshold \in Nat \ {0} /\ ShadowThreshold \in Nat \ {0}
    /\ HaltMin \in Nat \ {0} /\ HaltWindow \in Nat \ {0} /\ PromoteMin \in Nat \ {0}
    /\ MaxCommands \in Nat /\ MaxFaults \in Nat

VARIABLES
    role,     \* role[m]: "unregistered" before its row exists
    samples,  \* samples[m]: ai_shadow_evaluations, in order
    breaker,  \* the process's circuit breakers
    shadowing, \* FALSE while the kill switch ai_model_canary is on
    file,     \* file[f]: source_files.status, "absent" before the upload
    stored,   \* the files whose questions are stored
    request,  \* request[f]: where the upload's request is
    command,  \* command[o]: what an operator's promote or halt has read
    commands, faults, \* counters of the bounds
    failures, \* failures of the provider since it last answered
    pardoned  \* canaries that wait for the first sample to be judged by

vars == <<role, samples, breaker, shadowing, file, stored, request, command,
          commands, faults, failures, pardoned>>

None == "none"
Keys == {"provider"} \cup Models
Closed == [state |-> "closed", failures |-> 0, cooled |-> FALSE]
NoRequest == [step |-> "none", canary |-> None, outcome |-> "none", row |-> None]
NoCommand == [kind |-> "none", row |-> None]

Init ==
    /\ role = Registry
    /\ samples \in Pasts
    /\ breaker = [k \in Keys |-> Closed]
    /\ shadowing = TRUE
    /\ file = [f \in Files |-> "absent"]
    /\ stored = {}
    /\ request = [f \in Files |-> NoRequest]
    /\ command = [o \in Operators |-> NoCommand]
    /\ commands = 0
    /\ faults = 0
    /\ failures = 0
    /\ pardoned = {m \in Models : Registry[m] = "canary"}

At(f, step) == request[f].step = step
Goes(f, step) == request' = [request EXCEPT ![f].step = step]
\* Goes on, done with the canary.
Leaves(f, step) == request' = [request EXCEPT ![f] = [NoRequest EXCEPT !.step = step]]

registryVars == <<role, samples, shadowing, command, commands, pardoned>>
fileVars == <<file, stored>>
breakerVars == <<breaker, failures>>

-----------------------------------------------------------------------------
(* The circuit breaker. *)

\* Open, and the cooldown is not over: calls are refused.
Refuses(k) == breaker[k].state = "open" /\ ~breaker[k].cooled
ShadowKeyIsProvider(m) == "provider" \* Variant: one breaker for all calls.
ShadowKey(m) == m
Threshold(k) == IF k = "provider" THEN FailureThreshold ELSE ShadowThreshold

Called(b) == IF b.state = "open" THEN [b EXCEPT !.state = "half_open"] ELSE b
Answered(b) == Closed
Failed(b, threshold) ==
    IF b.state = "half_open" \/ b.failures + 1 >= threshold
    THEN [state |-> "open", failures |-> 0, cooled |-> FALSE]
    ELSE [b EXCEPT !.failures = @ + 1]

\* The cooldown of an open circuit elapses.
Cools(k) ==
    /\ Refuses(k)
    /\ breaker' = [breaker EXCEPT ![k].cooled = TRUE]
    /\ UNCHANGED <<registryVars, fileVars, request, faults, failures>>

-----------------------------------------------------------------------------
(* processSourceFile. *)

Upload(f) ==
    /\ file[f] = "absent"
    /\ file' = [file EXCEPT ![f] = "uploaded"]
    /\ Goes(f, "start")
    /\ UNCHANGED <<registryVars, breakerVars, stored, faults>>

Start(f) ==
    /\ At(f, "start")
    /\ file' = [file EXCEPT ![f] = "extracting"]
    /\ Goes(f, "select")
    /\ UNCHANGED <<registryVars, breakerVars, stored, faults>>

\* The monthly budget is used up, or the provider cannot be made.
Declines(f) ==
    /\ At(f, "select")
    /\ Leaves(f, "revert")
    /\ UNCHANGED <<registryVars, breakerVars, fileVars, faults>>

\* selectModels: the canary is chosen here and asked later.
With(r) == {m \in Models : role[m] = r}
Chosen(r) == IF With(r) = {} THEN None ELSE CHOOSE m \in With(r) : TRUE

Select(f) ==
    /\ At(f, "select")
    /\ request' = [request EXCEPT ![f].step = "call", ![f].canary = Chosen("canary")]
    /\ UNCHANGED <<registryVars, breakerVars, fileVars, faults>>

Call(f) ==
    /\ At(f, "call")
    /\ IF Refuses("provider")
       THEN Leaves(f, "revert") /\ UNCHANGED breaker
       ELSE Goes(f, "calling") /\ breaker' = [breaker EXCEPT !["provider"] = Called(@)]
    /\ UNCHANGED <<registryVars, fileVars, faults, failures>>

Answer(f) ==
    /\ At(f, "calling")
    /\ breaker' = [breaker EXCEPT !["provider"] = Answered(@)]
    /\ failures' = 0
    /\ Goes(f, "shadow")
    /\ UNCHANGED <<registryVars, fileVars, faults>>

\* An error of the provider, or the time limit of a call.
CallFails(f) ==
    /\ At(f, "calling")
    /\ breaker' = [breaker EXCEPT !["provider"] = Failed(@, Threshold("provider"))]
    /\ failures' = failures + 1
    /\ Leaves(f, "revert")
    /\ UNCHANGED <<registryVars, fileVars, faults>>

\* The file can be extracted again, says the code.
Revert(f) ==
    /\ At(f, "revert")
    /\ file' = [file EXCEPT ![f] = "uploaded"]
    /\ Leaves(f, "refused")
    /\ UNCHANGED <<registryVars, breakerVars, stored, faults>>

\* One transaction for each question, then the file's status.
Store(f) ==
    /\ At(f, "store")
    /\ stored' = stored \cup {f}
    /\ Leaves(f, "finish")
    /\ UNCHANGED <<registryVars, breakerVars, file, faults>>

Finish(f) ==
    /\ At(f, "finish")
    /\ file' = [file EXCEPT ![f] = "review_required"]
    /\ Leaves(f, "done")
    /\ UNCHANGED <<registryVars, breakerVars, stored, faults>>

\* A statement outside the try fails, the record of the usage (after the
\* answer) among them: the request ends and nobody puts the file back.
Throws(f) ==
    /\ request[f].step \in {"start", "select", "revert", "shadow", "store", "finish"}
    /\ faults < MaxFaults
    /\ faults' = faults + 1
    /\ Leaves(f, "dead")
    /\ UNCHANGED <<registryVars, breakerVars, fileVars>>

-----------------------------------------------------------------------------
(* runCanaryShadow, between the answer and the storing. *)

\* The kill switch is read, the canary is the one selected before the call.
SkipShadow(f) ==
    /\ At(f, "shadow")
    /\ ~shadowing \/ request[f].canary = None
    /\ Leaves(f, "store")
    /\ UNCHANGED <<registryVars, breakerVars, fileVars, faults>>

CallCanary(f) ==
    LET key == ShadowKey(request[f].canary)
    IN  /\ At(f, "shadow")
        /\ shadowing
        /\ request[f].canary # None
        /\ IF Refuses(key)
           THEN /\ request' = [request EXCEPT ![f].step = "sample", ![f].outcome = "failed"]
                /\ UNCHANGED breaker
           ELSE /\ Goes(f, "shadowing")
                /\ breaker' = [breaker EXCEPT ![key] = Called(@)]
        /\ UNCHANGED <<registryVars, fileVars, faults, failures>>

\* The score of a canary's answer is reduced to full agreement or none.
Scores == {"agree", "differ"}

CanaryEnds(f) ==
    LET key == ShadowKey(request[f].canary)
    IN  /\ At(f, "shadowing")
        /\ \E outcome \in Scores \cup {"failed"} :
              /\ request' = [request EXCEPT ![f].step = "sample", ![f].outcome = outcome]
              /\ breaker' = [breaker EXCEPT ![key] =
                    IF outcome = "failed" THEN Failed(@, Threshold(key)) ELSE Answered(@)]
        /\ UNCHANGED <<registryVars, fileVars, faults, failures>>

RecordSample(f) ==
    LET m == request[f].canary
    IN  /\ At(f, "sample")
        /\ samples' = [samples EXCEPT ![m] = Append(@, request[f].outcome)]
        /\ pardoned' = pardoned \ {m}
        /\ Goes(f, "judge")
        /\ UNCHANGED <<role, shadowing, command, commands, breakerVars, fileVars, faults>>

Count(s, outcomes) == Len(SelectSeq(s, LAMBDA x : x \in outcomes))
Recent(s) == SubSeq(s, Len(s) - HaltWindow + 1, Len(s))
Window(s) == IF Len(s) > HaltWindow THEN Recent(s) ELSE s

\* evaluateHalt: more than a quarter failed, or under 60 % agreement.
HaltDue(s) ==
    /\ Len(s) >= HaltMin
    /\ \/ 4 * Count(s, {"failed"}) > Len(s)
       \/ 10 * Count(s, {"agree"}) < 6 * Count(s, Scores)

\* Variant: only calls that were answered count.
JudgedOnAnswers(m) == HaltDue(SelectSeq(Window(samples[m]), LAMBDA x : x # "failed"))
Judged(m) == HaltDue(Window(samples[m]))

Judge(f) ==
    /\ At(f, "judge")
    /\ IF Judged(request[f].canary) THEN Goes(f, "aim") ELSE Leaves(f, "store")
    /\ UNCHANGED <<registryVars, breakerVars, fileVars, faults>>

\* haltCanary looks up which model is the canary now.
Aim(f) ==
    /\ At(f, "aim")
    /\ IF Chosen("canary") = None
       THEN Leaves(f, "store")
       ELSE request' = [request EXCEPT ![f].step = "halt", ![f].row = Chosen("canary")]
    /\ UNCHANGED <<registryVars, breakerVars, fileVars, faults>>

\* It names the row by its id.
Halted(m) == [role EXCEPT ![m] = "halted"]

HaltAutomatically(f) ==
    /\ At(f, "halt")
    /\ role' = Halted(request[f].row)
    /\ Leaves(f, "store")
    /\ UNCHANGED <<samples, shadowing, command, commands, pardoned, breakerVars, fileVars, faults>>

Evaluating == {"shadow", "sample", "judge", "aim", "halt"}
Judging == {"judge", "aim", "halt"}

\* A statement of the shadow fails: the error is swallowed.
AfterShadowErrorThrows == "thrown" \* Variant: it is thrown on.
AfterShadowError == "store"

ShadowBreaks(f) ==
    /\ request[f].step \in Evaluating
    /\ faults < MaxFaults
    /\ faults' = faults + 1
    /\ pardoned' = IF request[f].step \in Judging THEN pardoned \cup {request[f].canary} ELSE pardoned
    /\ Leaves(f, AfterShadowError)
    /\ UNCHANGED <<role, samples, shadowing, command, commands, breakerVars, fileVars>>

-----------------------------------------------------------------------------
(* The ai-canary command line. *)

Runs(o) ==
    /\ command[o].kind = "none"
    /\ commands < MaxCommands
    /\ commands' = commands + 1

\* Unique indexes: one active and one canary.
Register(o, m, r) ==
    /\ Runs(o)
    /\ r \in {"active", "canary"} => With(r) \subseteq {m}
    /\ role' = [role EXCEPT ![m] = r]
    /\ pardoned' = pardoned \cup {m}
    /\ UNCHANGED <<samples, shadowing, command, breakerVars, fileVars, request, faults>>

\* evaluatePromotionGate; a model may also be too slow or too expensive.
Promotable(s) ==
    /\ Len(s) >= PromoteMin
    /\ 50 * Count(s, {"failed"}) <= Len(s)
    /\ Count(s, Scores) > 0
    /\ 20 * Count(s, {"agree"}) >= 19 * Count(s, Scores)

ReadPromote(o) ==
    /\ Runs(o)
    /\ \E m \in With("canary") :
          /\ Promotable(samples[m])
          /\ command' = [command EXCEPT ![o] = [kind |-> "promote", row |-> m]]
    /\ UNCHANGED <<role, samples, shadowing, pardoned, breakerVars, fileVars, request, faults>>

\* The active model retires, the row read becomes active.
Promoted(row) ==
    [m \in Models |-> IF m = row THEN "active"
                      ELSE IF role[m] = "active" THEN "retired" ELSE role[m]]

WritePromote(o) ==
    /\ command[o].kind = "promote"
    /\ role' = Promoted(command[o].row)
    /\ command' = [command EXCEPT ![o] = NoCommand]
    /\ UNCHANGED <<samples, shadowing, commands, pardoned, breakerVars, fileVars, request, faults>>

ReadHalt(o) ==
    /\ Runs(o)
    /\ \E m \in With("canary") : command' = [command EXCEPT ![o] = [kind |-> "halt", row |-> m]]
    /\ UNCHANGED <<role, samples, shadowing, pardoned, breakerVars, fileVars, request, faults>>

WriteHalt(o) ==
    /\ command[o].kind = "halt"
    /\ role' = Halted(command[o].row)
    /\ command' = [command EXCEPT ![o] = NoCommand]
    /\ UNCHANGED <<samples, shadowing, commands, pardoned, breakerVars, fileVars, request, faults>>

\* The kill switch of shadow evaluations.
SetShadowing(o) ==
    /\ Runs(o)
    /\ shadowing' = ~shadowing
    /\ UNCHANGED <<role, samples, command, pardoned, breakerVars, fileVars, request, faults>>

-----------------------------------------------------------------------------
\* The server dies with its requests and its breakers.
Crash ==
    /\ faults < MaxFaults
    /\ faults' = faults + 1
    /\ breaker' = [k \in Keys |-> Closed]
    /\ failures' = 0
    /\ pardoned' = pardoned \cup {request[f].canary : f \in {g \in Files : request[g].step \in Judging}}
    /\ request' = [f \in Files |->
                     IF request[f].step \in {"none", "refused", "done"} THEN request[f]
                     ELSE [NoRequest EXCEPT !.step = "dead"]]
    /\ UNCHANGED <<role, samples, shadowing, command, commands, fileVars>>

Proceeds(f) ==
    \/ Start(f) \/ Declines(f) \/ Select(f) \/ Call(f) \/ Answer(f) \/ CallFails(f)
    \/ Revert(f) \/ Store(f) \/ Finish(f)
    \/ SkipShadow(f) \/ CallCanary(f) \/ CanaryEnds(f) \/ RecordSample(f)
    \/ Judge(f) \/ Aim(f) \/ HaltAutomatically(f)

Next ==
    \/ \E k \in Keys : Cools(k)
    \/ \E f \in Files : Upload(f) \/ Proceeds(f) \/ Throws(f) \/ ShadowBreaks(f)
    \/ \E o \in Operators :
          \/ \E m \in Models, r \in {"candidate", "canary", "active"} : Register(o, m, r)
          \/ ReadPromote(o) \/ WritePromote(o) \/ ReadHalt(o) \/ WriteHalt(o)
          \/ SetShadowing(o)
    \/ Crash

\* A request goes on: calls are limited in time, statements end.
Fairness == \A f \in Files : WF_vars(Proceeds(f))

Spec == Init /\ [][Next]_vars
FairSpec == Spec /\ Fairness
-----------------------------------------------------------------------------
(* Properties. *)

\* Whatever the canary does: the circuit of the provider is open only after
\* as many failures of the provider's own, without an answer in between.
CanaryIsInvisible == breaker["provider"].state # "closed" => failures >= FailureThreshold

\* A canary is not sampled on once its recent samples are over the threshold:
\* the upload that recorded the last one is about to halt it.  Left out are
\* canaries without a sample since they were registered, whose old samples
\* nobody has judged by yet, and those whose last judgement was cut off, by an
\* error or with the server: they are judged with the next sample (pardoned).
SickCanaryIsHalted ==
    \A m \in With("canary") \ pardoned :
        HaltDue(Window(samples[m])) =>
            \E f \in Files : request[f].canary = m /\ request[f].step \in Judging

\* No file stays in extraction, whatever the provider and the canary do, unless
\* its request died: with the server, or of an error outside the one try that
\* puts the file back (Throws), after which nobody takes the file up.
ExtractionsEnd == \A f \in Files : file[f] = "extracting" ~> file[f] # "extracting" \/ At(f, "dead")

\* "With fewer samples than this it is not halted" (model-registry.ts:288).
NewCanaryIsSpared ==
    [][\A m \in Models, f \in Files :
        At(f, "halt") /\ At(f, "store")' /\ role[m] = "canary" /\ role'[m] = "halted"
            => Len(samples[m]) >= HaltMin]_vars

\* "To become a canary again it must be registered" (model-registry.ts:22).
HaltedUntilRegistered ==
    [][\A m \in Models : role[m] = "halted" /\ role'[m] # "halted" => commands' # commands]_vars

\* "half_open: one trial" (circuit-breaker.ts:6).
OneTrial ==
    \A f, g \in Files :
        breaker["provider"].state = "half_open" /\ At(f, "calling") /\ At(g, "calling") => f = g
=============================================================================
