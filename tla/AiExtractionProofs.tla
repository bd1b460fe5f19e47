------------------------- MODULE AiExtractionProofs -------------------------
(***************************************************************************)
(* What AiExtraction does for any number of uploads, models, providers and  *)
(* operators, any thresholds and any number of outages and crashes.         *)
(***************************************************************************)
EXTENDS AiExtraction, TLAPS

-----------------------------------------------------------------------------
(* Extractions and the canary *)

Steps == {"none", "start", "select", "call", "calling", "revert", "refused", "shadow", "shadowing",
          "sample", "judge", "aim", "halt", "store", "finish", "done", "dead"}
Outcomes == {"none", "agree", "differ", "failed"}
RequestRow == [step : Steps, canary : Models \cup {None}, outcome : Outcomes, row : Models \cup {None}]
AfterCanary == {"shadowing", "sample", "judge", "aim", "halt"}

\* A request that asks a canary, or judges it, has one.
RequestsAsk ==
    /\ request \in [Files -> RequestRow]
    /\ \A f \in Files : request[f].step \in AfterCanary => request[f].canary \in Models

\* A step of one request, which asks its canary or none.
Advances(f) ==
    /\ \E r \in RequestRow :
          /\ request' = [request EXCEPT ![f] = r]
          /\ r.step \in AfterCanary => r.canary \in Models

LEMMA RequestKinds ==
    /\ NoRequest \in RequestRow
    /\ \A step \in Steps : [NoRequest EXCEPT !.step = step] \in RequestRow
BY DEF NoRequest, RequestRow, Steps, Outcomes, None

\* Where a request goes: on, or on without its canary.
LEMMA GoesAdvances ==
  ASSUME RequestsAsk, NEW f \in Files, NEW step \in Steps, Goes(f, step),
         step \in AfterCanary => request[f].canary \in Models
  PROVE  Advances(f)
<1> DEFINE r == [request[f] EXCEPT !.step = step]
<1>1. request' = [request EXCEPT ![f] = r]
  BY DEF Goes
<1>2. request[f] \in RequestRow
  BY DEF RequestsAsk
<1>3. r \in RequestRow /\ r.step = step /\ r.canary = request[f].canary
  BY <1>2 DEF RequestRow
<1> QED BY <1>1, <1>3 DEF Advances

LEMMA LeavesAdvances ==
  ASSUME RequestsAsk, NEW f \in Files, NEW step \in Steps \ AfterCanary, Leaves(f, step)
  PROVE  Advances(f)
<1> DEFINE r == [NoRequest EXCEPT !.step = step]
<1>1. request' = [request EXCEPT ![f] = r]
  BY DEF Leaves
<1>2. r \in RequestRow /\ r.step = step
  BY RequestKinds DEF NoRequest
<1> QED BY <1>1, <1>2 DEF Advances

LEMMA AdvanceAsks ==
  ASSUME RequestsAsk, NEW f \in Files, Advances(f)
  PROVE  RequestsAsk'
<1>1. PICK r \in RequestRow : /\ request' = [request EXCEPT ![f] = r]
                              /\ r.step \in AfterCanary => r.canary \in Models
  BY DEF Advances
<1> QED BY <1>1 DEF RequestsAsk

\* Every step of an upload moves its own request only.
LEMMA UploadAdvances ==
  ASSUME RequestsAsk, NEW f \in Files, Upload(f) \/ Proceeds(f) \/ Throws(f) \/ ShadowBreaks(f)
  PROVE  Advances(f)
<1> USE DEF Steps, AfterCanary
<1>0. request[f] \in RequestRow /\ (request[f].step \in AfterCanary => request[f].canary \in Models)
  BY DEF RequestsAsk
<1>1. CASE Upload(f)
  BY <1>1, GoesAdvances DEF Upload
<1>2. CASE Start(f) \/ Answer(f)
  BY <1>2, GoesAdvances DEF Start, Answer
<1>3. CASE Declines(f) \/ CallFails(f) \/ Revert(f) \/ Store(f) \/ Finish(f) \/ SkipShadow(f)
           \/ HaltAutomatically(f) \/ Throws(f)
  BY <1>3, LeavesAdvances DEF Declines, CallFails, Revert, Store, Finish, SkipShadow, HaltAutomatically,
     Throws
<1>4. CASE ShadowBreaks(f)
  BY <1>4, LeavesAdvances DEF ShadowBreaks, AfterShadowError
<1>5. CASE Select(f)
  <2> DEFINE r == [request[f] EXCEPT !.step = "call", !.canary = Chosen("canary")]
  <2>1. request' = [request EXCEPT ![f] = r]
    BY <1>5 DEF Select
  <2>2. Chosen("canary") \in Models \cup {None}
    BY DEF Chosen, With
  <2>3. r \in RequestRow /\ r.step = "call"
    BY <1>0, <2>2 DEF RequestRow
  <2> QED BY <2>1, <2>3 DEF Advances
<1>6. CASE Call(f)
  BY <1>6, GoesAdvances, LeavesAdvances DEF Call
<1>7. CASE CallCanary(f) \/ CanaryEnds(f)
  <2>1. request[f].canary \in Models
    BY <1>0, <1>7 DEF CallCanary, CanaryEnds, At, RequestRow
  <2>2. CASE Goes(f, "shadowing")
    BY <2>1, <2>2, GoesAdvances
  <2>3. CASE \E outcome \in Scores \cup {"failed"} :
                request' = [request EXCEPT ![f].step = "sample", ![f].outcome = outcome]
    <3>1. PICK outcome \in Outcomes :
                request' = [request EXCEPT ![f].step = "sample", ![f].outcome = outcome]
      BY <2>3 DEF Scores, Outcomes
    <3> DEFINE r == [request[f] EXCEPT !.step = "sample", !.outcome = outcome]
    <3>2. request' = [request EXCEPT ![f] = r]
      BY <3>1
    <3>3. r \in RequestRow /\ r.canary = request[f].canary
      BY <1>0 DEF RequestRow
    <3> QED BY <2>1, <3>2, <3>3 DEF Advances
  <2> QED BY <1>7, <2>2, <2>3 DEF CallCanary, CanaryEnds
<1>8. CASE RecordSample(f) \/ Judge(f)
  BY <1>0, <1>8, GoesAdvances, LeavesAdvances DEF RecordSample, Judge, At
<1>9. CASE Aim(f)
  <2>1. CASE Leaves(f, "store")
    BY <2>1, LeavesAdvances
  <2>2. CASE request' = [request EXCEPT ![f].step = "halt", ![f].row = Chosen("canary")]
    <3> DEFINE r == [request[f] EXCEPT !.step = "halt", !.row = Chosen("canary")]
    <3>1. request' = [request EXCEPT ![f] = r]
      BY <2>2
    <3>2. Chosen("canary") \in Models \cup {None}
      BY DEF Chosen, With
    <3>3. r \in RequestRow /\ r.canary = request[f].canary
      BY <1>0, <3>2 DEF RequestRow
    <3>4. request[f].canary \in Models
      BY <1>0, <1>9 DEF Aim, At
    <3> QED BY <3>1, <3>3, <3>4 DEF Advances
  <2> QED BY <1>9, <2>1, <2>2 DEF Aim
<1> QED BY <1>1, <1>2, <1>3, <1>4, <1>5, <1>6, <1>7, <1>8, <1>9 DEF Proceeds

LEMMA RequestsInit == Init => RequestsAsk
BY RequestKinds DEF Init, RequestsAsk, NoRequest, AfterCanary

\* No step gives a request a canary that it does not have.
LEMMA RequestsKept == RequestsAsk /\ [Next]_vars => RequestsAsk'
<1> SUFFICES ASSUME RequestsAsk, [Next]_vars PROVE RequestsAsk'
  OBVIOUS
<1>1. CASE UNCHANGED request
  BY <1>1 DEF RequestsAsk
<1>2. ASSUME NEW f \in Files, Upload(f) \/ Proceeds(f) \/ Throws(f) \/ ShadowBreaks(f)
      PROVE  RequestsAsk'
  BY <1>2, UploadAdvances, AdvanceAsks
<1>3. CASE Crash
  <2>1. \A f \in Files : request[f] \in RequestRow /\ [NoRequest EXCEPT !.step = "dead"] \in RequestRow
    BY RequestKinds DEF RequestsAsk, Steps
  <2> QED BY <1>3, <2>1 DEF Crash, RequestsAsk, AfterCanary, NoRequest
<1>4. ASSUME NEW o \in Operators,
             \/ \E m \in Models, r \in {"candidate", "canary", "active"} : Register(o, m, r)
             \/ ReadPromote(o) \/ WritePromote(o) \/ ReadHalt(o) \/ WriteHalt(o)
             \/ SetShadowing(o)
      PROVE  UNCHANGED request
  BY <1>4 DEF Register, ReadPromote, WritePromote, ReadHalt, WriteHalt, SetShadowing
<1>5. ASSUME NEW k \in Keys, Cools(k) PROVE UNCHANGED request
  BY <1>5 DEF Cools
<1> QED BY <1>1, <1>2, <1>3, <1>4, <1>5 DEF Next, vars

\* The canary's failures never reach the provider's breaker, which counts at most
\* the failures since the last answer.
Breaker == [state : {"closed", "open", "half_open"}, failures : Nat, cooled : BOOLEAN]

ProviderOnly ==
    /\ breaker \in [Keys -> Breaker]
    /\ failures \in Nat
    /\ breaker["provider"].failures <= failures
    /\ CanaryIsInvisible

LEMMA BreakerKinds ==
    /\ Closed \in Breaker
    /\ \A b \in Breaker : Called(b) \in Breaker /\ Answered(b) \in Breaker
    /\ \A b \in Breaker, n \in Nat : Failed(b, n) \in Breaker
<1>1. Closed \in Breaker
  BY DEF Closed, Breaker
<1>2. ASSUME NEW b \in Breaker PROVE Called(b) \in Breaker /\ Answered(b) \in Breaker
  BY <1>1 DEF Called, Answered, Breaker
<1>3. ASSUME NEW b \in Breaker, NEW n \in Nat PROVE Failed(b, n) \in Breaker
  BY DEF Failed, Breaker
<1> QED BY <1>1, <1>2, <1>3

LEMMA ProviderInit == Init => ProviderOnly
BY BreakerKinds DEF Init, ProviderOnly, CanaryIsInvisible, Keys, Closed

\* A step that leaves the provider's breaker alone.
LEMMA OthersBreak ==
  ASSUME ProviderOnly, UNCHANGED failures, NEW k \in Models, NEW b \in Breaker,
         breaker' = [breaker EXCEPT ![k] = b]
  PROVE  ProviderOnly'
<1>1. k # "provider" /\ k \in Keys /\ "provider" \in Keys
  BY ExtractionAssumption DEF Keys
<1> QED BY <1>1 DEF ProviderOnly, CanaryIsInvisible

LEMMA ProviderStep == RequestsAsk /\ ProviderOnly /\ [Next]_vars => ProviderOnly'
<1> SUFFICES ASSUME RequestsAsk, ProviderOnly, [Next]_vars PROVE ProviderOnly'
  OBVIOUS
<1> DEFINE b == breaker["provider"]
<1>0. /\ "provider" \in Keys /\ b \in Breaker /\ failures \in Nat
      /\ breaker \in [Keys -> Breaker]
      /\ FailureThreshold \in Nat \ {0} /\ ShadowThreshold \in Nat \ {0}
      /\ b.state \in {"closed", "open", "half_open"} /\ b.failures \in Nat /\ b.cooled \in BOOLEAN
  BY ExtractionAssumption DEF Keys, ProviderOnly, Breaker
<1>1. CASE UNCHANGED <<breaker, failures>>
  BY <1>1 DEF ProviderOnly, CanaryIsInvisible
<1>2. ASSUME NEW k \in Keys, Cools(k) PROVE ProviderOnly'
  <2>1. breaker' = [breaker EXCEPT ![k] = [breaker[k] EXCEPT !.cooled = TRUE]] /\ UNCHANGED failures
    BY <1>2 DEF Cools
  <2>2. [breaker[k] EXCEPT !.cooled = TRUE] \in Breaker
    BY <1>0 DEF Breaker
  <2>3. breaker' \in [Keys -> Breaker]
    BY <1>0, <2>1, <2>2
  <2>4. breaker'["provider"].state = b.state /\ breaker'["provider"].failures = b.failures
    BY <1>0, <2>1 DEF Breaker
  <2> QED BY <2>1, <2>3, <2>4 DEF ProviderOnly, CanaryIsInvisible
<1>3. ASSUME NEW f \in Files, Call(f) PROVE ProviderOnly'
  <2>1. CASE UNCHANGED <<breaker, failures>>
    BY <1>1, <2>1
  <2>2. CASE breaker' = [breaker EXCEPT !["provider"] = Called(@)] /\ UNCHANGED failures
    <3>1. breaker' \in [Keys -> Breaker] /\ breaker'["provider"] = Called(b)
      BY <1>0, <2>2, BreakerKinds
    <3>2. /\ Called(b).failures = b.failures
          /\ Called(b).state # "closed" => b.state # "closed"
      BY <1>0 DEF Called, Breaker
    <3> QED BY <2>2, <3>1, <3>2 DEF ProviderOnly, CanaryIsInvisible
  <2> QED BY <1>3, <2>1, <2>2 DEF Call
<1>4. ASSUME NEW f \in Files, Answer(f) PROVE ProviderOnly'
  <2>1. breaker' = [breaker EXCEPT !["provider"] = Closed] /\ failures' = 0
    BY <1>4 DEF Answer, Answered
  <2>2. breaker' \in [Keys -> Breaker] /\ breaker'["provider"] = Closed
    BY <1>0, <2>1, BreakerKinds
  <2> QED BY <2>1, <2>2 DEF ProviderOnly, CanaryIsInvisible, Closed
<1>5. ASSUME NEW f \in Files, CallFails(f) PROVE ProviderOnly'
  <2>1. breaker' = [breaker EXCEPT !["provider"] = Failed(@, FailureThreshold)] /\ failures' = failures + 1
    BY <1>5 DEF CallFails, Threshold
  <2>2. breaker' \in [Keys -> Breaker] /\ breaker'["provider"] = Failed(b, FailureThreshold)
    BY <1>0, <2>1, BreakerKinds
  <2>3. CASE b.state = "half_open" \/ b.failures + 1 >= FailureThreshold
    <3>1. failures + 1 >= FailureThreshold
      BY <1>0, <2>3 DEF ProviderOnly, CanaryIsInvisible
    <3>2. breaker'["provider"].failures = 0
      BY <2>2, <2>3 DEF Failed
    <3> QED BY <1>0, <2>1, <2>2, <3>1, <3>2 DEF ProviderOnly, CanaryIsInvisible
  <2>4. CASE ~(b.state = "half_open" \/ b.failures + 1 >= FailureThreshold)
    <3>1. breaker'["provider"].state = b.state /\ breaker'["provider"].failures = b.failures + 1
      BY <1>0, <2>2, <2>4 DEF Failed, Breaker
    <3> QED BY <1>0, <2>1, <2>2, <3>1 DEF ProviderOnly, CanaryIsInvisible
  <2> QED BY <2>3, <2>4
<1>6. ASSUME NEW f \in Files, CallCanary(f) \/ CanaryEnds(f) PROVE ProviderOnly'
  <2> DEFINE k == request[f].canary
  <2>1. k \in Models
    BY <1>6 DEF CallCanary, CanaryEnds, RequestsAsk, RequestRow, At, AfterCanary
  <2>2. k \in Keys /\ breaker[k] \in Breaker /\ ShadowKey(k) = k /\ Threshold(k) \in Nat
    BY <1>0, <2>1 DEF Keys, ShadowKey, Threshold
  <2>3. \/ UNCHANGED breaker
        \/ breaker' = [breaker EXCEPT ![k] = Called(breaker[k])]
        \/ breaker' = [breaker EXCEPT ![k] = Failed(breaker[k], Threshold(k))]
        \/ breaker' = [breaker EXCEPT ![k] = Answered(breaker[k])]
    BY <1>6, <2>2 DEF CallCanary, CanaryEnds
  <2>4. UNCHANGED failures
    BY <1>6 DEF CallCanary, CanaryEnds
  <2> HIDE DEF k
  <2> QED BY <1>1, <2>1, <2>2, <2>3, <2>4, BreakerKinds, OthersBreak
<1>7. ASSUME NEW f \in Files,
             \/ Upload(f) \/ Start(f) \/ Declines(f) \/ Select(f) \/ Revert(f) \/ Store(f) \/ Finish(f)
             \/ SkipShadow(f) \/ RecordSample(f) \/ Judge(f) \/ Aim(f) \/ HaltAutomatically(f)
             \/ Throws(f) \/ ShadowBreaks(f)
      PROVE  UNCHANGED <<breaker, failures>>
  BY <1>7 DEF Upload, Start, Declines, Select, Revert, Store, Finish, SkipShadow, RecordSample, Judge,
     Aim, HaltAutomatically, Throws, ShadowBreaks, breakerVars
<1>8. ASSUME NEW o \in Operators,
             \/ \E m \in Models, r \in {"candidate", "canary", "active"} : Register(o, m, r)
             \/ ReadPromote(o) \/ WritePromote(o) \/ ReadHalt(o) \/ WriteHalt(o)
             \/ SetShadowing(o)
      PROVE  UNCHANGED <<breaker, failures>>
  BY <1>8 DEF Register, ReadPromote, WritePromote, ReadHalt, WriteHalt, SetShadowing, breakerVars
<1>9. CASE Crash
  <2>1. breaker' = [k \in Keys |-> Closed] /\ failures' = 0
    BY <1>9 DEF Crash
  <2> QED BY <1>0, <2>1, BreakerKinds DEF ProviderOnly, CanaryIsInvisible, Closed
<1>10. CASE UNCHANGED vars
  BY <1>1, <1>10 DEF vars
<1> QED BY <1>1, <1>2, <1>3, <1>4, <1>5, <1>6, <1>7, <1>8, <1>9, <1>10 DEF Next, Proceeds

\* Whatever a canary does, the provider's circuit opens by the provider's own
\* failures only, for any number of uploads and models.
THEOREM CanariesAreInvisible == Spec => []CanaryIsInvisible
<1>1. ProviderOnly => CanaryIsInvisible
  BY DEF ProviderOnly
<1> QED BY <1>1, RequestsInit, RequestsKept, ProviderInit, ProviderStep, PTL DEF Spec

-----------------------------------------------------------------------------
(* Canaries are halted                                                     *)

\* An upload is between the sample and the halt of canary m.
Judges(m) ==
    \E f \in Files :
        /\ request[f].canary = m
        /\ \/ request[f].step \in {"judge", "aim"}
           \/ request[f].step = "halt" /\ request[f].row = m

\* A canary over the threshold is about to be halted by the upload that saw it:
\* with one canary at a time, the row it looked up is the one it judged.
CanariesJudged ==
    /\ role \in [Models -> {"unregistered", "candidate", "canary", "active", "halted", "retired"}]
    /\ samples \in [Models -> Seq(Outcomes)]
    /\ \A m, n \in With("canary") : m = n
    /\ \A m \in With("canary") \ pardoned : HaltDue(Window(samples[m])) => Judges(m)

\* A file has no request before its upload.
UploadsFirst ==
    /\ file \in [Files -> {"absent", "uploaded", "extracting", "review_required"}]
    /\ \A f \in Files : file[f] = "absent" => request[f].step = "none"

LEMMA UploadsFirstInit == Init => UploadsFirst
BY DEF Init, UploadsFirst, NoRequest

LEMMA UploadsFirstStep == RequestsAsk /\ UploadsFirst /\ [Next]_vars => UploadsFirst'
<1> SUFFICES ASSUME RequestsAsk, UploadsFirst, [Next]_vars PROVE UploadsFirst'
  OBVIOUS
<1>1. CASE UNCHANGED <<file, request>>
  BY <1>1 DEF UploadsFirst
<1>2. ASSUME NEW f \in Files, Upload(f) \/ Proceeds(f) \/ Throws(f) \/ ShadowBreaks(f)
      PROVE  UploadsFirst'
  <2>1. \A g \in Files \ {f} : request'[g] = request[g]
    BY <1>2, UploadAdvances DEF Advances, RequestsAsk
  <2>2. CASE Upload(f)
    BY <2>1, <2>2 DEF Upload, UploadsFirst
  <2>3. CASE ~Upload(f)
    <3>1. request[f].step # "none"
      BY <1>2, <2>3 DEF Proceeds, Throws, ShadowBreaks, Evaluating, At, Start, Declines, Select, Call, Answer,
         CallFails, Revert, Store, Finish, SkipShadow, CallCanary, CanaryEnds, RecordSample, Judge, Aim,
         HaltAutomatically
    <3>2. file[f] # "absent"
      BY <3>1 DEF UploadsFirst
    <3>3. \/ UNCHANGED file
          \/ file' = [file EXCEPT ![f] = "extracting"]
          \/ file' = [file EXCEPT ![f] = "uploaded"]
          \/ file' = [file EXCEPT ![f] = "review_required"]
      BY <1>2, <2>3 DEF Proceeds, Throws, ShadowBreaks, Start, Declines, Select, Call, Answer,
         CallFails, Revert, Store, Finish, SkipShadow, CallCanary, CanaryEnds, RecordSample, Judge, Aim,
         HaltAutomatically, fileVars
    <3>4. /\ file' \in [Files -> {"absent", "uploaded", "extracting", "review_required"}]
          /\ file'[f] # "absent" /\ \A g \in Files \ {f} : file'[g] = file[g]
      BY <3>2, <3>3 DEF UploadsFirst
    <3> QED BY <2>1, <3>4 DEF UploadsFirst
  <2> QED BY <2>2, <2>3
<1>3. CASE Crash
  BY <1>3 DEF Crash, UploadsFirst, fileVars
<1>4. ASSUME NEW o \in Operators,
             \/ \E m \in Models, r \in {"candidate", "canary", "active"} : Register(o, m, r)
             \/ ReadPromote(o) \/ WritePromote(o) \/ ReadHalt(o) \/ WriteHalt(o)
             \/ SetShadowing(o)
      PROVE  UNCHANGED <<file, request>>
  BY <1>4 DEF Register, ReadPromote, WritePromote, ReadHalt, WriteHalt, SetShadowing, fileVars
<1>5. ASSUME NEW k \in Keys, Cools(k) PROVE UNCHANGED <<file, request>>
  BY <1>5 DEF Cools, fileVars
<1>6. CASE UNCHANGED vars
  BY <1>1, <1>6 DEF vars
<1> QED BY <1>1, <1>2, <1>3, <1>4, <1>5, <1>6 DEF Next

\* What keeps the judgement: no sample is added, no model becomes the canary,
\* and those who judge one that stays go on.
LEMMA JudgementStands ==
  ASSUME CanariesJudged, UNCHANGED samples,
         role' \in [Models -> {"unregistered", "candidate", "canary", "active", "halted", "retired"}],
         \A m \in Models : role'[m] = "canary" => role[m] = "canary",
         pardoned \subseteq pardoned',
         \A m \in Models \ pardoned' :
            role'[m] = "canary" /\ HaltDue(Window(samples[m])) /\ Judges(m) => Judges(m)'
  PROVE  CanariesJudged'
<1>1. \A m, n \in With("canary")' : m = n
  BY DEF CanariesJudged, With
<1>2. ASSUME NEW m \in Models, role'[m] = "canary", m \notin pardoned', HaltDue(Window(samples[m]))'
      PROVE  Judges(m)'
  <2>1. HaltDue(Window(samples[m])) /\ role[m] = "canary" /\ m \notin pardoned
    BY <1>2
  <2>2. Judges(m)
    BY <2>1 DEF CanariesJudged, With
  <2> QED BY <1>2, <2>1, <2>2
<1> QED BY <1>1, <1>2 DEF CanariesJudged, With

\* A request that judges nobody may go wherever it goes.
LEMMA OtherJudgesStay ==
  ASSUME CanariesJudged, RequestsAsk, UNCHANGED <<role, samples>>, pardoned \subseteq pardoned',
         NEW f \in Files, Advances(f), request[f].step \notin Judging
  PROVE  CanariesJudged'
<1>1. \A g \in Files \ {f} : request'[g] = request[g]
  BY DEF Advances, RequestsAsk
<1>2. ASSUME NEW m, Judges(m) PROVE Judges(m)'
  BY <1>1, <1>2 DEF Judges, Judging
<1>3. /\ role' \in [Models -> {"unregistered", "candidate", "canary", "active", "halted", "retired"}]
      /\ \A m \in Models : role'[m] = "canary" => role[m] = "canary"
  BY DEF CanariesJudged
<1> QED BY <1>2, <1>3, JudgementStands

LEMMA JudgedInit == Init => CanariesJudged
<1> SUFFICES ASSUME Init PROVE CanariesJudged
  OBVIOUS
<1>1. role = Registry /\ samples \in Pasts /\ pardoned = {m \in Models : Registry[m] = "canary"}
  BY DEF Init
<1>2. samples \in [Models -> Seq({"agree", "differ", "failed"})]
  BY <1>1, ExtractionAssumption
<1>3. samples \in [Models -> Seq(Outcomes)]
  <2>1. \A s \in Seq({"agree", "differ", "failed"}) : s \in Seq(Outcomes)
    BY DEF Outcomes
  <2> QED BY <1>2, <2>1
<1>4. \A m, n \in With("canary") : m = n
  BY <1>1, ExtractionAssumption DEF With
<1> QED BY <1>1, <1>3, <1>4, ExtractionAssumption DEF CanariesJudged, With

LEMMA JudgedStep == RequestsAsk /\ UploadsFirst /\ CanariesJudged /\ [Next]_vars => CanariesJudged'
<1> SUFFICES ASSUME RequestsAsk, UploadsFirst, CanariesJudged, [Next]_vars PROVE CanariesJudged'
  OBVIOUS
<1>0. /\ role \in [Models -> {"unregistered", "candidate", "canary", "active", "halted", "retired"}]
      /\ request \in [Files -> RequestRow]
      /\ \A f \in Files : request[f].step \in AfterCanary => request[f].canary \in Models
  BY DEF CanariesJudged, RequestsAsk
<1>1. CASE UNCHANGED <<role, samples, pardoned, request>>
  <2>1. \A m : Judges(m)' = Judges(m)
    BY <1>1 DEF Judges
  <2> QED BY <1>0, <1>1, <2>1, JudgementStands
<1>2. ASSUME NEW f \in Files,
             \/ Upload(f) \/ Start(f) \/ Declines(f) \/ Select(f) \/ Call(f) \/ Answer(f) \/ CallFails(f)
             \/ Revert(f) \/ Store(f) \/ Finish(f) \/ SkipShadow(f) \/ CallCanary(f) \/ CanaryEnds(f)
             \/ Throws(f)
      PROVE  CanariesJudged'
  <2>1. UNCHANGED <<role, samples, pardoned>>
    BY <1>2 DEF Upload, Start, Declines, Select, Call, Answer, CallFails, Revert, Store, Finish, SkipShadow,
       CallCanary, CanaryEnds, Throws, registryVars
  <2>2. Advances(f)
    BY <1>2, UploadAdvances DEF Proceeds
  <2>3. request[f].step \notin Judging
    BY <1>2 DEF Upload, Start, Declines, Select, Call, Answer, CallFails, Revert, Store, Finish, SkipShadow,
       CallCanary, CanaryEnds, Throws, At, Judging, UploadsFirst
  <2> QED BY <2>1, <2>2, <2>3, OtherJudgesStay
<1>3. ASSUME NEW f \in Files, RecordSample(f) PROVE CanariesJudged'
  <2> DEFINE m == request[f].canary
  <2>1. /\ request[f].step = "sample" /\ m \in Models /\ request[f].outcome \in Outcomes
        /\ UNCHANGED role /\ pardoned' = pardoned \ {m}
        /\ samples' = [samples EXCEPT ![m] = Append(@, request[f].outcome)]
        /\ request' = [request EXCEPT ![f].step = "judge"]
    BY <1>0, <1>3 DEF RecordSample, At, Goes, AfterCanary, RequestRow
  <2>2. request'[f].step = "judge" /\ request'[f].canary = m
        /\ \A g \in Files \ {f} : request'[g] = request[g]
    BY <1>0, <2>1 DEF RequestRow
  <2>3. samples' \in [Models -> Seq(Outcomes)]
    BY <2>1 DEF CanariesJudged
  <2>4. Judges(m)'
    BY <2>2 DEF Judges
  <2>5. ASSUME NEW n \in Models \ {m}, Judges(n) PROVE Judges(n)'
    BY <2>1, <2>2, <2>5 DEF Judges
  <2>6. ASSUME NEW n \in Models, role'[n] = "canary", n \notin pardoned', HaltDue(Window(samples[n]))'
        PROVE  Judges(n)'
    <3>1. CASE n = m
      BY <2>2, <3>1 DEF Judges
    <3>2. CASE n # m
      <4>1. samples'[n] = samples[n] /\ role[n] = "canary" /\ n \notin pardoned
        BY <2>1, <2>6, <3>2 DEF CanariesJudged
      <4>2. Judges(n)
        BY <2>6, <4>1 DEF CanariesJudged, With
      <4> QED BY <2>5, <3>2, <4>2
    <3> QED BY <3>1, <3>2
  <2> QED BY <1>0, <2>1, <2>3, <2>6 DEF CanariesJudged, With
<1>4. ASSUME NEW f \in Files, Judge(f) PROVE CanariesJudged'
  <2>1. request[f].step = "judge" /\ UNCHANGED <<role, samples, pardoned>>
    BY <1>4 DEF Judge, At, registryVars
  <2>2. CASE Judged(request[f].canary)
    <3>1. request' = [request EXCEPT ![f].step = "aim"]
      BY <1>4, <2>2 DEF Judge, Goes
    <3>2. request'[f].step = "aim" /\ request'[f].canary = request[f].canary
          /\ \A g \in Files \ {f} : request'[g] = request[g]
      BY <1>0, <3>1 DEF RequestRow
    <3>3. ASSUME NEW n, Judges(n) PROVE Judges(n)'
      BY <2>1, <3>2, <3>3 DEF Judges
    <3> QED BY <1>0, <2>1, <3>3, JudgementStands
  <2>3. CASE ~Judged(request[f].canary)
    <3>1. \A g \in Files \ {f} : request'[g] = request[g]
      BY <1>0, <1>4, <2>3 DEF Judge, Leaves
    <3>2. ASSUME NEW n \in Models, HaltDue(Window(samples[n])), Judges(n) PROVE Judges(n)'
      <4>1. n # request[f].canary
        BY <2>3, <3>2 DEF Judged
      <4> QED BY <3>1, <3>2, <4>1 DEF Judges
    <3> QED BY <1>0, <2>1, <3>2, JudgementStands
  <2> QED BY <2>2, <2>3
<1>5. ASSUME NEW f \in Files, Aim(f) PROVE CanariesJudged'
  <2>1. request[f].step = "aim" /\ UNCHANGED <<role, samples, pardoned>>
    BY <1>5 DEF Aim, At, registryVars
  <2>2. CASE Chosen("canary") = None
    <3>1. \A n \in Models : role[n] # "canary"
      BY <2>2, ExtractionAssumption DEF Chosen, With, None
    <3> QED BY <1>0, <2>1, <3>1, JudgementStands
  <2>3. CASE Chosen("canary") # None
    <3>1. request' = [request EXCEPT ![f].step = "halt", ![f].row = Chosen("canary")]
      BY <1>5, <2>3 DEF Aim
    <3>2. request'[f].step = "halt" /\ request'[f].canary = request[f].canary
          /\ request'[f].row = Chosen("canary")
          /\ \A g \in Files \ {f} : request'[g] = request[g]
      BY <1>0, <3>1 DEF RequestRow
    <3>3. \A n \in Models : role[n] = "canary" => Chosen("canary") = n
      BY DEF CanariesJudged, Chosen, With
    <3>4. ASSUME NEW n \in Models, role[n] = "canary", Judges(n) PROVE Judges(n)'
      BY <2>1, <3>2, <3>3, <3>4 DEF Judges
    <3> QED BY <1>0, <2>1, <3>4, JudgementStands
  <2> QED BY <2>2, <2>3
<1>6. ASSUME NEW f \in Files, HaltAutomatically(f) PROVE CanariesJudged'
  <2> DEFINE row == request[f].row
  <2>1. /\ request[f].step = "halt" /\ UNCHANGED <<samples, pardoned>>
        /\ role' = [role EXCEPT ![row] = "halted"]
        /\ \A g \in Files \ {f} : request'[g] = request[g]
    BY <1>0, <1>6 DEF HaltAutomatically, At, Halted, Leaves
  <2>2. /\ role' \in [Models -> {"unregistered", "candidate", "canary", "active", "halted", "retired"}]
        /\ \A n \in Models : role'[n] = "canary" => role[n] = "canary" /\ n # row
    BY <1>0, <2>1
  <2>3. ASSUME NEW n \in Models, role'[n] = "canary", Judges(n) PROVE Judges(n)'
    BY <2>1, <2>2, <2>3 DEF Judges
  <2> QED BY <2>1, <2>2, <2>3, JudgementStands
<1>7. ASSUME NEW f \in Files, ShadowBreaks(f) PROVE CanariesJudged'
  <2>1. UNCHANGED <<role, samples>> /\ pardoned \subseteq pardoned' /\ Advances(f)
        /\ (request[f].step \in Judging => request[f].canary \in pardoned')
    BY <1>7, UploadAdvances DEF ShadowBreaks
  <2>2. \A g \in Files \ {f} : request'[g] = request[g]
    BY <1>0, <2>1 DEF Advances
  <2>3. ASSUME NEW n \in Models \ pardoned', Judges(n) PROVE Judges(n)'
    BY <2>1, <2>2, <2>3 DEF Judges, Judging
  <2> QED BY <1>0, <2>1, <2>3, JudgementStands
<1>8. CASE Crash
  <2>1. UNCHANGED <<role, samples>> /\ pardoned \subseteq pardoned'
        /\ \A f \in Files : request[f].step \in Judging => request[f].canary \in pardoned'
    BY <1>8 DEF Crash
  <2>2. ASSUME NEW n \in Models \ pardoned' PROVE ~Judges(n)
    BY <2>1 DEF Judges, Judging
  <2> QED BY <1>0, <2>1, <2>2, JudgementStands
<1>9. ASSUME NEW o \in Operators, NEW m \in Models, NEW r \in {"candidate", "canary", "active"},
             Register(o, m, r)
      PROVE  CanariesJudged'
  <2>1. /\ UNCHANGED <<samples, request>> /\ pardoned' = pardoned \cup {m}
        /\ role' = [role EXCEPT ![m] = r]
        /\ r = "canary" => With("canary") \subseteq {m}
    BY <1>9 DEF Register
  <2>2. role' \in [Models -> {"unregistered", "candidate", "canary", "active", "halted", "retired"}]
    BY <1>0, <2>1
  <2>3. \A n, k \in Models : role'[n] = "canary" /\ role'[k] = "canary" => n = k
    BY <1>0, <2>1 DEF CanariesJudged, With
  <2>4. ASSUME NEW n \in Models, role'[n] = "canary", n \notin pardoned', HaltDue(Window(samples[n]))'
        PROVE  Judges(n)'
    <3>1. role[n] = "canary" /\ n \notin pardoned /\ HaltDue(Window(samples[n]))
      BY <1>0, <2>1, <2>4
    <3>2. Judges(n)
      BY <3>1 DEF CanariesJudged, With
    <3> QED BY <2>1, <3>2 DEF Judges
  <2>5. samples' \in [Models -> Seq(Outcomes)]
    BY <2>1 DEF CanariesJudged
  <2> QED BY <2>2, <2>3, <2>4, <2>5 DEF CanariesJudged, With
<1>10. ASSUME NEW o \in Operators, WritePromote(o) \/ WriteHalt(o) PROVE CanariesJudged'
  <2>1. UNCHANGED <<samples, request, pardoned>>
        /\ (role' = Promoted(command[o].row) \/ role' = Halted(command[o].row))
    BY <1>10 DEF WritePromote, WriteHalt
  <2>2. /\ role' \in [Models -> {"unregistered", "candidate", "canary", "active", "halted", "retired"}]
        /\ \A n \in Models : role'[n] = "canary" => role[n] = "canary"
    BY <1>0, <2>1 DEF Promoted, Halted
  <2>3. ASSUME NEW n, Judges(n) PROVE Judges(n)'
    BY <2>1, <2>3 DEF Judges
  <2> QED BY <2>1, <2>2, <2>3, JudgementStands
<1>11. ASSUME NEW o \in Operators, ReadPromote(o) \/ ReadHalt(o) \/ SetShadowing(o)
       PROVE  UNCHANGED <<role, samples, pardoned, request>>
  BY <1>11 DEF ReadPromote, ReadHalt, SetShadowing
<1>12. ASSUME NEW k \in Keys, Cools(k) PROVE UNCHANGED <<role, samples, pardoned, request>>
  BY <1>12 DEF Cools, registryVars
<1>13. CASE UNCHANGED vars
  BY <1>1, <1>13 DEF vars
<1> QED BY <1>1, <1>2, <1>3, <1>4, <1>5, <1>6, <1>7, <1>8, <1>9, <1>10, <1>11, <1>12, <1>13
        DEF Next, Proceeds

\* However uploads and commands overlap, a canary that does badly is being
\* judged by the upload that recorded its last sample, unless its judgement was
\* cut off, or it has been registered, since it was last sampled.
THEOREM SickCanariesHalted == Spec => []SickCanaryIsHalted
<1>1. CanariesJudged => SickCanaryIsHalted
  BY DEF CanariesJudged, SickCanaryIsHalted, Judges, Judging
<1> QED BY <1>1, RequestsInit, RequestsKept, UploadsFirstInit, UploadsFirstStep, JudgedInit, JudgedStep, PTL
        DEF Spec
=============================================================================
