------------------------ MODULE EventConsumerProofs ------------------------
(***************************************************************************)
(* What EventConsumer does for every number of jobs, targets and workers.   *)
(***************************************************************************)
EXTENDS EventConsumer, TLAPS

\* The state has its type: the handlers write only what the rows may hold.
THEOREM TypeCorrect == Spec => []TypeOK
<1>1. Init => TypeOK
  BY ConsumerAssumption DEF Init, TypeOK, SomeJob
<1>2. TypeOK /\ [Next]_vars => TypeOK'
  <2> SUFFICES ASSUME TypeOK, [Next]_vars PROVE TypeOK'
    OBVIOUS
  <2> SomeJob \in Jobs
    BY ConsumerAssumption DEF SomeJob
  <2> USE ConsumerAssumption DEF TypeOK
  <2>1. ASSUME NEW w \in Workers, NEW j \in Jobs, Claim(w, j) PROVE TypeOK'
    BY <2>1 DEF Claim
  <2>2. ASSUME NEW w \in Workers, ReadSwitch(w) PROVE TypeOK'
    BY <2>2 DEF ReadSwitch, Goto
  <2>3. ASSUME NEW w \in Workers, Defers(w) PROVE TypeOK'
    BY <2>3 DEF Defers, Settle, EndRun
  <2>4. ASSUME NEW w \in Workers, MarkInbox(w) PROVE TypeOK'
    <3>1. StartsWith(w) \in SUBSET AllTargets
      BY DEF StartsWith
    <3>2. done' \in [Workers -> SUBSET AllTargets]
      BY <2>4, <3>1 DEF MarkInbox
    <3>3. /\ inbox' \subseteq Jobs
          /\ phase' \in [Workers -> {"idle", "gate", "mark", "work", "save", "return"}]
      BY <2>4 DEF MarkInbox, Goto
    <3>4. QED
      BY <2>4, <3>2, <3>3 DEF MarkInbox
  <2>5. ASSUME NEW w \in Workers, NEW t \in AllTargets, Work(w, t) PROVE TypeOK'
    <3>1. effects' \in [Jobs -> [AllTargets -> Nat]]
      BY <2>5 DEF Work
    <3>2. done' \in [Workers -> SUBSET AllTargets]
      BY <2>5 DEF Work
    <3>3. phase' \in [Workers -> {"idle", "gate", "mark", "work", "save", "return"}]
      BY <2>5 DEF Work, Goto
    <3>4. QED
      BY <2>5, <3>1, <3>2, <3>3 DEF Work
  <2>6. ASSUME NEW w \in Workers, SaveCheckpoint(w) PROVE TypeOK'
    BY <2>6 DEF SaveCheckpoint, Goto
  <2>7. ASSUME NEW w \in Workers, Returns(w) PROVE TypeOK'
    BY <2>7 DEF Returns, Settle, EndRun
  <2>8. ASSUME NEW w \in Workers, Throws(w) PROVE TypeOK'
    <3>1. jobState' \in [Jobs -> {"queued", "running", "lapsed", "succeeded", "dead"}]
      BY <2>8 DEF Throws, Settle
    <3>2. faults' \in Nat
      BY <2>8 DEF Throws, Fault
    <3>3. /\ phase' \in [Workers -> {"idle", "gate", "mark", "work", "save", "return"}]
          /\ job' \in [Workers -> Jobs]
          /\ resumed' \in [Workers -> SUBSET AllTargets]
          /\ done' \in [Workers -> SUBSET AllTargets]
      BY <2>8 DEF Throws, EndRun
    <3>4. QED
      BY <2>8, <3>1, <3>2, <3>3 DEF Throws
  <2>9. ASSUME NEW w \in Workers, Crash(w) PROVE TypeOK'
    BY <2>9 DEF Crash, EndRun, Fault
  <2>10. ASSUME NEW j \in Jobs, LeaseLapses(j) \/ Revive(j) PROVE TypeOK'
    <3>1. jobState' \in [Jobs -> {"queued", "running", "lapsed", "succeeded", "dead"}]
      BY <2>10 DEF LeaseLapses, Revive
    <3>2. faults' \in Nat
      BY <2>10 DEF LeaseLapses, Revive, Fault
    <3>3. QED
      BY <2>10, <3>1, <3>2 DEF LeaseLapses, Revive, runVars
  <2>11. CASE SetSwitch
    BY <2>11 DEF SetSwitch, runVars
  <2>12. CASE UNCHANGED vars
    BY <2>12 DEF vars
  <2>13. QED
    BY <2>1, <2>2, <2>3, <2>4, <2>5, <2>6, <2>7, <2>8, <2>9, <2>10, <2>11, <2>12
       DEF Next, HandlerStep
<1>3. QED
  BY <1>1, <1>2, PTL DEF Spec

\* The handlers that keep no checkpoint.
Once(j) == Kind[j] # "recalculate"

\* The first run to mark the inbox is the only one that ever gets to work, and
\* it has not yet reached the targets it still has before it.
OnlyTheMarkerWorks ==
  /\ \A w \in Workers : phase[w] \in {"work", "save"} => job[w] \in inbox
  /\ \A w \in Workers : phase[w] = "save" => ~Once(job[w])
  /\ \A v, w \in Workers :
       phase[v] = "work" /\ phase[w] = "work" /\ job[v] = job[w] /\ Once(job[w])
         => v = w
  /\ \A j \in Jobs : Once(j) /\ j \notin inbox =>
       \A t \in AllTargets : effects[j][t] = 0
  /\ \A w \in Workers : phase[w] = "work" /\ Once(job[w]) =>
       \A t \in AllTargets \ done[w] : effects[job[w]][t] = 0
  /\ \A j \in Jobs : Once(j) => \A t \in AllTargets : effects[j][t] <= 1

LEMMA TargetsAreAll == \A j \in Jobs : Targets[j] \subseteq AllTargets
  BY DEF AllTargets

\* A step that adds no effect, no mark and no run at work keeps the invariant.
LEMMA NobodyStartsWork ==
  ASSUME TypeOK, TypeOK', OnlyTheMarkerWorks,
         inbox \subseteq inbox', effects' = effects,
         \A w \in Workers : phase'[w] \in {"work", "save"} =>
           /\ phase[w] \in {"work", "save"}
           /\ job'[w] = job[w]
           /\ done'[w] = done[w]
           /\ phase[w] = phase'[w] \/ (~Once(job[w]) /\ phase'[w] = "work")
  PROVE  OnlyTheMarkerWorks'
<1> USE DEF OnlyTheMarkerWorks, TypeOK
<1>1. \A w \in Workers : phase'[w] \in {"work", "save"} => job'[w] \in inbox'
  OBVIOUS
<1>2. \A w \in Workers : phase'[w] = "save" => ~Once(job'[w])
  BY DEF Once
<1>3. \A v, w \in Workers :
        phase'[v] = "work" /\ phase'[w] = "work" /\ job'[v] = job'[w] /\ Once(job'[w])
          => v = w
  <2> SUFFICES ASSUME NEW v \in Workers, NEW w \in Workers,
                      phase'[v] = "work", phase'[w] = "work", job'[v] = job'[w],
                      Once(job'[w])
               PROVE  v = w
    OBVIOUS
  <2>1. phase[v] = "work" /\ phase[w] = "work" /\ job'[v] = job[v] /\ job'[w] = job[w]
    OBVIOUS
  <2>2. QED
    BY <2>1
<1>4. \A j \in Jobs : Once(j) /\ j \notin inbox' =>
        \A t \in AllTargets : effects'[j][t] = 0
  BY DEF Once
<1>5. \A w \in Workers : phase'[w] = "work" /\ Once(job'[w]) =>
        \A t \in AllTargets \ done'[w] : effects'[job'[w]][t] = 0
  <2> SUFFICES ASSUME NEW w \in Workers, phase'[w] = "work", Once(job'[w])
               PROVE  \A t \in AllTargets \ done'[w] : effects'[job'[w]][t] = 0
    OBVIOUS
  <2>1. phase[w] = "work" /\ job'[w] = job[w] /\ done'[w] = done[w]
    OBVIOUS
  <2>2. QED
    BY <2>1
<1>6. QED
  BY <1>1, <1>2, <1>3, <1>4, <1>5 DEF Once

\* No recipient is notified twice of an event and no learner rescheduled twice
\* for it, however many runs a job has, even two at a time.
THEOREM NotifiedAtMostOnce == Spec => []AtMostOnce
<1>1. Init => OnlyTheMarkerWorks
  BY DEF Init, OnlyTheMarkerWorks
<1>2. TypeOK /\ TypeOK' /\ OnlyTheMarkerWorks /\ [Next]_vars => OnlyTheMarkerWorks'
  <2> SUFFICES ASSUME TypeOK, TypeOK', OnlyTheMarkerWorks, [Next]_vars
               PROVE  OnlyTheMarkerWorks'
    OBVIOUS
  <2>1. ASSUME NEW w \in Workers, NEW j \in Jobs, Claim(w, j)
        PROVE  OnlyTheMarkerWorks'
    BY <2>1, NobodyStartsWork DEF Claim, TypeOK
  <2>2. ASSUME NEW w \in Workers, ReadSwitch(w) PROVE OnlyTheMarkerWorks'
    BY <2>2, NobodyStartsWork DEF ReadSwitch, Goto, TypeOK
  <2>3. ASSUME NEW w \in Workers,
               Defers(w) \/ Returns(w) \/ Throws(w) \/ Crash(w)
        PROVE  OnlyTheMarkerWorks'
    BY <2>3, NobodyStartsWork DEF Defers, Returns, Throws, Crash, EndRun, TypeOK
  <2>4. ASSUME NEW w \in Workers, SaveCheckpoint(w) PROVE OnlyTheMarkerWorks'
    <3>1. ~Once(job[w])
      BY <2>4 DEF SaveCheckpoint, OnlyTheMarkerWorks
    <3>2. QED
      BY <2>4, <3>1, NobodyStartsWork DEF SaveCheckpoint, Goto, TypeOK
  <2>5. ASSUME NEW w \in Workers, MarkInbox(w) PROVE OnlyTheMarkerWorks'
    <3>1. CASE Duplicate(w)
      BY <2>5, <3>1, NobodyStartsWork DEF MarkInbox, Goto, TypeOK
    <3>2. CASE ~Duplicate(w)
      <4>1. /\ phase' = [phase EXCEPT ![w] = "work"]
            /\ done' = [done EXCEPT ![w] = StartsWith(w)]
            /\ inbox' = inbox \cup {job[w]}
            /\ job' = job /\ effects' = effects
        BY <2>5, <3>2 DEF MarkInbox, Goto
      <4>2. Once(job[w]) => job[w] \notin inbox
        BY <3>2 DEF Duplicate, Once
      <4>3. QED
        BY <4>1, <4>2 DEF OnlyTheMarkerWorks, TypeOK, Once
    <3>3. QED
      BY <3>1, <3>2
  <2>6. ASSUME NEW w \in Workers, NEW t \in AllTargets, Work(w, t)
        PROVE  OnlyTheMarkerWorks'
    <3>1. CASE ~Once(job[w])
      <4>1. \A j \in Jobs : Once(j) => effects'[j] = effects[j]
        BY <2>6, <3>1 DEF Work, TypeOK
      <4>2. \A v \in Workers \ {w} :
              phase'[v] = phase[v] /\ job'[v] = job[v] /\ done'[v] = done[v]
        BY <2>6 DEF Work, Goto, TypeOK
      <4>3. job' = job /\ inbox' = inbox /\ phase[w] = "work"
        BY <2>6 DEF Work
      <4>4. phase'[w] \in {"work", "save"}
        BY <2>6 DEF Work, Goto, TypeOK
      <4>5. \A v \in Workers : phase'[v] = "work" /\ Once(job'[v]) =>
              v # w /\ phase[v] = "work" /\ Once(job[v]) /\ done'[v] = done[v]
        BY <3>1, <4>2, <4>3
      <4>6. \A v \in Workers : phase'[v] = "work" /\ Once(job'[v]) =>
              \A x \in AllTargets \ done'[v] : effects'[job'[v]][x] = 0
        BY <4>1, <4>3, <4>5 DEF OnlyTheMarkerWorks, TypeOK
      <4>7. \A v \in Workers : phase'[v] = "save" => ~Once(job'[v])
        BY <3>1, <4>2, <4>3 DEF OnlyTheMarkerWorks
      <4>8. \A v \in Workers : phase'[v] \in {"work", "save"} => job'[v] \in inbox'
        BY <4>2, <4>3 DEF OnlyTheMarkerWorks
      <4>9. \A j \in Jobs : Once(j) =>
              /\ j \notin inbox' => \A x \in AllTargets : effects'[j][x] = 0
              /\ \A x \in AllTargets : effects'[j][x] <= 1
        BY <4>1, <4>3 DEF OnlyTheMarkerWorks
      <4>10. QED
        BY <4>3, <4>5, <4>6, <4>7, <4>8, <4>9 DEF OnlyTheMarkerWorks
    <3>2. CASE Once(job[w])
      <4>1. phase' = [phase EXCEPT ![w] = "work"] /\ phase[w] = "work"
        BY <2>6, <3>2 DEF Work, Goto, Once
      <4>2. \A j \in Jobs \ {job[w]} : effects'[j] = effects[j]
        BY <2>6 DEF Work, TypeOK
      <4>3. effects'[job[w]] = [effects[job[w]] EXCEPT ![t] = @ + 1]
        BY <2>6 DEF Work, TypeOK
      <4>4. t \notin done[w] /\ job' = job /\ inbox' = inbox
        BY <2>6 DEF Work
      <4>5. effects[job[w]][t] = 0
        BY <3>2, <4>1, <4>4 DEF OnlyTheMarkerWorks
      <4>6. done' = [done EXCEPT ![w] = @ \cup {t}]
        BY <2>6 DEF Work
      <4>7. \A v \in Workers : phase'[v] = phase[v]
        BY <4>1 DEF TypeOK
      <4>8. \A x \in AllTargets :
              effects'[job[w]][x] = IF x = t THEN 1 ELSE effects[job[w]][x]
        BY <4>3, <4>5 DEF TypeOK
      <4>9. \A v \in Workers : phase'[v] = "work" /\ Once(job'[v]) =>
              \A x \in AllTargets \ done'[v] : effects'[job'[v]][x] = 0
        BY <3>2, <4>1, <4>2, <4>4, <4>6, <4>7, <4>8 DEF OnlyTheMarkerWorks, TypeOK
      <4>10. \A j \in Jobs : Once(j) => \A x \in AllTargets : effects'[j][x] <= 1
        BY <4>2, <4>8 DEF OnlyTheMarkerWorks
      <4>11. \A j \in Jobs : Once(j) /\ j \notin inbox' =>
               \A x \in AllTargets : effects'[j][x] = 0
        BY <4>1, <4>2, <4>4 DEF OnlyTheMarkerWorks
      <4>12. QED
        BY <4>4, <4>7, <4>9, <4>10, <4>11 DEF OnlyTheMarkerWorks
    <3>3. QED
      BY <3>1, <3>2
  <2>7. ASSUME NEW j \in Jobs, LeaseLapses(j) \/ Revive(j)
        PROVE  OnlyTheMarkerWorks'
    BY <2>7, NobodyStartsWork DEF LeaseLapses, Revive, runVars
  <2>8. CASE SetSwitch \/ UNCHANGED vars
    BY <2>8, NobodyStartsWork DEF SetSwitch, runVars, vars
  <2>9. QED
    BY <2>1, <2>2, <2>3, <2>4, <2>5, <2>6, <2>7, <2>8 DEF Next, HandlerStep
<1>3. OnlyTheMarkerWorks => AtMostOnce
  BY TargetsAreAll DEF OnlyTheMarkerWorks, AtMostOnce, Once
<1>4. QED
  BY <1>1, <1>2, <1>3, TypeCorrect, PTL DEF Spec

-----------------------------------------------------------------------------
(* Checkpoints *)

\* A job that keeps its lease has one run at a time, which starts from the job's
\* checkpoint and has all of it behind it.
Resumes ==
  /\ \A v, w \in Workers : \A j \in Jobs \ Stalling : Runs(v, j) /\ Runs(w, j) => v = w
  /\ \A j \in Jobs : Once(j) => checkpoint[j] = {}
  /\ \A w \in Workers : phase[w] = "save" => ~Once(job[w])
  /\ \A w \in Workers : job[w] \notin Stalling =>
       /\ phase[w] \in {"gate", "mark"} => resumed[w] = checkpoint[job[w]]
       /\ phase[w] \in {"work", "save"} => checkpoint[job[w]] \subseteq done[w]

\* What a step of the run w may do: no other run moves, and it ends or goes on.
OnlyMoves(w) ==
  \A v \in Workers \ {w} :
    phase'[v] = phase[v] /\ job'[v] = job[v] /\ resumed'[v] = resumed[v] /\ done'[v] = done[v]

\* A run ends; the rows it leaves behind keep their checkpoint.
LEMMA EndedResumes ==
  ASSUME TypeOK, Resumes, NEW w \in Workers, EndRun(w), UNCHANGED checkpoint
  PROVE  Resumes'
<1>1. OnlyMoves(w) /\ phase'[w] = "idle"
  BY DEF EndRun, OnlyMoves, TypeOK
<1> QED BY <1>1 DEF Resumes, Runs, OnlyMoves, Once

\* A run goes on with the job it has.
LEMMA MovedResumes ==
  ASSUME TypeOK, Resumes, NEW w \in Workers, phase[w] # "idle", OnlyMoves(w),
         UNCHANGED <<job, checkpoint>>,
         phase'[w] = "save" => ~Once(job[w]),
         job[w] \notin Stalling =>
           /\ phase'[w] \in {"gate", "mark"} => resumed'[w] = checkpoint[job[w]]
           /\ phase'[w] \in {"work", "save"} => checkpoint[job[w]] \subseteq done'[w]
  PROVE  Resumes'
<1>1. \A v \in Workers, j \in Jobs : Runs(v, j)' => Runs(v, j)
  BY DEF Runs, OnlyMoves
<1>2. \A v \in Workers : phase'[v] = "save" => ~Once(job'[v])
  BY DEF Resumes, OnlyMoves, Once
<1>3. ASSUME NEW v \in Workers, job'[v] \notin Stalling
      PROVE  /\ phase'[v] \in {"gate", "mark"} => resumed'[v] = checkpoint'[job'[v]]
             /\ phase'[v] \in {"work", "save"} => checkpoint'[job'[v]] \subseteq done'[v]
  BY <1>3 DEF Resumes, OnlyMoves
<1>4. \A v, u \in Workers : \A j \in Jobs \ Stalling : Runs(v, j)' /\ Runs(u, j)' => v = u
  BY <1>1 DEF Resumes
<1>5. \A j \in Jobs : Once(j) => checkpoint'[j] = {}
  BY DEF Resumes
<1> QED BY <1>2, <1>3, <1>4, <1>5 DEF Resumes, Once

LEMMA NextResumes == TypeOK /\ Resumes /\ [Next]_vars => Resumes'
<1> SUFFICES ASSUME TypeOK, Resumes, [Next]_vars PROVE Resumes'
  OBVIOUS
<1>1. ASSUME NEW w \in Workers, Defers(w) \/ Returns(w) \/ Throws(w) \/ Crash(w) PROVE Resumes'
  BY <1>1, EndedResumes DEF Defers, Returns, Throws, Crash
<1>2. ASSUME NEW w \in Workers, ReadSwitch(w) PROVE Resumes'
  <2>1. /\ phase[w] = "gate" /\ phase' = [phase EXCEPT ![w] = "mark"]
        /\ UNCHANGED <<checkpoint, job, resumed, done>>
    BY <1>2 DEF ReadSwitch, Goto
  <2>2. OnlyMoves(w) /\ phase'[w] = "mark"
    BY <2>1 DEF OnlyMoves, TypeOK
  <2>3. job[w] \notin Stalling => resumed'[w] = checkpoint[job[w]]
    BY <2>1 DEF Resumes
  <2> QED BY <2>1, <2>2, <2>3, MovedResumes
<1>3. ASSUME NEW w \in Workers, MarkInbox(w) PROVE Resumes'
  <2>1. /\ phase[w] = "mark" /\ UNCHANGED <<checkpoint, job, resumed>>
        /\ \/ phase' = [phase EXCEPT ![w] = "return"] /\ UNCHANGED done
           \/ phase' = [phase EXCEPT ![w] = "work"] /\ done' = [done EXCEPT ![w] = StartsWith(w)]
    BY <1>3 DEF MarkInbox, Goto
  <2>2. /\ OnlyMoves(w) /\ phase'[w] \in {"return", "work"}
        /\ phase'[w] = "work" => done'[w] = StartsWith(w)
    BY <2>1 DEF OnlyMoves, TypeOK
  <2>3. job[w] \notin Stalling => checkpoint[job[w]] \subseteq StartsWith(w)
    BY <2>1 DEF Resumes, StartsWith, Once, TypeOK
  <2> QED BY <2>1, <2>2, <2>3, MovedResumes
<1>4. ASSUME NEW w \in Workers, NEW t \in AllTargets, Work(w, t) PROVE Resumes'
  <2>1. /\ phase[w] = "work" /\ UNCHANGED <<checkpoint, job, resumed>>
        /\ phase' = [phase EXCEPT ![w] = IF Once(job[w]) THEN "work" ELSE "save"]
        /\ done' = [done EXCEPT ![w] = @ \cup {t}]
    BY <1>4 DEF Work, Goto, Once
  <2>2. OnlyMoves(w) /\ done'[w] = done[w] \cup {t} /\ phase'[w] = IF Once(job[w]) THEN "work" ELSE "save"
    BY <2>1 DEF OnlyMoves, TypeOK
  <2>3. job[w] \notin Stalling => checkpoint[job[w]] \subseteq done'[w]
    BY <2>1, <2>2 DEF Resumes
  <2> QED BY <2>1, <2>2, <2>3, MovedResumes
<1>5. ASSUME NEW w \in Workers, SaveCheckpoint(w) PROVE Resumes'
  <2>1. /\ phase[w] = "save" /\ UNCHANGED <<job, resumed, done>> /\ job[w] \in Jobs
        /\ checkpoint' = [checkpoint EXCEPT ![job[w]] = done[w]]
        /\ phase' = [phase EXCEPT ![w] = "work"]
    BY <1>5 DEF SaveCheckpoint, Goto, TypeOK
  <2>2. OnlyMoves(w) /\ phase'[w] = "work" /\ ~Once(job[w])
    BY <2>1 DEF OnlyMoves, TypeOK, Resumes
  <2>3. checkpoint'[job[w]] = done[w] /\ \A j \in Jobs \ {job[w]} : checkpoint'[j] = checkpoint[j]
    BY <2>1 DEF TypeOK
  <2>4. \A v \in Workers, j \in Jobs : Runs(v, j)' <=> Runs(v, j)
    BY <2>1, <2>2 DEF Runs, OnlyMoves
  <2>5. \A j \in Jobs : Once(j) => checkpoint'[j] = {}
    BY <2>2, <2>3 DEF Resumes
  <2>6. ASSUME NEW v \in Workers \ {w}, job[v] \notin Stalling, phase[v] # "idle"
        PROVE  checkpoint'[job[v]] = checkpoint[job[v]]
    <3>1. job[v] # job[w]
      BY <2>1, <2>6 DEF Resumes, Runs
    <3> QED BY <2>3, <3>1 DEF TypeOK
  <2>7. ASSUME NEW v \in Workers, job'[v] \notin Stalling
        PROVE  /\ phase'[v] \in {"gate", "mark"} => resumed'[v] = checkpoint'[job'[v]]
               /\ phase'[v] \in {"work", "save"} => checkpoint'[job'[v]] \subseteq done'[v]
    <3>1. CASE v = w
      BY <2>1, <2>2, <2>3, <3>1
    <3>2. CASE v # w
      BY <2>1, <2>2, <2>6, <2>7, <3>2 DEF Resumes, OnlyMoves
    <3> QED BY <3>1, <3>2
  <2>8. \A v \in Workers : phase'[v] = "save" => ~Once(job'[v])
    BY <2>1, <2>2 DEF Resumes, OnlyMoves
  <2>9. \A v, u \in Workers : \A j \in Jobs \ Stalling : Runs(v, j)' /\ Runs(u, j)' => v = u
    BY <2>4 DEF Resumes
  <2> QED BY <2>5, <2>7, <2>8, <2>9 DEF Resumes, Once
<1>6. ASSUME NEW w \in Workers, NEW j \in Jobs, Claim(w, j) PROVE Resumes'
  <2>1. /\ UNCHANGED checkpoint
        /\ OnlyMoves(w)
        /\ phase'[w] \in {"gate", "mark"} /\ job'[w] = j /\ resumed'[w] = checkpoint[j]
        /\ \A v \in Workers : Runs(v, j) => j \in Stalling
    BY <1>6 DEF Claim, OnlyMoves, TypeOK
  <2>2. ASSUME NEW v \in Workers, NEW u \in Workers, NEW i \in Jobs \ Stalling, Runs(v, i)', Runs(u, i)'
        PROVE  v = u
    <3>1. CASE i = j
      BY <2>1, <2>2, <3>1 DEF Runs, OnlyMoves
    <3>2. CASE i # j
      BY <2>1, <2>2, <3>2 DEF Resumes, Runs, OnlyMoves
    <3> QED BY <3>1, <3>2
  <2>3. \A v \in Workers : phase'[v] = "save" => ~Once(job'[v])
    BY <2>1 DEF Resumes, OnlyMoves
  <2>4. ASSUME NEW v \in Workers, job'[v] \notin Stalling
        PROVE  /\ phase'[v] \in {"gate", "mark"} => resumed'[v] = checkpoint'[job'[v]]
               /\ phase'[v] \in {"work", "save"} => checkpoint'[job'[v]] \subseteq done'[v]
    BY <2>1, <2>4 DEF Resumes, OnlyMoves
  <2>5. \A i \in Jobs : Once(i) => checkpoint'[i] = {}
    BY <2>1 DEF Resumes
  <2> QED BY <2>2, <2>3, <2>4, <2>5 DEF Resumes, Once
<1>7. CASE SetSwitch \/ UNCHANGED vars \/ \E j \in Jobs : LeaseLapses(j) \/ Revive(j)
  <2>1. UNCHANGED <<checkpoint, phase, job, resumed, done>>
    BY <1>7 DEF SetSwitch, LeaseLapses, Revive, vars, runVars
  <2> QED BY <2>1 DEF Resumes, Runs, Once
<1> QED BY <1>1, <1>2, <1>3, <1>4, <1>5, <1>6, <1>7 DEF Next, HandlerStep

\* Nothing that a checkpoint names is done again or taken off it in one step.
HonoursCheckpoints ==
  \A j \in Jobs \ Stalling : \A t \in checkpoint[j] :
    effects'[j][t] = effects[j][t] /\ t \in checkpoint'[j]

LEMMA NextHonours == TypeOK /\ Resumes /\ [Next]_vars => HonoursCheckpoints
<1> SUFFICES ASSUME TypeOK, Resumes, [Next]_vars,
                    NEW j \in Jobs \ Stalling, NEW x \in checkpoint[j]
             PROVE  effects'[j][x] = effects[j][x] /\ x \in checkpoint'[j]
  BY DEF HonoursCheckpoints
<1>1. ASSUME NEW w \in Workers, NEW t \in AllTargets, Work(w, t)
      PROVE  effects'[j][x] = effects[j][x] /\ x \in checkpoint'[j]
  <2>1. /\ phase[w] = "work" /\ t \notin done[w] /\ UNCHANGED checkpoint
        /\ effects' = [effects EXCEPT ![job[w]][t] = @ + 1]
    BY <1>1 DEF Work
  <2>2. j = job[w] => x # t
    BY <2>1 DEF Resumes
  <2> QED BY <2>1, <2>2 DEF TypeOK
<1>2. ASSUME NEW w \in Workers, SaveCheckpoint(w)
      PROVE  effects'[j][x] = effects[j][x] /\ x \in checkpoint'[j]
  <2>1. /\ phase[w] = "save" /\ UNCHANGED effects
        /\ checkpoint' = [checkpoint EXCEPT ![job[w]] = done[w]]
    BY <1>2 DEF SaveCheckpoint
  <2>2. j = job[w] => x \in done[w]
    BY <2>1 DEF Resumes
  <2> QED BY <2>1, <2>2 DEF TypeOK
<1>3. ASSUME NEW w \in Workers,
             \/ ReadSwitch(w) \/ Defers(w) \/ MarkInbox(w) \/ Returns(w) \/ Throws(w) \/ Crash(w)
             \/ \E i \in Jobs : Claim(w, i)
      PROVE  effects'[j][x] = effects[j][x] /\ x \in checkpoint'[j]
  BY <1>3 DEF ReadSwitch, Defers, MarkInbox, Returns, Throws, Crash, Claim
<1>4. CASE SetSwitch \/ UNCHANGED vars \/ \E i \in Jobs : LeaseLapses(i) \/ Revive(i)
  BY <1>4 DEF SetSwitch, LeaseLapses, Revive, vars
<1> QED BY <1>1, <1>2, <1>3, <1>4 DEF Next, HandlerStep

\* A group that a checkpoint names is not rescheduled again for the event while
\* the job keeps its lease, wherever runs are cut off, and stays on the checkpoint.
THEOREM CheckpointsHonoured == Spec => CheckpointHonoured
<1>1. Init => Resumes
  BY DEF Init, Resumes, Runs, Once
<1>2. TypeOK /\ Resumes /\ [Next]_vars => [HonoursCheckpoints]_vars
  BY NextHonours
<1>3. Spec => []Resumes
  BY <1>1, NextResumes, TypeCorrect, PTL DEF Spec
<1>4. Spec => [][HonoursCheckpoints]_vars
  BY <1>2, <1>3, TypeCorrect, PTL DEF Spec
<1> QED BY <1>4, PTL DEF CheckpointHonoured, HonoursCheckpoints
=============================================================================
