-------------------------- MODULE PixelWorkersProofs --------------------------
(***************************************************************************)
(* Proofs about PixelWorkers for any number of workers and callers, any    *)
(* image heights and strip, and generations that wrap at any count.        *)
(***************************************************************************)
EXTENDS PixelWorkers, FiniteSetTheorems, TLAPS

\* Callers between the lock and their last look share the job, and publish it
\* first.
Publishing(c) == pc[c] \in {"publishJob", "publishRows", "publishPending", "publishGeneration"}
InJob(w) == pc[w] \in {"copy", "claim", "write", "decrement"}

\* The lock keeps the job to one caller.
LabelsFit ==
  /\ TypeOK
  /\ \A w \in Workers : pc[w] \in WorkerLabels
  /\ \A w \in Workers \ pool : pc[w] = "look"
  /\ \A c \in Callers : /\ pc[c] \in CallerLabels
                        /\ Publishing(c) \/ Working(c) => submit = c
                        /\ pc[c] \in {"idle", "inline"} => submit # c
                        /\ pc[c] # "idle" => dst[c] = c /\ rows[c] \in Heights

\* The published job stays the working caller's, with one decrement to come
\* from every worker that owes it; nobody owes one otherwise.
JobFits ==
  /\ \A c \in Callers :
       /\ Working(c) => pending = Cardinality(Owing)
       /\ Working(c) \/ (Publishing(c) /\ pc[c] # "publishJob") =>
             jobDst = c /\ jobRows = rows[c]
       /\ pc[c] = "publishGeneration" => pending = Cardinality(pool)
       /\ pc[c] \in {"publishPending", "publishGeneration"} => nextRow = 0
  /\ \A w \in Owing : submit \in Callers /\ Working(submit)
  /\ \A w \in pool : /\ InJob(w) => seen[w] = generation
                     /\ InJob(w) /\ pc[w] # "copy" => dst[w] = submit /\ rows[w] = jobRows

\* Strips that are claimed and not yet written lie below next_row and apart;
\* a row below next_row is written once or in one of them.
Holding(a, r) == pc[a] = "write" /\ first[a] <= r /\ r < first[a] + Strip
StripsFit ==
  \A c \in Callers : Working(c) =>
    /\ \A a \in pool \cup {c} : pc[a] = "write" => first[a] + Strip <= nextRow
    /\ \A a, b \in pool \cup {c} : pc[a] = "write" /\ pc[b] = "write" /\ a # b =>
         first[a] + Strip <= first[b] \/ first[b] + Strip <= first[a]
    /\ pc[c] \in {"look", "wait"} => nextRow >= rows[c]

RowsFit ==
  \A c \in Callers :
    /\ Working(c) => \A r \in Rows :
         written[<<c, r>>] = IF /\ r < rows[c] /\ r < nextRow
                                /\ \A a \in pool \cup {c} : ~Holding(a, r)
                             THEN 1 ELSE 0
    /\ pc[c] \in {"idle", "inline"} \/ Publishing(c) => \A r \in Rows : written[<<c, r>>] = 0
    /\ pc[c] = "return" => \A r \in Rows : written[<<c, r>>] = IF r < rows[c] THEN 1 ELSE 0

IInv == LabelsFit /\ JobFits /\ StripsFit /\ RowsFit

-----------------------------------------------------------------------------
LEMMA RowsAreNumbers == Rows \subseteq Nat
BY PixelAssumption DEF Rows

LEMMA Numbers ==
  ASSUME LabelsFit
  PROVE  /\ nextRow \in Nat /\ Strip \in Nat \ {0}
         /\ \A a \in Actors : first[a] \in Nat /\ rows[a] \in Nat
<1>1. /\ nextRow \in Nat /\ first \in [Actors -> Nat]
      /\ rows \in [Actors -> Heights \cup {0}] /\ Heights \cup {0} \subseteq Nat
  BY PixelAssumption DEF LabelsFit, TypeOK
<1>2. \A a \in Actors : rows[a] \in Nat
  BY <1>1
<1>3. QED BY <1>1, <1>2, PixelAssumption

\* Workers can be counted, and so can those that owe.
LEMMA OwingFinite ==
  ASSUME pool \subseteq Workers
  PROVE  /\ IsFiniteSet(pool) /\ IsFiniteSet(Owing)
         /\ Cardinality(pool) \in 0 .. Cardinality(Workers)
         /\ Cardinality(Owing) \in 0 .. Cardinality(Workers)
<1>1. Owing \subseteq Workers
  BY DEF Owing
<1>2. IsFiniteSet(pool) /\ Cardinality(pool) <= Cardinality(Workers)
  BY PixelAssumption, FS_Subset
<1>3. IsFiniteSet(Owing) /\ Cardinality(Owing) <= Cardinality(Workers)
  BY <1>1, PixelAssumption, FS_Subset
<1>4. QED BY <1>2, <1>3, PixelAssumption, FS_CardinalityType

\* A generation is told from the next one.
LEMMA Wraps ==
  ASSUME NEW g \in 0 .. Generations - 1
  PROVE  (g + 1) % Generations # g
<1>1. Generations \in Nat /\ Generations > 1
  BY PixelAssumption
<1>2. CASE g + 1 < Generations
  <2>1. (g + 1) % Generations = g + 1
    BY <1>1, <1>2
  <2>2. QED BY <2>1
<1>3. CASE g + 1 = Generations
  <2>1. (g + 1) % Generations = 0
    BY <1>1, <1>3
  <2>2. QED BY <1>1, <1>3, <2>1
<1>4. QED BY <1>1, <1>2, <1>3

\* Only one caller works, and only for it do workers work.
LEMMA OneWorks ==
  ASSUME LabelsFit, NEW c \in Callers, NEW d \in Callers, Working(c), Working(d) \/ Publishing(d)
  PROVE  c = d
BY DEF LabelsFit

LEMMA InJobOwes ==
  ASSUME IInv, NEW w \in pool, InJob(w)
  PROVE  w \in Owing /\ submit \in Callers /\ Working(submit)
BY DEF IInv, JobFits, Owing, InJob

\* A caller takes the lock before it publishes and gives it back when it returns.
LEMMA LabelsKeep ==
  ASSUME IInv, Next
  PROVE  LabelsFit'
<1> USE PixelAssumption DEF sharedVars, semaVars, localVars, Actors, IInv, LabelsFit, TypeOK
<1>0. Cardinality(Workers) \in Nat
  BY FS_CardinalityType
<1>1. ASSUME NEW w \in pool, SeeGeneration(w) PROVE LabelsFit'
  BY <1>1, <1>0 DEF SeeGeneration, Goto, WorkerLabels, CallerLabels, Publishing, Working
<1>2. ASSUME NEW w \in pool, SeeNothing(w) PROVE LabelsFit'
  BY <1>2, <1>0 DEF SeeNothing, Goto, WorkerLabels, CallerLabels, Publishing, Working
<1>3. ASSUME NEW w \in pool, StartSignalled(w) PROVE LabelsFit'
  BY <1>3, <1>0 DEF StartSignalled, Goto, WorkerLabels, CallerLabels, Publishing, Working
<1>4. ASSUME NEW w \in pool, TimedOut(w) PROVE LabelsFit'
  BY <1>4, <1>0 DEF TimedOut, Goto, WorkerLabels, CallerLabels, Publishing, Working
<1>5. ASSUME NEW w \in pool, CopyJob(w) PROVE LabelsFit'
  BY <1>5, <1>0 DEF CopyJob, Goto, WorkerLabels, CallerLabels, Publishing, Working
<1>6. ASSUME NEW w \in pool, Claim(w, "write") PROVE LabelsFit'
  BY <1>6, <1>0 DEF Claim, Goto, WorkerLabels, CallerLabels, Publishing, Working
<1>7. ASSUME NEW w \in pool, Write(w) PROVE LabelsFit'
  <2>1. written' \in [Callers \X Rows -> 0 .. 2]
    BY <1>7 DEF Write, Again
  <2>2. QED BY <1>7, <2>1 DEF Write, Goto, WorkerLabels, CallerLabels, Publishing, Working
<1>8. ASSUME NEW w \in pool, ClaimNothing(w, "decrement") PROVE LabelsFit'
  BY <1>8, <1>0 DEF ClaimNothing, Goto, WorkerLabels, CallerLabels, Publishing, Working
<1>9. ASSUME NEW w \in pool, Decrement(w) PROVE LabelsFit'
  <2>1. pending \in 1 .. Cardinality(Workers)
    <3>1. w \in Owing /\ pending = Cardinality(Owing)
      BY <1>9, InJobOwes DEF Decrement, Goto, InJob, JobFits
    <3>2. Cardinality(Owing) # 0
      BY <3>1, OwingFinite, FS_EmptySet
    <3>3. QED BY <3>1, <3>2, OwingFinite
  <2>2. pending' \in 0 .. Cardinality(Workers)
    BY <1>9, <2>1, <1>0 DEF Decrement, Goto
  <2>3. QED BY <1>9, <2>2
    DEF Decrement, Goto, WorkerLabels, CallerLabels, Publishing, Working
<1>10. ASSUME NEW w \in pool, SignalCompletion(w) PROVE LabelsFit'
  BY <1>10, <1>0 DEF SignalCompletion, Goto, WorkerLabels, CallerLabels, Publishing, Working
<1>11. ASSUME NEW c \in Callers, ConvertInline(c) PROVE LabelsFit'
  <2>1. written' \in [Callers \X Rows -> 0 .. 2]
    BY <1>11 DEF ConvertInline, Again
  <2>2. QED BY <1>11, <2>1
    DEF ConvertInline, Goto, WorkerLabels, CallerLabels, Publishing, Working
<1>12. ASSUME NEW c \in Callers, PublishJob(c) PROVE LabelsFit'
  BY <1>12, <1>0 DEF PublishJob, Goto, WorkerLabels, CallerLabels, Publishing, Working
<1>13. ASSUME NEW c \in Callers, PublishRows(c) PROVE LabelsFit'
  BY <1>13, <1>0 DEF PublishRows, Goto, WorkerLabels, CallerLabels, Publishing, Working
<1>14. ASSUME NEW c \in Callers, PublishPending(c) PROVE LabelsFit'
  BY <1>14, OwingFinite
    DEF PublishPending, Goto, WorkerLabels, CallerLabels, Publishing, Working
<1>15. ASSUME NEW c \in Callers, PublishGeneration(c) PROVE LabelsFit'
  BY <1>15, <1>0
    DEF PublishGeneration, Goto, WorkerLabels, CallerLabels, Publishing, Working
<1>16. ASSUME NEW c \in Callers, NEW w \in Workers, SignalWorker(c, w) PROVE LabelsFit'
  BY <1>16, <1>0 DEF SignalWorker, WorkerLabels, CallerLabels, Publishing, Working
<1>17. ASSUME NEW c \in Callers, AllSignalled(c) PROVE LabelsFit'
  BY <1>17, <1>0 DEF AllSignalled, Goto, WorkerLabels, CallerLabels, Publishing, Working
<1>18. ASSUME NEW c \in Callers, Claim(c, "write") PROVE LabelsFit'
  BY <1>18, <1>0 DEF Claim, Goto, WorkerLabels, CallerLabels, Publishing, Working
<1>19. ASSUME NEW c \in Callers, Write(c) PROVE LabelsFit'
  <2>1. written' \in [Callers \X Rows -> 0 .. 2]
    BY <1>19 DEF Write, Again
  <2>2. QED BY <1>19, <2>1 DEF Write, Goto, WorkerLabels, CallerLabels, Publishing, Working
<1>20. ASSUME NEW c \in Callers, ClaimNothing(c, "look") PROVE LabelsFit'
  BY <1>20, <1>0 DEF ClaimNothing, Goto, WorkerLabels, CallerLabels, Publishing, Working
<1>21. ASSUME NEW c \in Callers, PendingLeft(c) PROVE LabelsFit'
  BY <1>21, <1>0 DEF PendingLeft, Goto, WorkerLabels, CallerLabels, Publishing, Working
<1>22. ASSUME NEW c \in Callers, NothingPending(c) PROVE LabelsFit'
  BY <1>22, <1>0 DEF NothingPending, Goto, WorkerLabels, CallerLabels, Publishing, Working
<1>23. ASSUME NEW c \in Callers, CompletionSignalled(c) PROVE LabelsFit'
  BY <1>23, <1>0
    DEF CompletionSignalled, Goto, WorkerLabels, CallerLabels, Publishing, Working
<1>24. ASSUME NEW c \in Callers, TimedOut(c) PROVE LabelsFit'
  BY <1>24, <1>0 DEF TimedOut, Goto, WorkerLabels, CallerLabels, Publishing, Working
<1>25. ASSUME NEW c \in Callers, Return(c) PROVE LabelsFit'
  BY <1>25, <1>0 DEF Return, Goto, WorkerLabels, CallerLabels, Publishing, Working
<1>26. ASSUME NEW c \in Callers, NEW h \in Heights, NEW big \in BOOLEAN, ConvertShared(c,
              h, big)
       PROVE  LabelsFit'
  BY <1>26, <1>0
    DEF ConvertShared, Begin, Goto, Parallel, WorkerLabels, CallerLabels, Publishing,
        Working
<1>27. ASSUME NEW c \in Callers, NEW h \in Heights, NEW big \in BOOLEAN, ConvertAlone(c, h,
              big)
       PROVE  LabelsFit'
  BY <1>27, <1>0
    DEF ConvertAlone, Begin, Goto, Parallel, WorkerLabels, CallerLabels, Publishing, Working
<1>28. QED BY ONLY <1>1, <1>2, <1>3, <1>4, <1>5, <1>6, <1>7, <1>8, <1>9,
         <1>10, <1>11, <1>12, <1>13, <1>14, <1>15, <1>16, <1>17, <1>18,
         <1>19, <1>20, <1>21, <1>22, <1>23, <1>24, <1>25, <1>26, <1>27, Next
      DEF Next, WorkerStep, CallerStep, Call

\* A worker owes its decrement from the generation it has not seen until it
\* makes it, and the caller stays until all are made.
LEMMA JobKeeps ==
  ASSUME IInv, Next
  PROVE  JobFits'
<1> USE PixelAssumption DEF sharedVars, semaVars, localVars, Actors, IInv, LabelsFit, TypeOK
<1>1. ASSUME NEW w \in pool, SeeGeneration(w) PROVE JobFits'
  <2>1. Owing' = Owing
    BY <1>1 DEF SeeGeneration, Goto, Owing, WorkerLabels
  <2>2. QED BY <1>1, <2>1
    DEF SeeGeneration, Goto, JobFits, InJob, Working, Publishing, WorkerLabels
<1>2. ASSUME NEW w \in pool, SeeNothing(w) PROVE JobFits'
  <2>1. Owing' = Owing
    BY <1>2 DEF SeeNothing, Goto, Owing, WorkerLabels
  <2>2. QED BY <1>2, <2>1
    DEF SeeNothing, Goto, JobFits, InJob, Working, Publishing, WorkerLabels
<1>3. ASSUME NEW w \in pool, StartSignalled(w) PROVE JobFits'
  <2>1. Owing' = Owing
    BY <1>3 DEF StartSignalled, Goto, Owing, WorkerLabels
  <2>2. QED BY <1>3, <2>1
    DEF StartSignalled, Goto, JobFits, InJob, Working, Publishing, WorkerLabels
<1>4. ASSUME NEW w \in pool, TimedOut(w) PROVE JobFits'
  <2>1. Owing' = Owing
    BY <1>4 DEF TimedOut, Goto, Owing, WorkerLabels
  <2>2. QED BY <1>4, <2>1
    DEF TimedOut, Goto, JobFits, InJob, Working, Publishing, WorkerLabels
<1>5. ASSUME NEW w \in pool, CopyJob(w) PROVE JobFits'
  <2>1. Owing' = Owing /\ w \in Owing /\ submit \in Callers /\ Working(submit)
    BY <1>5, InJobOwes DEF CopyJob, Goto, Owing, WorkerLabels, InJob
  <2>2. \A d \in Callers : pc'[d] = pc[d] /\ rows'[d] = rows[d]
    BY <1>5 DEF CopyJob, Goto
  <2>3. \A v \in pool : v # w => pc'[v] = pc[v] /\ rows'[v] = rows[v] /\ dst'[v] = dst[v]
    BY <1>5 DEF CopyJob, Goto
  <2>4. jobDst = submit /\ dst'[w] = submit /\ rows'[w] = jobRows
    BY <1>5, <2>1 DEF CopyJob, Goto, JobFits
  <2>5. \A v \in pool : InJob(v)' => InJob(v)
    BY <1>5, <2>3 DEF InJob, CopyJob
  <2>6. \A v \in pool : InJob(v)' /\ pc'[v] # "copy" => dst'[v] = submit /\ rows'[v] = jobRows
    BY <1>5, <2>3, <2>4, <2>5 DEF InJob, JobFits
  <2>7. \A d \in Callers : (Working(d)' <=> Working(d)) /\ (Publishing(d)' <=> Publishing(d))
    BY <2>2 DEF Working, Publishing
  <2>8. QED BY <1>5, <2>1, <2>2, <2>5, <2>6, <2>7 DEF CopyJob, JobFits
<1>6. ASSUME NEW w \in pool, Claim(w, "write") PROVE JobFits'
  <2>1. Owing' = Owing
    BY <1>6 DEF Claim, Goto, Owing, WorkerLabels
  <2>2. \A d \in Callers : pc'[d] = pc[d]
    BY <1>6 DEF Claim, Goto
  <2>3. \A v \in pool : InJob(v)' <=> InJob(v)
    BY <1>6 DEF Claim, Goto, InJob
  <2>4. \A v \in pool : pc'[v] = "copy" <=> pc[v] = "copy"
    BY <1>6 DEF Claim, Goto
  <2>5. \A d \in Callers : (Working(d)' <=> Working(d)) /\ (Publishing(d)' <=> Publishing(d))
    BY <2>2 DEF Working, Publishing
  <2>6. submit \in Callers /\ Working(submit)
    BY <1>6, InJobOwes DEF Claim, InJob
  <2>7. \A d \in Callers : ~(pc[d] \in {"publishPending", "publishGeneration"})
    BY <2>6, OneWorks DEF Publishing, Working
  <2>8. QED BY <1>6, <2>1, <2>2, <2>3, <2>4, <2>5, <2>6, <2>7 DEF Claim, JobFits
<1>7. ASSUME NEW w \in pool, Write(w) PROVE JobFits'
  <2>1. Owing' = Owing
    BY <1>7 DEF Write, Goto, Owing, WorkerLabels
  <2>2. QED BY <1>7, <2>1 DEF Write, Goto, JobFits, InJob, Working, Publishing, WorkerLabels
<1>8. ASSUME NEW w \in pool, ClaimNothing(w, "decrement") PROVE JobFits'
  <2>1. Owing' = Owing
    BY <1>8 DEF ClaimNothing, Goto, Owing, WorkerLabels
  <2>2. QED BY <1>8, <2>1
    DEF ClaimNothing, Goto, JobFits, InJob, Working, Publishing, WorkerLabels
<1>9. ASSUME NEW w \in pool, Decrement(w) PROVE JobFits'
  <2>1. Owing' = Owing \ {w} /\ w \in Owing
    BY <1>9 DEF Decrement, Goto, Owing, JobFits, InJob
  <2>2. Cardinality(Owing') = Cardinality(Owing) - 1
    BY <2>1, OwingFinite, FS_RemoveElement
  <2>3. \A c \in Callers : Working(c)' => pending' = Cardinality(Owing')
    BY <1>9, <2>2 DEF Decrement, Goto, JobFits, Working
  <2>4. \A d \in Callers : pc'[d] = pc[d] /\ rows'[d] = rows[d]
    BY <1>9 DEF Decrement, Goto
  <2>5. \A d \in Callers : (Working(d)' <=> Working(d)) /\ (Publishing(d)' <=> Publishing(d))
    BY <2>4 DEF Working, Publishing
  <2>6. \A v \in pool \ {w} : pc'[v] = pc[v] /\ rows'[v] = rows[v] /\ dst'[v] = dst[v]
    BY <1>9 DEF Decrement, Goto
  <2>7. ~InJob(w)'
    BY <1>9 DEF Decrement, Goto, InJob
  <2>8. submit \in Callers /\ Working(submit)
    BY <1>9, InJobOwes DEF Decrement, InJob
  <2>9. \A d \in Callers : ~(pc[d] \in {"publishPending", "publishGeneration"})
    BY <2>8, OneWorks DEF Publishing, Working
  <2>10. submit' = submit /\ jobDst' = jobDst /\ jobRows' = jobRows /\ pool' = pool
         /\ seen' = seen /\ generation' = generation
    BY <1>9 DEF Decrement
  <2>11. \A d \in Callers :
          /\ Working(d)' \/ (Publishing(d)' /\ pc'[d] # "publishJob") =>
                jobDst' = d /\ jobRows' = rows'[d]
          /\ ~(pc'[d] \in {"publishPending", "publishGeneration"})
    BY <2>4, <2>5, <2>9, <2>10 DEF JobFits
  <2>12. \A v \in Owing' : submit' \in Callers /\ Working(submit)'
    BY <2>1, <2>4, <2>8, <2>10 DEF Working
  <2>13. \A v \in pool' : /\ InJob(v)' => seen'[v] = generation'
                          /\ InJob(v)' /\ pc'[v] # "copy" => dst'[v] = submit' /\ rows'[v] = jobRows'
    BY <2>6, <2>7, <2>10 DEF JobFits, InJob
  <2>14. QED BY <2>3, <2>11, <2>12, <2>13 DEF JobFits
<1>10. ASSUME NEW w \in pool, SignalCompletion(w) PROVE JobFits'
  <2>1. Owing' = Owing
    BY <1>10 DEF SignalCompletion, Goto, Owing, WorkerLabels
  <2>2. QED BY <1>10, <2>1
    DEF SignalCompletion, Goto, JobFits, InJob, Working, Publishing, WorkerLabels
<1>11. ASSUME NEW c \in Callers, ConvertInline(c) PROVE JobFits'
  <2>1. Owing' = Owing
    BY <1>11 DEF ConvertInline, Goto, Owing, WorkerLabels
  <2>2. QED BY <1>11, <2>1
    DEF ConvertInline, Goto, JobFits, InJob, Working, Publishing, WorkerLabels
<1>12. ASSUME NEW c \in Callers, PublishJob(c) PROVE JobFits'
  <2>1. Owing = {}
    BY <1>12, OneWorks DEF PublishJob, Goto, JobFits, Publishing, Working
  <2>2. Owing' = {} /\ \A w \in pool : ~InJob(w) /\ pc'[w] = pc[w]
    BY <1>12, <2>1 DEF PublishJob, Goto, Owing, InJob
  <2>3. \A d \in Callers : d # c => ~Working(d) /\ ~Publishing(d) /\ pc'[d] = pc[d]
    BY <1>12 DEF PublishJob, Goto, Working, Publishing
  <2>4. ~Working(c)'
    BY <1>12 DEF PublishJob, Goto, Working
  <2>5. QED BY <1>12, <2>2, <2>3, <2>4
    DEF PublishJob, Goto, JobFits, InJob, Working, Publishing
<1>13. ASSUME NEW c \in Callers, PublishRows(c) PROVE JobFits'
  <2>1. Owing = {}
    BY <1>13, OneWorks DEF PublishRows, Goto, JobFits, Publishing, Working
  <2>2. Owing' = {} /\ \A w \in pool : ~InJob(w) /\ pc'[w] = pc[w]
    BY <1>13, <2>1 DEF PublishRows, Goto, Owing, InJob
  <2>3. \A d \in Callers : d # c => ~Working(d) /\ ~Publishing(d) /\ pc'[d] = pc[d]
    BY <1>13 DEF PublishRows, Goto, Working, Publishing
  <2>4. ~Working(c)'
    BY <1>13 DEF PublishRows, Goto, Working
  <2>5. QED BY <1>13, <2>2, <2>3, <2>4
    DEF PublishRows, Goto, JobFits, InJob, Working, Publishing
<1>14. ASSUME NEW c \in Callers, PublishPending(c) PROVE JobFits'
  <2>1. Owing = {}
    BY <1>14, OneWorks DEF PublishPending, Goto, JobFits, Publishing, Working
  <2>2. Owing' = {} /\ \A w \in pool : ~InJob(w) /\ pc'[w] = pc[w]
    BY <1>14, <2>1 DEF PublishPending, Goto, Owing, InJob
  <2>3. \A d \in Callers : d # c => ~Working(d) /\ ~Publishing(d) /\ pc'[d] = pc[d]
    BY <1>14 DEF PublishPending, Goto, Working, Publishing
  <2>4. ~Working(c)'
    BY <1>14 DEF PublishPending, Goto, Working
  <2>5. QED BY <1>14, <2>2, <2>3, <2>4
    DEF PublishPending, Goto, JobFits, InJob, Working, Publishing
<1>15. ASSUME NEW c \in Callers, PublishGeneration(c) PROVE JobFits'
  <2>1. Owing = {}
    BY <1>15, OneWorks DEF PublishGeneration, Goto, JobFits, Publishing, Working
  <2>2. generation' # generation
    <3>1. generation' = (generation + 1) % Generations
      BY <1>15 DEF PublishGeneration
    <3>2. generation \in 0 .. Generations - 1
      OBVIOUS
    <3>3. QED BY <3>1, <3>2, Wraps
  <2>3. Owing' = pool
    <3>1. pool' = pool /\ seen' = seen /\ \A w \in pool : generation = seen[w]
      BY <1>15, <2>1 DEF PublishGeneration, Goto, Owing
    <3>2. QED BY <3>1, <2>2 DEF Owing
  <2>4. \A w \in pool : ~InJob(w) /\ ~InJob(w)'
    BY <1>15, <2>1 DEF PublishGeneration, Goto, Owing, InJob
  <2>5. /\ \A d \in Callers \ {c} : ~Working(d)' /\ ~Publishing(d)'
        /\ pc'[c] = "signal" /\ submit' = c
    BY <1>15 DEF PublishGeneration, Goto, Working, Publishing
  <2>6. pending' = Cardinality(pool) /\ jobDst' = c /\ jobRows' = rows'[c] /\ pool' = pool
    BY <1>15 DEF PublishGeneration, Goto, JobFits, Publishing
  <2>7. \A d \in Callers \ {c} : pc'[d] \notin {"publishPending", "publishGeneration"}
    BY <2>5 DEF Publishing
  <2>8. QED BY <2>3, <2>4, <2>5, <2>6, <2>7 DEF JobFits, Working
<1>16. ASSUME NEW c \in Callers, NEW w \in Workers, SignalWorker(c, w) PROVE JobFits'
  <2>1. Owing' = Owing
    BY <1>16 DEF SignalWorker, Owing, WorkerLabels
  <2>2. QED BY <1>16, <2>1
    DEF SignalWorker, JobFits, InJob, Working, Publishing, WorkerLabels
<1>17. ASSUME NEW c \in Callers, AllSignalled(c) PROVE JobFits'
  <2>1. Owing' = Owing
    BY <1>17 DEF AllSignalled, Goto, Owing, WorkerLabels
  <2>2. QED BY <1>17, <2>1
    DEF AllSignalled, Goto, JobFits, InJob, Working, Publishing, WorkerLabels
<1>18. ASSUME NEW c \in Callers, Claim(c, "write") PROVE JobFits'
  <2>1. Owing' = Owing
    BY <1>18 DEF Claim, Goto, Owing, WorkerLabels
  <2>2. QED BY <1>18, <2>1
    DEF Claim, Goto, JobFits, InJob, Working, Publishing, WorkerLabels
<1>19. ASSUME NEW c \in Callers, Write(c) PROVE JobFits'
  <2>1. Owing' = Owing
    BY <1>19 DEF Write, Goto, Owing, WorkerLabels
  <2>2. QED BY <1>19, <2>1
    DEF Write, Goto, JobFits, InJob, Working, Publishing, WorkerLabels
<1>20. ASSUME NEW c \in Callers, ClaimNothing(c, "look") PROVE JobFits'
  <2>1. Owing' = Owing
    BY <1>20 DEF ClaimNothing, Goto, Owing, WorkerLabels
  <2>2. QED BY <1>20, <2>1
    DEF ClaimNothing, Goto, JobFits, InJob, Working, Publishing, WorkerLabels
<1>21. ASSUME NEW c \in Callers, PendingLeft(c) PROVE JobFits'
  <2>1. Owing' = Owing
    BY <1>21 DEF PendingLeft, Goto, Owing, WorkerLabels
  <2>2. QED BY <1>21, <2>1
    DEF PendingLeft, Goto, JobFits, InJob, Working, Publishing, WorkerLabels
<1>22. ASSUME NEW c \in Callers, NothingPending(c) PROVE JobFits'
  <2>1. Owing = {}
    BY <1>22, OwingFinite, FS_EmptySet DEF NothingPending, Goto, JobFits, Working
  <2>2. Owing' = {} /\ \A w \in pool : ~InJob(w) /\ ~InJob(w)'
    BY <1>22, <2>1 DEF NothingPending, Goto, Owing, InJob
  <2>3. QED BY <1>22, <2>2 DEF NothingPending, Goto, JobFits, InJob, Working, Publishing
<1>23. ASSUME NEW c \in Callers, CompletionSignalled(c) PROVE JobFits'
  <2>1. Owing' = Owing
    BY <1>23 DEF CompletionSignalled, Goto, Owing, WorkerLabels
  <2>2. QED BY <1>23, <2>1
    DEF CompletionSignalled, Goto, JobFits, InJob, Working, Publishing, WorkerLabels
<1>24. ASSUME NEW c \in Callers, TimedOut(c) PROVE JobFits'
  <2>1. Owing' = Owing
    BY <1>24 DEF TimedOut, Goto, Owing, WorkerLabels
  <2>2. QED BY <1>24, <2>1
    DEF TimedOut, Goto, JobFits, InJob, Working, Publishing, WorkerLabels
<1>25. ASSUME NEW c \in Callers, Return(c) PROVE JobFits'
  <2>1. submit = c => Owing = {}
    BY <1>25 DEF Return, Goto, JobFits, Working
  <2>2. Owing' = Owing /\ \A w \in pool : InJob(w) <=> InJob(w)'
    BY <1>25 DEF Return, Goto, Owing, InJob
  <2>3. \A w \in Owing' : submit' \in Callers /\ submit' = submit /\ Working(submit)'
    BY <1>25, <2>1, <2>2 DEF Return, Goto, JobFits, Working
  <2>4. \A w \in pool : InJob(w) => submit' = submit
    BY <2>1, <2>2, <2>3, InJobOwes
  <2>5. QED BY <1>25, <2>2, <2>3, <2>4 DEF Return, Goto, JobFits, InJob, Working, Publishing
<1>26. ASSUME NEW c \in Callers, NEW h \in Heights, NEW big \in BOOLEAN, ConvertShared(c,
              h, big)
       PROVE  JobFits'
  <2>1. Owing = {}
    BY <1>26 DEF ConvertShared, Begin, Goto, Parallel, JobFits
  <2>2. Owing' = {} /\ \A w \in pool : ~InJob(w) /\ ~InJob(w)'
    BY <1>26, <2>1 DEF ConvertShared, Begin, Goto, Parallel, Owing, InJob
  <2>3. QED BY <1>26, <2>2
    DEF ConvertShared, Begin, Goto, Parallel, JobFits, InJob, Working, Publishing
<1>27. ASSUME NEW c \in Callers, NEW h \in Heights, NEW big \in BOOLEAN, ConvertAlone(c, h,
              big)
       PROVE  JobFits'
  <2>1. Owing' = Owing
    BY <1>27 DEF ConvertAlone, Begin, Goto, Parallel, Owing, WorkerLabels
  <2>2. QED BY <1>27, <2>1
    DEF ConvertAlone, Begin, Goto, Parallel, JobFits, InJob, Working, Publishing,
        WorkerLabels
<1>28. QED BY ONLY <1>1, <1>2, <1>3, <1>4, <1>5, <1>6, <1>7, <1>8, <1>9,
         <1>10, <1>11, <1>12, <1>13, <1>14, <1>15, <1>16, <1>17, <1>18,
         <1>19, <1>20, <1>21, <1>22, <1>23, <1>24, <1>25, <1>26, <1>27, Next
      DEF Next, WorkerStep, CallerStep, Call

\* A step that claims no rows and writes none keeps the claims.
LEMMA SameStrips ==
  ASSUME LabelsFit, StripsFit, pool' = pool, first' = first, nextRow' = nextRow,
         \A a \in Actors : pc'[a] = "write" <=> pc[a] = "write",
         \A c \in Callers : Working(c)' => Working(c) /\ rows'[c] = rows[c],
         \A c \in Callers : pc'[c] \in {"look", "wait"} => pc[c] \in {"look", "wait"}
  PROVE  StripsFit'
<1>1. pool \subseteq Actors /\ Callers \subseteq Actors
  BY DEF LabelsFit, TypeOK, Actors
<1>2. SUFFICES ASSUME NEW c \in Callers, Working(c)'
      PROVE  /\ \A a \in pool' \cup {c} : pc'[a] = "write" => first'[a] + Strip <= nextRow'
             /\ \A a, b \in pool' \cup {c} : pc'[a] = "write" /\ pc'[b] = "write" /\ a # b =>
                  first'[a] + Strip <= first'[b] \/ first'[b] + Strip <= first'[a]
             /\ pc'[c] \in {"look", "wait"} => nextRow' >= rows'[c]
  BY DEF StripsFit, Working
<1>3. Working(c) /\ rows'[c] = rows[c]
  BY <1>2
<1>4. QED BY <1>1, <1>2, <1>3 DEF StripsFit

\* next_row never gives a row to two threads of the job.
LEMMA StripsKeep ==
  ASSUME IInv, Next
  PROVE  StripsFit'
<1> USE PixelAssumption DEF sharedVars, semaVars, localVars, Actors, IInv, LabelsFit, TypeOK
<1>1. ASSUME NEW w \in pool, SeeGeneration(w) PROVE StripsFit'
  <2>1. /\ pool' = pool /\ first' = first /\ nextRow' = nextRow
        /\ \A a \in Actors : pc'[a] = "write" <=> pc[a] = "write"
    BY <1>1 DEF SeeGeneration, Goto
  <2>2. \A d \in Callers : Working(d)' => Working(d) /\ rows'[d] = rows[d]
    BY <1>1 DEF SeeGeneration, Goto, Working
  <2>3. \A d \in Callers : pc'[d] \in {"look", "wait"} => pc[d] \in {"look", "wait"}
    BY <1>1 DEF SeeGeneration, Goto
  <2>4. QED BY <2>1, <2>2, <2>3, SameStrips
<1>2. ASSUME NEW w \in pool, SeeNothing(w) PROVE StripsFit'
  <2>1. /\ pool' = pool /\ first' = first /\ nextRow' = nextRow
        /\ \A a \in Actors : pc'[a] = "write" <=> pc[a] = "write"
    BY <1>2 DEF SeeNothing, Goto
  <2>2. \A d \in Callers : Working(d)' => Working(d) /\ rows'[d] = rows[d]
    BY <1>2 DEF SeeNothing, Goto, Working
  <2>3. \A d \in Callers : pc'[d] \in {"look", "wait"} => pc[d] \in {"look", "wait"}
    BY <1>2 DEF SeeNothing, Goto
  <2>4. QED BY <2>1, <2>2, <2>3, SameStrips
<1>3. ASSUME NEW w \in pool, StartSignalled(w) PROVE StripsFit'
  <2>1. /\ pool' = pool /\ first' = first /\ nextRow' = nextRow
        /\ \A a \in Actors : pc'[a] = "write" <=> pc[a] = "write"
    BY <1>3 DEF StartSignalled, Goto
  <2>2. \A d \in Callers : Working(d)' => Working(d) /\ rows'[d] = rows[d]
    BY <1>3 DEF StartSignalled, Goto, Working
  <2>3. \A d \in Callers : pc'[d] \in {"look", "wait"} => pc[d] \in {"look", "wait"}
    BY <1>3 DEF StartSignalled, Goto
  <2>4. QED BY <2>1, <2>2, <2>3, SameStrips
<1>4. ASSUME NEW w \in pool, TimedOut(w) PROVE StripsFit'
  <2>1. /\ pool' = pool /\ first' = first /\ nextRow' = nextRow
        /\ \A a \in Actors : pc'[a] = "write" <=> pc[a] = "write"
    BY <1>4 DEF TimedOut, Goto
  <2>2. \A d \in Callers : Working(d)' => Working(d) /\ rows'[d] = rows[d]
    BY <1>4 DEF TimedOut, Goto, Working
  <2>3. \A d \in Callers : pc'[d] \in {"look", "wait"} => pc[d] \in {"look", "wait"}
    BY <1>4 DEF TimedOut, Goto
  <2>4. QED BY <2>1, <2>2, <2>3, SameStrips
<1>5. ASSUME NEW w \in pool, CopyJob(w) PROVE StripsFit'
  <2>1. /\ pool' = pool /\ first' = first /\ nextRow' = nextRow
        /\ \A a \in Actors : pc'[a] = "write" <=> pc[a] = "write"
    BY <1>5 DEF CopyJob, Goto
  <2>2. \A d \in Callers : Working(d)' => Working(d) /\ rows'[d] = rows[d]
    BY <1>5 DEF CopyJob, Goto, Working
  <2>3. \A d \in Callers : pc'[d] \in {"look", "wait"} => pc[d] \in {"look", "wait"}
    BY <1>5 DEF CopyJob, Goto
  <2>4. QED BY <2>1, <2>2, <2>3, SameStrips
<1>6. ASSUME NEW w \in pool, Claim(w, "write") PROVE StripsFit'
  <2>1. \A c \in Callers : Working(c)' => Working(c) /\ rows'[c] = rows[c]
    BY <1>6 DEF Claim, Goto, Working
  <2>2. nextRow \in Nat /\ nextRow' = nextRow + Strip /\ Strip \in Nat \ {0} /\ pool' = pool
    BY <1>6 DEF Claim, Goto
  <2>3. \A a \in Actors : first[a] \in Nat
    OBVIOUS
  <2>4. first'[w] = nextRow /\ pc'[w] = "write" /\ pc[w] = "claim"
    BY <1>6 DEF Claim, Goto
  <2>5. \A a \in Actors \ {w} : first'[a] = first[a] /\ pc'[a] = pc[a]
    BY <1>6 DEF Claim, Goto
  <2>6. ASSUME NEW c \in Callers, Working(c)'
        PROVE  /\ \A a \in pool' \cup {c} : pc'[a] = "write" => first'[a] + Strip <= nextRow'
               /\ \A a, b \in pool' \cup {c} : pc'[a] = "write" /\ pc'[b] = "write" /\ a # b =>
                    first'[a] + Strip <= first'[b] \/ first'[b] + Strip <= first'[a]
               /\ pc'[c] \in {"look", "wait"} => nextRow' >= rows'[c]
    <3>1. /\ \A a \in pool \cup {c} : pc[a] = "write" => first[a] + Strip <= nextRow
          /\ \A a, b \in pool \cup {c} : pc[a] = "write" /\ pc[b] = "write" /\ a # b =>
               first[a] + Strip <= first[b] \/ first[b] + Strip <= first[a]
          /\ pc[c] \in {"look", "wait"} => nextRow >= rows[c]
      BY <2>6, <2>1 DEF StripsFit
    <3>2. /\ pool \cup {c} \subseteq Actors /\ w \in Actors
          /\ rows[c] \in Nat /\ rows'[c] = rows[c]
      BY <2>6, <2>1
    <3>3. \A a \in pool \cup {c} : pc'[a] = "write" => first'[a] + Strip <= nextRow'
      BY <2>2, <2>3, <2>4, <2>5, <3>1, <3>2
    <3>4. \A a, b \in pool \cup {c} : pc'[a] = "write" /\ pc'[b] = "write" /\ a # b =>
               first'[a] + Strip <= first'[b] \/ first'[b] + Strip <= first'[a]
      BY <2>2, <2>3, <2>4, <2>5, <3>1, <3>2
    <3>5. pc'[c] \in {"look", "wait"} => nextRow' >= rows'[c]
      BY <2>2, <2>4, <2>5, <3>1, <3>2
    <3>6. QED BY <2>2, <3>3, <3>4, <3>5
  <2>7. QED BY <2>6 DEF StripsFit, Working
<1>7. ASSUME NEW w \in pool, Write(w) PROVE StripsFit'
  <2>1. pool' = pool /\ nextRow' = nextRow /\ rows' = rows
    BY <1>7 DEF Write, Goto
  <2>2. \A a \in Actors : pc'[a] = "write" => pc[a] = "write" /\ first'[a] = first[a]
    BY <1>7 DEF Write, Goto
  <2>3. \A d \in Callers : /\ Working(d)' => Working(d)
                           /\ pc'[d] \in {"look", "wait"} => pc[d] \in {"look", "wait"}
    BY <1>7 DEF Write, Goto, Working
  <2>4. pool \subseteq Actors /\ Callers \subseteq Actors
    OBVIOUS
  <2>5. SUFFICES ASSUME NEW d \in Callers, Working(d)'
        PROVE  /\ \A a \in pool' \cup {d} : pc'[a] = "write" => first'[a] + Strip <= nextRow'
               /\ \A a, b \in pool' \cup {d} : pc'[a] = "write" /\ pc'[b] = "write" /\ a # b =>
                    first'[a] + Strip <= first'[b] \/ first'[b] + Strip <= first'[a]
               /\ pc'[d] \in {"look", "wait"} => nextRow' >= rows'[d]
    BY DEF StripsFit, Working
  <2>6. QED BY <2>1, <2>2, <2>3, <2>4, <2>5 DEF StripsFit
<1>8. ASSUME NEW w \in pool, ClaimNothing(w, "decrement") PROVE StripsFit'
  <2>1. \A c \in Callers : Working(c)' => Working(c) /\ rows'[c] = rows[c]
    BY <1>8 DEF ClaimNothing, Goto, Working
  <2>2. nextRow \in Nat /\ nextRow' = nextRow + Strip /\ Strip \in Nat \ {0} /\ pool' = pool
    BY <1>8 DEF ClaimNothing, Goto
  <2>3. \A a \in Actors : first[a] \in Nat
    OBVIOUS
  <2>4. first' = first /\ pc'[w] # "write" /\ nextRow >= rows[w]
    BY <1>8 DEF ClaimNothing, Goto
  <2>5. \A a \in Actors \ {w} : pc'[a] = pc[a]
    BY <1>8 DEF ClaimNothing, Goto
  <2>6. ASSUME NEW c \in Callers, Working(c)'
        PROVE  /\ \A a \in pool' \cup {c} : pc'[a] = "write" => first'[a] + Strip <= nextRow'
               /\ \A a, b \in pool' \cup {c} : pc'[a] = "write" /\ pc'[b] = "write" /\ a # b =>
                    first'[a] + Strip <= first'[b] \/ first'[b] + Strip <= first'[a]
               /\ pc'[c] \in {"look", "wait"} => nextRow' >= rows'[c]
    <3>1. /\ \A a \in pool \cup {c} : pc[a] = "write" => first[a] + Strip <= nextRow
          /\ \A a, b \in pool \cup {c} : pc[a] = "write" /\ pc[b] = "write" /\ a # b =>
               first[a] + Strip <= first[b] \/ first[b] + Strip <= first[a]
          /\ pc[c] \in {"look", "wait"} => nextRow >= rows[c]
      BY <2>6, <2>1 DEF StripsFit
    <3>2. /\ pool \cup {c} \subseteq Actors /\ w \in Actors
          /\ rows[c] \in Nat /\ rows'[c] = rows[c]
      BY <2>6, <2>1
    <3>3. \A a \in pool \cup {c} : pc'[a] = "write" => first'[a] + Strip <= nextRow'
      BY <2>2, <2>3, <2>4, <2>5, <3>1, <3>2
    <3>4. \A a, b \in pool \cup {c} : pc'[a] = "write" /\ pc'[b] = "write" /\ a # b =>
               first'[a] + Strip <= first'[b] \/ first'[b] + Strip <= first'[a]
      BY <2>4, <2>5, <3>1, <3>2
    <3>5. pc'[c] \in {"look", "wait"} => nextRow' >= rows'[c]
      BY <2>2, <2>4, <2>5, <3>1, <3>2
    <3>6. QED BY <2>2, <3>3, <3>4, <3>5
  <2>7. QED BY <2>6 DEF StripsFit, Working
<1>9. ASSUME NEW w \in pool, Decrement(w) PROVE StripsFit'
  <2>1. /\ pool' = pool /\ first' = first /\ nextRow' = nextRow
        /\ \A a \in Actors : pc'[a] = "write" <=> pc[a] = "write"
    BY <1>9 DEF Decrement, Goto
  <2>2. \A d \in Callers : Working(d)' => Working(d) /\ rows'[d] = rows[d]
    BY <1>9 DEF Decrement, Goto, Working
  <2>3. \A d \in Callers : pc'[d] \in {"look", "wait"} => pc[d] \in {"look", "wait"}
    BY <1>9 DEF Decrement, Goto
  <2>4. QED BY <2>1, <2>2, <2>3, SameStrips
<1>10. ASSUME NEW w \in pool, SignalCompletion(w) PROVE StripsFit'
  <2>1. /\ pool' = pool /\ first' = first /\ nextRow' = nextRow
        /\ \A a \in Actors : pc'[a] = "write" <=> pc[a] = "write"
    BY <1>10 DEF SignalCompletion, Goto
  <2>2. \A d \in Callers : Working(d)' => Working(d) /\ rows'[d] = rows[d]
    BY <1>10 DEF SignalCompletion, Goto, Working
  <2>3. \A d \in Callers : pc'[d] \in {"look", "wait"} => pc[d] \in {"look", "wait"}
    BY <1>10 DEF SignalCompletion, Goto
  <2>4. QED BY <2>1, <2>2, <2>3, SameStrips
<1>11. ASSUME NEW c \in Callers, ConvertInline(c) PROVE StripsFit'
  <2>1. /\ pool' = pool /\ first' = first /\ nextRow' = nextRow
        /\ \A a \in Actors : pc'[a] = "write" <=> pc[a] = "write"
    BY <1>11 DEF ConvertInline, Goto
  <2>2. \A d \in Callers : Working(d)' => Working(d) /\ rows'[d] = rows[d]
    BY <1>11 DEF ConvertInline, Goto, Working
  <2>3. \A d \in Callers : pc'[d] \in {"look", "wait"} => pc[d] \in {"look", "wait"}
    BY <1>11 DEF ConvertInline, Goto
  <2>4. QED BY <2>1, <2>2, <2>3, SameStrips
<1>12. ASSUME NEW c \in Callers, PublishJob(c) PROVE StripsFit'
  <2>1. /\ pool' = pool /\ first' = first /\ nextRow' = nextRow
        /\ \A a \in Actors : pc'[a] = "write" <=> pc[a] = "write"
    BY <1>12 DEF PublishJob, Goto
  <2>2. \A d \in Callers : Working(d)' => Working(d) /\ rows'[d] = rows[d]
    BY <1>12 DEF PublishJob, Goto, Working
  <2>3. \A d \in Callers : pc'[d] \in {"look", "wait"} => pc[d] \in {"look", "wait"}
    BY <1>12 DEF PublishJob, Goto
  <2>4. QED BY <2>1, <2>2, <2>3, SameStrips
<1>13. ASSUME NEW c \in Callers, PublishRows(c) PROVE StripsFit'
  <2>1. \A d \in Callers : ~Working(d)'
    BY <1>13 DEF PublishRows, Goto, Working, Publishing
  <2>2. QED BY <2>1 DEF StripsFit, Working
<1>14. ASSUME NEW c \in Callers, PublishPending(c) PROVE StripsFit'
  <2>1. /\ pool' = pool /\ first' = first /\ nextRow' = nextRow
        /\ \A a \in Actors : pc'[a] = "write" <=> pc[a] = "write"
    BY <1>14 DEF PublishPending, Goto
  <2>2. \A d \in Callers : Working(d)' => Working(d) /\ rows'[d] = rows[d]
    BY <1>14 DEF PublishPending, Goto, Working
  <2>3. \A d \in Callers : pc'[d] \in {"look", "wait"} => pc[d] \in {"look", "wait"}
    BY <1>14 DEF PublishPending, Goto
  <2>4. QED BY <2>1, <2>2, <2>3, SameStrips
<1>15. ASSUME NEW c \in Callers, PublishGeneration(c) PROVE StripsFit'
  <2>1. \A d \in Callers : Working(d)' => d = c
    BY <1>15 DEF PublishGeneration, Goto, Working, Publishing
  <2>2. \A a \in pool \cup {c} : pc'[a] # "write"
    <3>1. Owing = {}
      BY <1>15, OneWorks DEF PublishGeneration, Goto, JobFits, Publishing, Working
    <3>2. QED BY <1>15, <3>1 DEF PublishGeneration, Goto, Owing
  <2>3. pool' = pool /\ pc'[c] = "signal"
    BY <1>15 DEF PublishGeneration, Goto
  <2>4. QED BY <2>1, <2>2, <2>3 DEF StripsFit, Working
<1>16. ASSUME NEW c \in Callers, NEW w \in Workers, SignalWorker(c, w) PROVE StripsFit'
  <2>1. /\ pool' = pool /\ first' = first /\ nextRow' = nextRow
        /\ \A a \in Actors : pc'[a] = "write" <=> pc[a] = "write"
    BY <1>16 DEF SignalWorker
  <2>2. \A d \in Callers : Working(d)' => Working(d) /\ rows'[d] = rows[d]
    BY <1>16 DEF SignalWorker, Working
  <2>3. \A d \in Callers : pc'[d] \in {"look", "wait"} => pc[d] \in {"look", "wait"}
    BY <1>16 DEF SignalWorker
  <2>4. QED BY <2>1, <2>2, <2>3, SameStrips
<1>17. ASSUME NEW c \in Callers, AllSignalled(c) PROVE StripsFit'
  <2>1. /\ pool' = pool /\ first' = first /\ nextRow' = nextRow
        /\ \A a \in Actors : pc'[a] = "write" <=> pc[a] = "write"
    BY <1>17 DEF AllSignalled, Goto
  <2>2. \A d \in Callers : Working(d)' => Working(d) /\ rows'[d] = rows[d]
    BY <1>17 DEF AllSignalled, Goto, Working
  <2>3. \A d \in Callers : pc'[d] \in {"look", "wait"} => pc[d] \in {"look", "wait"}
    BY <1>17 DEF AllSignalled, Goto
  <2>4. QED BY <2>1, <2>2, <2>3, SameStrips
<1>18. ASSUME NEW e \in Callers, Claim(e, "write") PROVE StripsFit'
  <2>1. \A c \in Callers : Working(c)' => Working(c) /\ rows'[c] = rows[c]
    BY <1>18 DEF Claim, Goto, Working
  <2>2. nextRow \in Nat /\ nextRow' = nextRow + Strip /\ Strip \in Nat \ {0} /\ pool' = pool
    BY <1>18 DEF Claim, Goto
  <2>3. \A a \in Actors : first[a] \in Nat
    OBVIOUS
  <2>4. first'[e] = nextRow /\ pc'[e] = "write" /\ pc[e] = "claim"
    BY <1>18 DEF Claim, Goto
  <2>5. \A a \in Actors \ {e} : first'[a] = first[a] /\ pc'[a] = pc[a]
    BY <1>18 DEF Claim, Goto
  <2>6. ASSUME NEW c \in Callers, Working(c)'
        PROVE  /\ \A a \in pool' \cup {c} : pc'[a] = "write" => first'[a] + Strip <= nextRow'
               /\ \A a, b \in pool' \cup {c} : pc'[a] = "write" /\ pc'[b] = "write" /\ a # b =>
                    first'[a] + Strip <= first'[b] \/ first'[b] + Strip <= first'[a]
               /\ pc'[c] \in {"look", "wait"} => nextRow' >= rows'[c]
    <3>1. /\ \A a \in pool \cup {c} : pc[a] = "write" => first[a] + Strip <= nextRow
          /\ \A a, b \in pool \cup {c} : pc[a] = "write" /\ pc[b] = "write" /\ a # b =>
               first[a] + Strip <= first[b] \/ first[b] + Strip <= first[a]
          /\ pc[c] \in {"look", "wait"} => nextRow >= rows[c]
      BY <2>6, <2>1 DEF StripsFit
    <3>2. /\ pool \cup {c} \subseteq Actors /\ c \in Actors
          /\ rows[c] \in Nat /\ rows'[c] = rows[c]
      BY <2>6, <2>1
    <3>3. \A a \in pool \cup {c} : pc'[a] = "write" => first'[a] + Strip <= nextRow'
      BY <2>2, <2>3, <2>4, <2>5, <3>1, <3>2
    <3>4. \A a, b \in pool \cup {c} : pc'[a] = "write" /\ pc'[b] = "write" /\ a # b =>
               first'[a] + Strip <= first'[b] \/ first'[b] + Strip <= first'[a]
      BY <2>2, <2>3, <2>4, <2>5, <3>1, <3>2
    <3>5. pc'[c] \in {"look", "wait"} => nextRow' >= rows'[c]
      BY <2>2, <2>4, <2>5, <3>1, <3>2
    <3>6. QED BY <2>2, <3>3, <3>4, <3>5
  <2>7. QED BY <2>6 DEF StripsFit, Working
<1>19. ASSUME NEW c \in Callers, Write(c) PROVE StripsFit'
  <2>1. pool' = pool /\ nextRow' = nextRow /\ rows' = rows
    BY <1>19 DEF Write, Goto
  <2>2. \A a \in Actors : pc'[a] = "write" => pc[a] = "write" /\ first'[a] = first[a]
    BY <1>19 DEF Write, Goto
  <2>3. \A d \in Callers : /\ Working(d)' => Working(d)
                           /\ pc'[d] \in {"look", "wait"} => pc[d] \in {"look", "wait"}
    BY <1>19 DEF Write, Goto, Working
  <2>4. pool \subseteq Actors /\ Callers \subseteq Actors
    OBVIOUS
  <2>5. SUFFICES ASSUME NEW d \in Callers, Working(d)'
        PROVE  /\ \A a \in pool' \cup {d} : pc'[a] = "write" => first'[a] + Strip <= nextRow'
               /\ \A a, b \in pool' \cup {d} : pc'[a] = "write" /\ pc'[b] = "write" /\ a # b =>
                    first'[a] + Strip <= first'[b] \/ first'[b] + Strip <= first'[a]
               /\ pc'[d] \in {"look", "wait"} => nextRow' >= rows'[d]
    BY DEF StripsFit, Working
  <2>6. QED BY <2>1, <2>2, <2>3, <2>4, <2>5 DEF StripsFit
<1>20. ASSUME NEW e \in Callers, ClaimNothing(e, "look") PROVE StripsFit'
  <2>1. \A c \in Callers : Working(c)' => Working(c) /\ rows'[c] = rows[c]
    BY <1>20 DEF ClaimNothing, Goto, Working
  <2>2. nextRow \in Nat /\ nextRow' = nextRow + Strip /\ Strip \in Nat \ {0} /\ pool' = pool
    BY <1>20 DEF ClaimNothing, Goto
  <2>3. \A a \in Actors : first[a] \in Nat
    OBVIOUS
  <2>4. first' = first /\ pc'[e] # "write" /\ nextRow >= rows[e]
    BY <1>20 DEF ClaimNothing, Goto
  <2>5. \A a \in Actors \ {e} : pc'[a] = pc[a]
    BY <1>20 DEF ClaimNothing, Goto
  <2>6. ASSUME NEW c \in Callers, Working(c)'
        PROVE  /\ \A a \in pool' \cup {c} : pc'[a] = "write" => first'[a] + Strip <= nextRow'
               /\ \A a, b \in pool' \cup {c} : pc'[a] = "write" /\ pc'[b] = "write" /\ a # b =>
                    first'[a] + Strip <= first'[b] \/ first'[b] + Strip <= first'[a]
               /\ pc'[c] \in {"look", "wait"} => nextRow' >= rows'[c]
    <3>1. /\ \A a \in pool \cup {c} : pc[a] = "write" => first[a] + Strip <= nextRow
          /\ \A a, b \in pool \cup {c} : pc[a] = "write" /\ pc[b] = "write" /\ a # b =>
               first[a] + Strip <= first[b] \/ first[b] + Strip <= first[a]
          /\ pc[c] \in {"look", "wait"} => nextRow >= rows[c]
      BY <2>6, <2>1 DEF StripsFit
    <3>2. /\ pool \cup {c} \subseteq Actors /\ c \in Actors
          /\ rows[c] \in Nat /\ rows'[c] = rows[c]
      BY <2>6, <2>1
    <3>3. \A a \in pool \cup {c} : pc'[a] = "write" => first'[a] + Strip <= nextRow'
      BY <2>2, <2>3, <2>4, <2>5, <3>1, <3>2
    <3>4. \A a, b \in pool \cup {c} : pc'[a] = "write" /\ pc'[b] = "write" /\ a # b =>
               first'[a] + Strip <= first'[b] \/ first'[b] + Strip <= first'[a]
      BY <2>4, <2>5, <3>1, <3>2
    <3>5. pc'[c] \in {"look", "wait"} => nextRow' >= rows'[c]
      BY <2>2, <2>4, <2>5, <3>1, <3>2
    <3>6. QED BY <2>2, <3>3, <3>4, <3>5
  <2>7. QED BY <2>6 DEF StripsFit, Working
<1>21. ASSUME NEW c \in Callers, PendingLeft(c) PROVE StripsFit'
  <2>1. /\ pool' = pool /\ first' = first /\ nextRow' = nextRow
        /\ \A a \in Actors : pc'[a] = "write" <=> pc[a] = "write"
    BY <1>21 DEF PendingLeft, Goto
  <2>2. \A d \in Callers : Working(d)' => Working(d) /\ rows'[d] = rows[d]
    BY <1>21 DEF PendingLeft, Goto, Working
  <2>3. \A d \in Callers : pc'[d] \in {"look", "wait"} => pc[d] \in {"look", "wait"}
    BY <1>21 DEF PendingLeft, Goto
  <2>4. QED BY <2>1, <2>2, <2>3, SameStrips
<1>22. ASSUME NEW c \in Callers, NothingPending(c) PROVE StripsFit'
  <2>1. /\ pool' = pool /\ first' = first /\ nextRow' = nextRow
        /\ \A a \in Actors : pc'[a] = "write" <=> pc[a] = "write"
    BY <1>22 DEF NothingPending, Goto
  <2>2. \A d \in Callers : Working(d)' => Working(d) /\ rows'[d] = rows[d]
    BY <1>22 DEF NothingPending, Goto, Working
  <2>3. \A d \in Callers : pc'[d] \in {"look", "wait"} => pc[d] \in {"look", "wait"}
    BY <1>22 DEF NothingPending, Goto
  <2>4. QED BY <2>1, <2>2, <2>3, SameStrips
<1>23. ASSUME NEW c \in Callers, CompletionSignalled(c) PROVE StripsFit'
  <2>1. /\ pool' = pool /\ first' = first /\ nextRow' = nextRow
        /\ \A a \in Actors : pc'[a] = "write" <=> pc[a] = "write"
    BY <1>23 DEF CompletionSignalled, Goto
  <2>2. \A d \in Callers : Working(d)' => Working(d) /\ rows'[d] = rows[d]
    BY <1>23 DEF CompletionSignalled, Goto, Working
  <2>3. \A d \in Callers : pc'[d] \in {"look", "wait"} => pc[d] \in {"look", "wait"}
    BY <1>23 DEF CompletionSignalled, Goto
  <2>4. QED BY <2>1, <2>2, <2>3, SameStrips
<1>24. ASSUME NEW c \in Callers, TimedOut(c) PROVE StripsFit'
  <2>1. /\ pool' = pool /\ first' = first /\ nextRow' = nextRow
        /\ \A a \in Actors : pc'[a] = "write" <=> pc[a] = "write"
    BY <1>24 DEF TimedOut, Goto
  <2>2. \A d \in Callers : Working(d)' => Working(d) /\ rows'[d] = rows[d]
    BY <1>24 DEF TimedOut, Goto, Working
  <2>3. \A d \in Callers : pc'[d] \in {"look", "wait"} => pc[d] \in {"look", "wait"}
    BY <1>24 DEF TimedOut, Goto
  <2>4. QED BY <2>1, <2>2, <2>3, SameStrips
<1>25. ASSUME NEW c \in Callers, Return(c) PROVE StripsFit'
  <2>1. /\ pool' = pool /\ first' = first /\ nextRow' = nextRow
        /\ \A a \in Actors : pc'[a] = "write" <=> pc[a] = "write"
    BY <1>25 DEF Return, Goto
  <2>2. \A d \in Callers : Working(d)' => Working(d) /\ rows'[d] = rows[d]
    BY <1>25 DEF Return, Goto, Working
  <2>3. \A d \in Callers : pc'[d] \in {"look", "wait"} => pc[d] \in {"look", "wait"}
    BY <1>25 DEF Return, Goto
  <2>4. QED BY <2>1, <2>2, <2>3, SameStrips
<1>26. ASSUME NEW c \in Callers, NEW h \in Heights, NEW big \in BOOLEAN, ConvertShared(c,
              h, big)
       PROVE  StripsFit'
  <2>1. /\ pool' = pool /\ first' = first /\ nextRow' = nextRow
        /\ \A a \in Actors : pc'[a] = "write" <=> pc[a] = "write"
    BY <1>26 DEF ConvertShared, Begin, Goto, Parallel
  <2>2. \A d \in Callers : Working(d)' => Working(d) /\ rows'[d] = rows[d]
    BY <1>26 DEF ConvertShared, Begin, Goto, Parallel, Working
  <2>3. \A d \in Callers : pc'[d] \in {"look", "wait"} => pc[d] \in {"look", "wait"}
    BY <1>26 DEF ConvertShared, Begin, Goto, Parallel
  <2>4. QED BY <2>1, <2>2, <2>3, SameStrips
<1>27. ASSUME NEW c \in Callers, NEW h \in Heights, NEW big \in BOOLEAN, ConvertAlone(c, h,
              big)
       PROVE  StripsFit'
  <2>1. /\ pool' = pool /\ first' = first /\ nextRow' = nextRow
        /\ \A a \in Actors : pc'[a] = "write" <=> pc[a] = "write"
    BY <1>27 DEF ConvertAlone, Begin, Goto, Parallel
  <2>2. \A d \in Callers : Working(d)' => Working(d) /\ rows'[d] = rows[d]
    BY <1>27 DEF ConvertAlone, Begin, Goto, Parallel, Working
  <2>3. \A d \in Callers : pc'[d] \in {"look", "wait"} => pc[d] \in {"look", "wait"}
    BY <1>27 DEF ConvertAlone, Begin, Goto, Parallel
  <2>4. QED BY <2>1, <2>2, <2>3, SameStrips
<1>28. QED BY ONLY <1>1, <1>2, <1>3, <1>4, <1>5, <1>6, <1>7, <1>8, <1>9,
         <1>10, <1>11, <1>12, <1>13, <1>14, <1>15, <1>16, <1>17, <1>18,
         <1>19, <1>20, <1>21, <1>22, <1>23, <1>24, <1>25, <1>26, <1>27, Next
      DEF Next, WorkerStep, CallerStep, Call

\* A step that claims no rows and writes none keeps their counts, when nobody
\* starts or ends a conversion with it.
LEMMA SameRows ==
  ASSUME LabelsFit, RowsFit, pool' = pool, first' = first, nextRow' = nextRow, written' = written,
         \A a \in Actors : pc'[a] = "write" <=> pc[a] = "write",
         \A c \in Callers : Working(c)' => Working(c) /\ rows'[c] = rows[c],
         \A c \in Callers : pc'[c] \in {"idle", "inline"} \/ Publishing(c)' =>
                              pc[c] \in {"idle", "inline"} \/ Publishing(c),
         \A c \in Callers : pc'[c] = "return" => pc[c] = "return" /\ rows'[c] = rows[c]
  PROVE  RowsFit'
<1>1. pool \subseteq Actors /\ Callers \subseteq Actors
  BY DEF LabelsFit, TypeOK, Actors
<1>2. ASSUME NEW c \in Callers, NEW r \in Rows, NEW a \in pool \cup {c}
      PROVE  Holding(a, r)' <=> Holding(a, r)
  BY <1>1 DEF Holding
<1>3. ASSUME NEW c \in Callers, Working(c)', NEW r \in Rows
      PROVE  written'[<<c, r>>] = IF /\ r < rows'[c] /\ r < nextRow'
                                     /\ \A a \in pool' \cup {c} : ~Holding(a, r)'
                                  THEN 1 ELSE 0
  BY <1>2, <1>3 DEF RowsFit
<1>4. ASSUME NEW c \in Callers, pc'[c] \in {"idle", "inline"} \/ Publishing(c)', NEW r \in Rows
      PROVE  written'[<<c, r>>] = 0
  BY <1>4 DEF RowsFit
<1>5. ASSUME NEW c \in Callers, pc'[c] = "return", NEW r \in Rows
      PROVE  written'[<<c, r>>] = IF r < rows'[c] THEN 1 ELSE 0
  BY <1>5 DEF RowsFit
<1>6. QED BY <1>3, <1>4, <1>5 DEF RowsFit, Working, Publishing

\* Every row below next_row is written once, or is still in a claimed strip.
LEMMA RowsKeep ==
  ASSUME IInv, Next
  PROVE  RowsFit'
<1> USE PixelAssumption DEF sharedVars, semaVars, localVars, Actors, IInv, LabelsFit, TypeOK
<1>1. ASSUME NEW w \in pool, SeeGeneration(w) PROVE RowsFit'
  <2>1. /\ pool' = pool /\ first' = first /\ nextRow' = nextRow /\ written' = written
        /\ \A a \in Actors : pc'[a] = "write" <=> pc[a] = "write"
    BY <1>1 DEF SeeGeneration, Goto
  <2>2. \A d \in Callers : Working(d)' => Working(d) /\ rows'[d] = rows[d]
    BY <1>1 DEF SeeGeneration, Goto, Working
  <2>3. \A d \in Callers : /\ pc'[d] \in {"idle", "inline"} \/ Publishing(d)' =>
                                pc[d] \in {"idle", "inline"} \/ Publishing(d)
                           /\ pc'[d] = "return" => pc[d] = "return" /\ rows'[d] = rows[d]
    BY <1>1 DEF SeeGeneration, Goto, Publishing
  <2>4. QED BY <2>1, <2>2, <2>3, SameRows
<1>2. ASSUME NEW w \in pool, SeeNothing(w) PROVE RowsFit'
  <2>1. /\ pool' = pool /\ first' = first /\ nextRow' = nextRow /\ written' = written
        /\ \A a \in Actors : pc'[a] = "write" <=> pc[a] = "write"
    BY <1>2 DEF SeeNothing, Goto
  <2>2. \A d \in Callers : Working(d)' => Working(d) /\ rows'[d] = rows[d]
    BY <1>2 DEF SeeNothing, Goto, Working
  <2>3. \A d \in Callers : /\ pc'[d] \in {"idle", "inline"} \/ Publishing(d)' =>
                                pc[d] \in {"idle", "inline"} \/ Publishing(d)
                           /\ pc'[d] = "return" => pc[d] = "return" /\ rows'[d] = rows[d]
    BY <1>2 DEF SeeNothing, Goto, Publishing
  <2>4. QED BY <2>1, <2>2, <2>3, SameRows
<1>3. ASSUME NEW w \in pool, StartSignalled(w) PROVE RowsFit'
  <2>1. /\ pool' = pool /\ first' = first /\ nextRow' = nextRow /\ written' = written
        /\ \A a \in Actors : pc'[a] = "write" <=> pc[a] = "write"
    BY <1>3 DEF StartSignalled, Goto
  <2>2. \A d \in Callers : Working(d)' => Working(d) /\ rows'[d] = rows[d]
    BY <1>3 DEF StartSignalled, Goto, Working
  <2>3. \A d \in Callers : /\ pc'[d] \in {"idle", "inline"} \/ Publishing(d)' =>
                                pc[d] \in {"idle", "inline"} \/ Publishing(d)
                           /\ pc'[d] = "return" => pc[d] = "return" /\ rows'[d] = rows[d]
    BY <1>3 DEF StartSignalled, Goto, Publishing
  <2>4. QED BY <2>1, <2>2, <2>3, SameRows
<1>4. ASSUME NEW w \in pool, TimedOut(w) PROVE RowsFit'
  <2>1. /\ pool' = pool /\ first' = first /\ nextRow' = nextRow /\ written' = written
        /\ \A a \in Actors : pc'[a] = "write" <=> pc[a] = "write"
    BY <1>4 DEF TimedOut, Goto
  <2>2. \A d \in Callers : Working(d)' => Working(d) /\ rows'[d] = rows[d]
    BY <1>4 DEF TimedOut, Goto, Working
  <2>3. \A d \in Callers : /\ pc'[d] \in {"idle", "inline"} \/ Publishing(d)' =>
                                pc[d] \in {"idle", "inline"} \/ Publishing(d)
                           /\ pc'[d] = "return" => pc[d] = "return" /\ rows'[d] = rows[d]
    BY <1>4 DEF TimedOut, Goto, Publishing
  <2>4. QED BY <2>1, <2>2, <2>3, SameRows
<1>5. ASSUME NEW w \in pool, CopyJob(w) PROVE RowsFit'
  <2>1. /\ pool' = pool /\ first' = first /\ nextRow' = nextRow /\ written' = written
        /\ \A a \in Actors : pc'[a] = "write" <=> pc[a] = "write"
    BY <1>5 DEF CopyJob, Goto
  <2>2. \A d \in Callers : Working(d)' => Working(d) /\ rows'[d] = rows[d]
    BY <1>5 DEF CopyJob, Goto, Working
  <2>3. \A d \in Callers : /\ pc'[d] \in {"idle", "inline"} \/ Publishing(d)' =>
                                pc[d] \in {"idle", "inline"} \/ Publishing(d)
                           /\ pc'[d] = "return" => pc[d] = "return" /\ rows'[d] = rows[d]
    BY <1>5 DEF CopyJob, Goto, Publishing
  <2>4. QED BY <2>1, <2>2, <2>3, SameRows
<1>6. ASSUME NEW w \in pool, Claim(w, "write") PROVE RowsFit'
  <2>30. ASSUME NEW d \in Callers, Working(d)', NEW r \in Rows
        PROVE  written'[<<d, r>>] = IF /\ r < rows'[d] /\ r < nextRow'
                                       /\ \A a \in pool' \cup {d} : ~Holding(a, r)'
                                    THEN 1 ELSE 0
    <3>1. Working(d) /\ rows'[d] = rows[d] /\ pool' = pool /\ written' = written
      BY <1>6, <2>30 DEF Claim, Goto, Working
    <3>2. w \in pool \cup {d} /\ rows[w] = rows[d]
      BY <1>6, <3>1, InJobOwes, OneWorks DEF Claim, Goto, InJob, Working, JobFits
    <3>3. /\ nextRow \in Nat /\ nextRow' = nextRow + Strip /\ Strip \in Nat \ {0}
          /\ r \in Nat /\ rows[d] \in Nat /\ \A a \in Actors : first[a] \in Nat
      BY <1>6, RowsAreNumbers, Numbers DEF Claim, Goto
    <3>4. pool \cup {d} \subseteq Actors /\ w \in Actors
      OBVIOUS
    <3>5. written[<<d, r>>] = IF /\ r < rows[d] /\ r < nextRow
                                 /\ \A a \in pool \cup {d} : ~Holding(a, r)
                              THEN 1 ELSE 0
      BY <3>1 DEF RowsFit
    <3>6. \A a \in pool \cup {d} : a # w => (Holding(a, r)' <=> Holding(a, r))
      BY <1>6, <3>4 DEF Claim, Goto, Holding
    <3>7. ~Holding(w, r) /\ (Holding(w, r)' <=> nextRow <= r /\ r < nextRow + Strip)
      BY <1>6, <3>3, <3>4 DEF Claim, Goto, Holding
    <3>8. \A a \in pool \cup {d} : Holding(a, r) => r < nextRow
      BY <3>1, <3>3, <3>4 DEF Holding, StripsFit
    <3>9. CASE r < nextRow
      BY <3>1, <3>3, <3>5, <3>6, <3>7, <3>9
    <3>10. CASE nextRow <= r /\ r < nextRow + Strip
      BY <3>1, <3>2, <3>3, <3>5, <3>6, <3>7, <3>10
    <3>11. CASE nextRow + Strip <= r
      BY <3>1, <3>3, <3>5, <3>6, <3>7, <3>11
    <3>12. QED BY <3>3, <3>9, <3>10, <3>11
  <2>31. ASSUME NEW d \in Callers, pc'[d] \in {"idle", "inline"} \/ Publishing(d)', NEW r \in Rows
        PROVE  written'[<<d, r>>] = 0
    BY <1>6, <2>31 DEF Claim, Goto, RowsFit, Publishing
  <2>32. ASSUME NEW d \in Callers, pc'[d] = "return", NEW r \in Rows
        PROVE  written'[<<d, r>>] = IF r < rows'[d] THEN 1 ELSE 0
    BY <1>6, <2>32 DEF Claim, Goto, RowsFit
  <2>33. QED BY <2>30, <2>31, <2>32 DEF RowsFit, Working, Publishing
<1>7. ASSUME NEW w \in pool, Write(w) PROVE RowsFit'
  <2>30. ASSUME NEW d \in Callers, Working(d)', NEW r \in Rows
        PROVE  written'[<<d, r>>] = IF /\ r < rows'[d] /\ r < nextRow'
                                       /\ \A a \in pool' \cup {d} : ~Holding(a, r)'
                                    THEN 1 ELSE 0
    <3>1. Working(d) /\ rows'[d] = rows[d] /\ pool' = pool /\ nextRow' = nextRow
      BY <1>7, <2>30 DEF Write, Goto, Working
    <3>2. w \in pool \cup {d} /\ rows[w] = rows[d] /\ dst[w] = d
      BY <1>7, <3>1, InJobOwes, OneWorks DEF Write, Goto, InJob, Working, JobFits
    <3>3. /\ nextRow \in Nat /\ Strip \in Nat \ {0}
          /\ r \in Nat /\ rows[d] \in Nat /\ \A a \in Actors : first[a] \in Nat
      BY RowsAreNumbers, Numbers
    <3>4. pool \cup {d} \subseteq Actors /\ w \in Actors
      OBVIOUS
    <3>5. written[<<d, r>>] = IF /\ r < rows[d] /\ r < nextRow
                                 /\ \A a \in pool \cup {d} : ~Holding(a, r)
                              THEN 1 ELSE 0
      BY <3>1 DEF RowsFit
    <3>6. \A a \in pool \cup {d} : a # w => (Holding(a, r)' <=> Holding(a, r))
      BY <1>7, <3>4 DEF Write, Goto, Holding
    <3>7. ~Holding(w, r)'
      BY <1>7, <3>4 DEF Write, Goto, Holding
    <3>8. Holding(w, r) <=> first[w] <= r /\ r < first[w] + Strip
      BY <1>7 DEF Write, Goto, Holding
    <3>9. written'[<<d, r>>] = IF Holding(w, r) /\ r < rows[d] THEN Again(written[<<d, r>>])
                               ELSE written[<<d, r>>]
      BY <1>7, <3>2, <3>8 DEF Write, MyRows
    <3>10. CASE Holding(w, r)
      <4>1. \A a \in pool \cup {d} : a # w => ~Holding(a, r)
        BY <1>7, <3>1, <3>2, <3>3, <3>4, <3>10, SMTT(30) DEF Write, Goto, Holding, StripsFit
      <4>2. r < nextRow
        BY <1>7, <3>1, <3>2, <3>3, <3>4, <3>10 DEF Write, Goto, Holding, StripsFit
      <4>3. written[<<d, r>>] = 0
        BY <3>2, <3>5, <3>10
      <4>4. \A a \in pool' \cup {d} : ~Holding(a, r)'
        BY <4>1, <3>1, <3>6, <3>7
      <4>5. QED BY <4>2, <4>3, <4>4, <3>1, <3>9, <3>10 DEF Again
    <3>11. CASE ~Holding(w, r)
      BY <3>1, <3>5, <3>6, <3>7, <3>9, <3>11
    <3>12. QED BY <3>10, <3>11
  <2>31. ASSUME NEW d \in Callers, pc'[d] \in {"idle", "inline"} \/ Publishing(d)', NEW r \in Rows
        PROVE  written'[<<d, r>>] = 0
    <3>1. dst[w] # d
      BY <1>7, <2>31, InJobOwes DEF Write, Goto, InJob, JobFits, Working, Publishing
    <3>2. written'[<<d, r>>] = written[<<d, r>>]
      BY <1>7, <3>1 DEF Write, Goto
    <3>3. QED BY <1>7, <3>2, <2>31 DEF Write, Goto, RowsFit, Publishing
  <2>32. ASSUME NEW d \in Callers, pc'[d] = "return", NEW r \in Rows
        PROVE  written'[<<d, r>>] = IF r < rows'[d] THEN 1 ELSE 0
    <3>1. dst[w] # d
      BY <1>7, <2>32, InJobOwes DEF Write, Goto, InJob, JobFits, Working, Publishing
    <3>2. written'[<<d, r>>] = written[<<d, r>>]
      BY <1>7, <3>1 DEF Write, Goto
    <3>3. QED BY <1>7, <3>2, <2>32 DEF Write, Goto, RowsFit, Publishing
  <2>33. QED BY <2>30, <2>31, <2>32 DEF RowsFit, Working, Publishing
<1>8. ASSUME NEW w \in pool, ClaimNothing(w, "decrement") PROVE RowsFit'
  <2>30. ASSUME NEW d \in Callers, Working(d)', NEW r \in Rows
        PROVE  written'[<<d, r>>] = IF /\ r < rows'[d] /\ r < nextRow'
                                       /\ \A a \in pool' \cup {d} : ~Holding(a, r)'
                                    THEN 1 ELSE 0
    <3>1. Working(d) /\ rows'[d] = rows[d] /\ pool' = pool /\ written' = written
      BY <1>8, <2>30 DEF ClaimNothing, Goto, Working
    <3>2. w \in pool \cup {d} /\ rows[w] = rows[d]
      BY <1>8, <3>1, InJobOwes, OneWorks DEF ClaimNothing, Goto, InJob, Working, JobFits
    <3>3. /\ nextRow \in Nat /\ nextRow' = nextRow + Strip /\ Strip \in Nat \ {0}
          /\ r \in Nat /\ rows[d] \in Nat /\ \A a \in Actors : first[a] \in Nat
      BY <1>8, RowsAreNumbers, Numbers DEF ClaimNothing, Goto
    <3>4. pool \cup {d} \subseteq Actors /\ w \in Actors
      OBVIOUS
    <3>5. written[<<d, r>>] = IF /\ r < rows[d] /\ r < nextRow
                                 /\ \A a \in pool \cup {d} : ~Holding(a, r)
                              THEN 1 ELSE 0
      BY <3>1 DEF RowsFit
    <3>6. \A a \in pool \cup {d} : a # w => (Holding(a, r)' <=> Holding(a, r))
      BY <1>8, <3>4 DEF ClaimNothing, Goto, Holding
    <3>7. ~Holding(w, r) /\ ~Holding(w, r)'
      BY <1>8, <3>3, <3>4 DEF ClaimNothing, Goto, Holding
    <3>8. r < rows[d] => r < nextRow /\ r < nextRow'
      BY <1>8, <3>2, <3>3 DEF ClaimNothing, Goto
    <3>9. QED BY <3>1, <3>5, <3>6, <3>7, <3>8
  <2>31. ASSUME NEW d \in Callers, pc'[d] \in {"idle", "inline"} \/ Publishing(d)', NEW r \in Rows
        PROVE  written'[<<d, r>>] = 0
    BY <1>8, <2>31 DEF ClaimNothing, Goto, RowsFit, Publishing
  <2>32. ASSUME NEW d \in Callers, pc'[d] = "return", NEW r \in Rows
        PROVE  written'[<<d, r>>] = IF r < rows'[d] THEN 1 ELSE 0
    BY <1>8, <2>32 DEF ClaimNothing, Goto, RowsFit
  <2>33. QED BY <2>30, <2>31, <2>32 DEF RowsFit, Working, Publishing
<1>9. ASSUME NEW w \in pool, Decrement(w) PROVE RowsFit'
  <2>1. /\ pool' = pool /\ first' = first /\ nextRow' = nextRow /\ written' = written
        /\ \A a \in Actors : pc'[a] = "write" <=> pc[a] = "write"
    BY <1>9 DEF Decrement, Goto
  <2>2. \A d \in Callers : Working(d)' => Working(d) /\ rows'[d] = rows[d]
    BY <1>9 DEF Decrement, Goto, Working
  <2>3. \A d \in Callers : /\ pc'[d] \in {"idle", "inline"} \/ Publishing(d)' =>
                                pc[d] \in {"idle", "inline"} \/ Publishing(d)
                           /\ pc'[d] = "return" => pc[d] = "return" /\ rows'[d] = rows[d]
    BY <1>9 DEF Decrement, Goto, Publishing
  <2>4. QED BY <2>1, <2>2, <2>3, SameRows
<1>10. ASSUME NEW w \in pool, SignalCompletion(w) PROVE RowsFit'
  <2>1. /\ pool' = pool /\ first' = first /\ nextRow' = nextRow /\ written' = written
        /\ \A a \in Actors : pc'[a] = "write" <=> pc[a] = "write"
    BY <1>10 DEF SignalCompletion, Goto
  <2>2. \A d \in Callers : Working(d)' => Working(d) /\ rows'[d] = rows[d]
    BY <1>10 DEF SignalCompletion, Goto, Working
  <2>3. \A d \in Callers : /\ pc'[d] \in {"idle", "inline"} \/ Publishing(d)' =>
                                pc[d] \in {"idle", "inline"} \/ Publishing(d)
                           /\ pc'[d] = "return" => pc[d] = "return" /\ rows'[d] = rows[d]
    BY <1>10 DEF SignalCompletion, Goto, Publishing
  <2>4. QED BY <2>1, <2>2, <2>3, SameRows
<1>11. ASSUME NEW c \in Callers, ConvertInline(c) PROVE RowsFit'
  <2>1. ASSUME NEW d \in Callers, NEW r \in Rows
        PROVE  /\ d # c => written'[<<d, r>>] = written[<<d, r>>]
               /\ d = c => written'[<<d, r>>] = IF r < rows[c] THEN Again(written[<<d, r>>])
                                                ELSE written[<<d, r>>]
    BY <1>11, <2>1 DEF ConvertInline, Goto
  <2>2. \A r \in Rows : written[<<c, r>>] = 0
    BY <1>11 DEF ConvertInline, Goto, RowsFit
  <2>3. \A d \in Callers : /\ Working(d)' <=> Working(d)
                           /\ Working(d) => d # c
                           /\ d # c => pc'[d] = pc[d]
    BY <1>11 DEF ConvertInline, Goto, Working
  <2>4. \A a \in pool, r \in Rows : Holding(a, r)' <=> Holding(a, r)
    BY <1>11 DEF ConvertInline, Goto, Holding
  <2>30. ASSUME NEW d \in Callers, Working(d)', NEW r \in Rows
        PROVE  written'[<<d, r>>] = IF /\ r < rows'[d] /\ r < nextRow'
                                       /\ \A a \in pool' \cup {d} : ~Holding(a, r)'
                                    THEN 1 ELSE 0
    <3>1. Holding(d, r)' <=> Holding(d, r)
      BY <1>11 DEF ConvertInline, Goto, Holding
    <3>2. written[<<d, r>>] = IF /\ r < rows[d] /\ r < nextRow
                                 /\ \A a \in pool \cup {d} : ~Holding(a, r)
                              THEN 1 ELSE 0
      BY <2>3, <2>30 DEF RowsFit
    <3>3. pool' = pool /\ nextRow' = nextRow /\ rows' = rows
      BY <1>11 DEF ConvertInline, Goto
    <3>4. QED BY <2>1, <2>3, <2>4, <2>30, <3>1, <3>2, <3>3
  <2>31. ASSUME NEW d \in Callers, pc'[d] \in {"idle", "inline"} \/ Publishing(d)', NEW r \in Rows
        PROVE  written'[<<d, r>>] = 0
    <3>1. d # c
      BY <1>11, <2>31 DEF ConvertInline, Goto, Publishing
    <3>2. QED BY <2>1, <2>3, <2>31, <3>1 DEF RowsFit, Publishing
  <2>32. ASSUME NEW d \in Callers, pc'[d] = "return", NEW r \in Rows
        PROVE  written'[<<d, r>>] = IF r < rows'[d] THEN 1 ELSE 0
    <3>1. rows' = rows
      BY <1>11 DEF ConvertInline, Goto
    <3>2. CASE d = c
      BY <2>1, <2>2, <3>1, <3>2 DEF Again
    <3>3. CASE d # c
      BY <2>1, <2>3, <2>32, <3>1, <3>3 DEF RowsFit
    <3>4. QED BY <3>2, <3>3
  <2>33. QED BY <2>30, <2>31, <2>32 DEF RowsFit, Working, Publishing
<1>12. ASSUME NEW c \in Callers, PublishJob(c) PROVE RowsFit'
  <2>1. /\ pool' = pool /\ first' = first /\ nextRow' = nextRow /\ written' = written
        /\ \A a \in Actors : pc'[a] = "write" <=> pc[a] = "write"
    BY <1>12 DEF PublishJob, Goto
  <2>2. \A d \in Callers : Working(d)' => Working(d) /\ rows'[d] = rows[d]
    BY <1>12 DEF PublishJob, Goto, Working
  <2>3. \A d \in Callers : /\ pc'[d] \in {"idle", "inline"} \/ Publishing(d)' =>
                                pc[d] \in {"idle", "inline"} \/ Publishing(d)
                           /\ pc'[d] = "return" => pc[d] = "return" /\ rows'[d] = rows[d]
    BY <1>12 DEF PublishJob, Goto, Publishing
  <2>4. QED BY <2>1, <2>2, <2>3, SameRows
<1>13. ASSUME NEW c \in Callers, PublishRows(c) PROVE RowsFit'
  <2>1. \A d \in Callers : ~Working(d)'
    BY <1>13 DEF PublishRows, Goto, Working, Publishing
  <2>30. ASSUME NEW d \in Callers, Working(d)', NEW r \in Rows
        PROVE  written'[<<d, r>>] = IF /\ r < rows'[d] /\ r < nextRow'
                                       /\ \A a \in pool' \cup {d} : ~Holding(a, r)'
                                    THEN 1 ELSE 0
    BY <2>1, <2>30
  <2>31. ASSUME NEW d \in Callers, pc'[d] \in {"idle", "inline"} \/ Publishing(d)', NEW r \in Rows
        PROVE  written'[<<d, r>>] = 0
    BY <1>13, <2>31 DEF PublishRows, Goto, RowsFit, Publishing
  <2>32. ASSUME NEW d \in Callers, pc'[d] = "return", NEW r \in Rows
        PROVE  written'[<<d, r>>] = IF r < rows'[d] THEN 1 ELSE 0
    BY <1>13, <2>32 DEF PublishRows, Goto, RowsFit
  <2>33. QED BY <2>30, <2>31, <2>32 DEF RowsFit, Working, Publishing
<1>14. ASSUME NEW c \in Callers, PublishPending(c) PROVE RowsFit'
  <2>1. /\ pool' = pool /\ first' = first /\ nextRow' = nextRow /\ written' = written
        /\ \A a \in Actors : pc'[a] = "write" <=> pc[a] = "write"
    BY <1>14 DEF PublishPending, Goto
  <2>2. \A d \in Callers : Working(d)' => Working(d) /\ rows'[d] = rows[d]
    BY <1>14 DEF PublishPending, Goto, Working
  <2>3. \A d \in Callers : /\ pc'[d] \in {"idle", "inline"} \/ Publishing(d)' =>
                                pc[d] \in {"idle", "inline"} \/ Publishing(d)
                           /\ pc'[d] = "return" => pc[d] = "return" /\ rows'[d] = rows[d]
    BY <1>14 DEF PublishPending, Goto, Publishing
  <2>4. QED BY <2>1, <2>2, <2>3, SameRows
<1>15. ASSUME NEW c \in Callers, PublishGeneration(c) PROVE RowsFit'
  <2>1. \A d \in Callers : Working(d)' => d = c
    BY <1>15 DEF PublishGeneration, Goto, Working, Publishing
  <2>30. ASSUME NEW d \in Callers, Working(d)', NEW r \in Rows
        PROVE  written'[<<d, r>>] = IF /\ r < rows'[d] /\ r < nextRow'
                                       /\ \A a \in pool' \cup {d} : ~Holding(a, r)'
                                    THEN 1 ELSE 0
    <3>1. d = c /\ ~(r < nextRow')
      BY <1>15, <2>1, <2>30, RowsAreNumbers DEF PublishGeneration, Goto, JobFits
    <3>2. written[<<c, r>>] = 0
      BY <1>15 DEF PublishGeneration, Goto, RowsFit, Publishing
    <3>3. QED BY <1>15, <3>1, <3>2 DEF PublishGeneration, Goto
  <2>31. ASSUME NEW d \in Callers, pc'[d] \in {"idle", "inline"} \/ Publishing(d)', NEW r \in Rows
        PROVE  written'[<<d, r>>] = 0
    BY <1>15, <2>31 DEF PublishGeneration, Goto, RowsFit, Publishing
  <2>32. ASSUME NEW d \in Callers, pc'[d] = "return", NEW r \in Rows
        PROVE  written'[<<d, r>>] = IF r < rows'[d] THEN 1 ELSE 0
    BY <1>15, <2>32 DEF PublishGeneration, Goto, RowsFit
  <2>33. QED BY <2>30, <2>31, <2>32 DEF RowsFit, Working, Publishing
<1>16. ASSUME NEW c \in Callers, NEW w \in Workers, SignalWorker(c, w) PROVE RowsFit'
  <2>1. /\ pool' = pool /\ first' = first /\ nextRow' = nextRow /\ written' = written
        /\ \A a \in Actors : pc'[a] = "write" <=> pc[a] = "write"
    BY <1>16 DEF SignalWorker
  <2>2. \A d \in Callers : Working(d)' => Working(d) /\ rows'[d] = rows[d]
    BY <1>16 DEF SignalWorker, Working
  <2>3. \A d \in Callers : /\ pc'[d] \in {"idle", "inline"} \/ Publishing(d)' =>
                                pc[d] \in {"idle", "inline"} \/ Publishing(d)
                           /\ pc'[d] = "return" => pc[d] = "return" /\ rows'[d] = rows[d]
    BY <1>16 DEF SignalWorker, Publishing
  <2>4. QED BY <2>1, <2>2, <2>3, SameRows
<1>17. ASSUME NEW c \in Callers, AllSignalled(c) PROVE RowsFit'
  <2>1. /\ pool' = pool /\ first' = first /\ nextRow' = nextRow /\ written' = written
        /\ \A a \in Actors : pc'[a] = "write" <=> pc[a] = "write"
    BY <1>17 DEF AllSignalled, Goto
  <2>2. \A d \in Callers : Working(d)' => Working(d) /\ rows'[d] = rows[d]
    BY <1>17 DEF AllSignalled, Goto, Working
  <2>3. \A d \in Callers : /\ pc'[d] \in {"idle", "inline"} \/ Publishing(d)' =>
                                pc[d] \in {"idle", "inline"} \/ Publishing(d)
                           /\ pc'[d] = "return" => pc[d] = "return" /\ rows'[d] = rows[d]
    BY <1>17 DEF AllSignalled, Goto, Publishing
  <2>4. QED BY <2>1, <2>2, <2>3, SameRows
<1>18. ASSUME NEW c \in Callers, Claim(c, "write") PROVE RowsFit'
  <2>30. ASSUME NEW d \in Callers, Working(d)', NEW r \in Rows
        PROVE  written'[<<d, r>>] = IF /\ r < rows'[d] /\ r < nextRow'
                                       /\ \A a \in pool' \cup {d} : ~Holding(a, r)'
                                    THEN 1 ELSE 0
    <3>1. Working(d) /\ rows'[d] = rows[d] /\ pool' = pool /\ written' = written
      BY <1>18, <2>30 DEF Claim, Goto, Working
    <3>2. c \in pool \cup {d} /\ rows[c] = rows[d]
      BY <1>18, <3>1, InJobOwes, OneWorks DEF Claim, Goto, InJob, Working, JobFits
    <3>3. /\ nextRow \in Nat /\ nextRow' = nextRow + Strip /\ Strip \in Nat \ {0}
          /\ r \in Nat /\ rows[d] \in Nat /\ \A a \in Actors : first[a] \in Nat
      BY <1>18, RowsAreNumbers, Numbers DEF Claim, Goto
    <3>4. pool \cup {d} \subseteq Actors /\ c \in Actors
      OBVIOUS
    <3>5. written[<<d, r>>] = IF /\ r < rows[d] /\ r < nextRow
                                 /\ \A a \in pool \cup {d} : ~Holding(a, r)
                              THEN 1 ELSE 0
      BY <3>1 DEF RowsFit
    <3>6. \A a \in pool \cup {d} : a # c => (Holding(a, r)' <=> Holding(a, r))
      BY <1>18, <3>4 DEF Claim, Goto, Holding
    <3>7. ~Holding(c, r) /\ (Holding(c, r)' <=> nextRow <= r /\ r < nextRow + Strip)
      BY <1>18, <3>3, <3>4 DEF Claim, Goto, Holding
    <3>8. \A a \in pool \cup {d} : Holding(a, r) => r < nextRow
      BY <3>1, <3>3, <3>4 DEF Holding, StripsFit
    <3>9. CASE r < nextRow
      BY <3>1, <3>3, <3>5, <3>6, <3>7, <3>9
    <3>10. CASE nextRow <= r /\ r < nextRow + Strip
      BY <3>1, <3>2, <3>3, <3>5, <3>6, <3>7, <3>10
    <3>11. CASE nextRow + Strip <= r
      BY <3>1, <3>3, <3>5, <3>6, <3>7, <3>11
    <3>12. QED BY <3>3, <3>9, <3>10, <3>11
  <2>31. ASSUME NEW d \in Callers, pc'[d] \in {"idle", "inline"} \/ Publishing(d)', NEW r \in Rows
        PROVE  written'[<<d, r>>] = 0
    BY <1>18, <2>31 DEF Claim, Goto, RowsFit, Publishing
  <2>32. ASSUME NEW d \in Callers, pc'[d] = "return", NEW r \in Rows
        PROVE  written'[<<d, r>>] = IF r < rows'[d] THEN 1 ELSE 0
    BY <1>18, <2>32 DEF Claim, Goto, RowsFit
  <2>33. QED BY <2>30, <2>31, <2>32 DEF RowsFit, Working, Publishing
<1>19. ASSUME NEW c \in Callers, Write(c) PROVE RowsFit'
  <2>30. ASSUME NEW d \in Callers, Working(d)', NEW r \in Rows
        PROVE  written'[<<d, r>>] = IF /\ r < rows'[d] /\ r < nextRow'
                                       /\ \A a \in pool' \cup {d} : ~Holding(a, r)'
                                    THEN 1 ELSE 0
    <3>1. Working(d) /\ rows'[d] = rows[d] /\ pool' = pool /\ nextRow' = nextRow
      BY <1>19, <2>30 DEF Write, Goto, Working
    <3>2. c \in pool \cup {d} /\ rows[c] = rows[d] /\ dst[c] = d
      BY <1>19, <3>1, InJobOwes, OneWorks DEF Write, Goto, InJob, Working, JobFits
    <3>3. /\ nextRow \in Nat /\ Strip \in Nat \ {0}
          /\ r \in Nat /\ rows[d] \in Nat /\ \A a \in Actors : first[a] \in Nat
      BY RowsAreNumbers, Numbers
    <3>4. pool \cup {d} \subseteq Actors /\ c \in Actors
      OBVIOUS
    <3>5. written[<<d, r>>] = IF /\ r < rows[d] /\ r < nextRow
                                 /\ \A a \in pool \cup {d} : ~Holding(a, r)
                              THEN 1 ELSE 0
      BY <3>1 DEF RowsFit
    <3>6. \A a \in pool \cup {d} : a # c => (Holding(a, r)' <=> Holding(a, r))
      BY <1>19, <3>4 DEF Write, Goto, Holding
    <3>7. ~Holding(c, r)'
      BY <1>19, <3>4 DEF Write, Goto, Holding
    <3>8. Holding(c, r) <=> first[c] <= r /\ r < first[c] + Strip
      BY <1>19 DEF Write, Goto, Holding
    <3>9. written'[<<d, r>>] = IF Holding(c, r) /\ r < rows[d] THEN Again(written[<<d, r>>])
                               ELSE written[<<d, r>>]
      BY <1>19, <3>2, <3>8 DEF Write, MyRows
    <3>10. CASE Holding(c, r)
      <4>1. \A a \in pool \cup {d} : a # c => ~Holding(a, r)
        BY <1>19, <3>1, <3>2, <3>3, <3>4, <3>10 DEF Write, Goto, Holding, StripsFit
      <4>2. r < nextRow
        BY <1>19, <3>1, <3>2, <3>3, <3>4, <3>10 DEF Write, Goto, Holding, StripsFit
      <4>3. written[<<d, r>>] = 0
        BY <3>2, <3>5, <3>10
      <4>4. \A a \in pool' \cup {d} : ~Holding(a, r)'
        BY <4>1, <3>1, <3>6, <3>7
      <4>5. QED BY <4>2, <4>3, <4>4, <3>1, <3>9, <3>10 DEF Again
    <3>11. CASE ~Holding(c, r)
      BY <3>1, <3>5, <3>6, <3>7, <3>9, <3>11
    <3>12. QED BY <3>10, <3>11
  <2>31. ASSUME NEW d \in Callers, pc'[d] \in {"idle", "inline"} \/ Publishing(d)', NEW r \in Rows
        PROVE  written'[<<d, r>>] = 0
    <3>1. dst[c] # d
      BY <1>19, <2>31, InJobOwes DEF Write, Goto, InJob, JobFits, Working, Publishing
    <3>2. written'[<<d, r>>] = written[<<d, r>>]
      BY <1>19, <3>1 DEF Write, Goto
    <3>3. QED BY <1>19, <3>2, <2>31 DEF Write, Goto, RowsFit, Publishing
  <2>32. ASSUME NEW d \in Callers, pc'[d] = "return", NEW r \in Rows
        PROVE  written'[<<d, r>>] = IF r < rows'[d] THEN 1 ELSE 0
    <3>1. dst[c] # d
      BY <1>19, <2>32, InJobOwes DEF Write, Goto, InJob, JobFits, Working, Publishing
    <3>2. written'[<<d, r>>] = written[<<d, r>>]
      BY <1>19, <3>1 DEF Write, Goto
    <3>3. QED BY <1>19, <3>2, <2>32 DEF Write, Goto, RowsFit, Publishing
  <2>33. QED BY <2>30, <2>31, <2>32 DEF RowsFit, Working, Publishing
<1>20. ASSUME NEW c \in Callers, ClaimNothing(c, "look") PROVE RowsFit'
  <2>30. ASSUME NEW d \in Callers, Working(d)', NEW r \in Rows
        PROVE  written'[<<d, r>>] = IF /\ r < rows'[d] /\ r < nextRow'
                                       /\ \A a \in pool' \cup {d} : ~Holding(a, r)'
                                    THEN 1 ELSE 0
    <3>1. Working(d) /\ rows'[d] = rows[d] /\ pool' = pool /\ written' = written
      BY <1>20, <2>30 DEF ClaimNothing, Goto, Working
    <3>2. c \in pool \cup {d} /\ rows[c] = rows[d]
      BY <1>20, <3>1, InJobOwes, OneWorks DEF ClaimNothing, Goto, InJob, Working, JobFits
    <3>3. /\ nextRow \in Nat /\ nextRow' = nextRow + Strip /\ Strip \in Nat \ {0}
          /\ r \in Nat /\ rows[d] \in Nat /\ \A a \in Actors : first[a] \in Nat
      BY <1>20, RowsAreNumbers, Numbers DEF ClaimNothing, Goto
    <3>4. pool \cup {d} \subseteq Actors /\ c \in Actors
      OBVIOUS
    <3>5. written[<<d, r>>] = IF /\ r < rows[d] /\ r < nextRow
                                 /\ \A a \in pool \cup {d} : ~Holding(a, r)
                              THEN 1 ELSE 0
      BY <3>1 DEF RowsFit
    <3>6. \A a \in pool \cup {d} : a # c => (Holding(a, r)' <=> Holding(a, r))
      BY <1>20, <3>4 DEF ClaimNothing, Goto, Holding
    <3>7. ~Holding(c, r) /\ ~Holding(c, r)'
      BY <1>20, <3>3, <3>4 DEF ClaimNothing, Goto, Holding
    <3>8. r < rows[d] => r < nextRow /\ r < nextRow'
      BY <1>20, <3>2, <3>3 DEF ClaimNothing, Goto
    <3>9. QED BY <3>1, <3>5, <3>6, <3>7, <3>8
  <2>31. ASSUME NEW d \in Callers, pc'[d] \in {"idle", "inline"} \/ Publishing(d)', NEW r \in Rows
        PROVE  written'[<<d, r>>] = 0
    BY <1>20, <2>31 DEF ClaimNothing, Goto, RowsFit, Publishing
  <2>32. ASSUME NEW d \in Callers, pc'[d] = "return", NEW r \in Rows
        PROVE  written'[<<d, r>>] = IF r < rows'[d] THEN 1 ELSE 0
    BY <1>20, <2>32 DEF ClaimNothing, Goto, RowsFit
  <2>33. QED BY <2>30, <2>31, <2>32 DEF RowsFit, Working, Publishing
<1>21. ASSUME NEW c \in Callers, PendingLeft(c) PROVE RowsFit'
  <2>1. /\ pool' = pool /\ first' = first /\ nextRow' = nextRow /\ written' = written
        /\ \A a \in Actors : pc'[a] = "write" <=> pc[a] = "write"
    BY <1>21 DEF PendingLeft, Goto
  <2>2. \A d \in Callers : Working(d)' => Working(d) /\ rows'[d] = rows[d]
    BY <1>21 DEF PendingLeft, Goto, Working
  <2>3. \A d \in Callers : /\ pc'[d] \in {"idle", "inline"} \/ Publishing(d)' =>
                                pc[d] \in {"idle", "inline"} \/ Publishing(d)
                           /\ pc'[d] = "return" => pc[d] = "return" /\ rows'[d] = rows[d]
    BY <1>21 DEF PendingLeft, Goto, Publishing
  <2>4. QED BY <2>1, <2>2, <2>3, SameRows
<1>22. ASSUME NEW c \in Callers, NothingPending(c) PROVE RowsFit'
  <2>1. Owing = {}
    BY <1>22, OwingFinite, FS_EmptySet DEF NothingPending, Goto, JobFits, Working
  <2>30. ASSUME NEW d \in Callers, Working(d)', NEW r \in Rows
        PROVE  written'[<<d, r>>] = IF /\ r < rows'[d] /\ r < nextRow'
                                       /\ \A a \in pool' \cup {d} : ~Holding(a, r)'
                                    THEN 1 ELSE 0
    BY <1>22, <2>30, OneWorks DEF NothingPending, Goto, Working
  <2>31. ASSUME NEW d \in Callers, pc'[d] \in {"idle", "inline"} \/ Publishing(d)', NEW r \in Rows
        PROVE  written'[<<d, r>>] = 0
    BY <1>22, <2>31 DEF NothingPending, Goto, RowsFit, Publishing
  <2>32. ASSUME NEW d \in Callers, pc'[d] = "return", NEW r \in Rows
        PROVE  written'[<<d, r>>] = IF r < rows'[d] THEN 1 ELSE 0
    <3>1. CASE d = c
      <4>1. \A a \in pool \cup {c} : ~Holding(a, r)
        BY <1>22, <2>1 DEF NothingPending, Goto, Owing, Holding
      <4>2. r < rows[c] => r < nextRow
        <5>1. nextRow >= rows[c] /\ nextRow \in Nat /\ rows[c] \in Nat /\ r \in Nat
          BY <1>22, RowsAreNumbers, Numbers DEF NothingPending, Goto, StripsFit, Working
        <5>2. QED BY <5>1
      <4>3. QED BY <1>22, <3>1, <4>1, <4>2 DEF NothingPending, Goto, RowsFit, Working
    <3>2. CASE d # c
      BY <1>22, <2>32, <3>2 DEF NothingPending, Goto, RowsFit
    <3>3. QED BY <3>1, <3>2
  <2>33. QED BY <2>30, <2>31, <2>32 DEF RowsFit, Working, Publishing
<1>23. ASSUME NEW c \in Callers, CompletionSignalled(c) PROVE RowsFit'
  <2>1. /\ pool' = pool /\ first' = first /\ nextRow' = nextRow /\ written' = written
        /\ \A a \in Actors : pc'[a] = "write" <=> pc[a] = "write"
    BY <1>23 DEF CompletionSignalled, Goto
  <2>2. \A d \in Callers : Working(d)' => Working(d) /\ rows'[d] = rows[d]
    BY <1>23 DEF CompletionSignalled, Goto, Working
  <2>3. \A d \in Callers : /\ pc'[d] \in {"idle", "inline"} \/ Publishing(d)' =>
                                pc[d] \in {"idle", "inline"} \/ Publishing(d)
                           /\ pc'[d] = "return" => pc[d] = "return" /\ rows'[d] = rows[d]
    BY <1>23 DEF CompletionSignalled, Goto, Publishing
  <2>4. QED BY <2>1, <2>2, <2>3, SameRows
<1>24. ASSUME NEW c \in Callers, TimedOut(c) PROVE RowsFit'
  <2>1. /\ pool' = pool /\ first' = first /\ nextRow' = nextRow /\ written' = written
        /\ \A a \in Actors : pc'[a] = "write" <=> pc[a] = "write"
    BY <1>24 DEF TimedOut, Goto
  <2>2. \A d \in Callers : Working(d)' => Working(d) /\ rows'[d] = rows[d]
    BY <1>24 DEF TimedOut, Goto, Working
  <2>3. \A d \in Callers : /\ pc'[d] \in {"idle", "inline"} \/ Publishing(d)' =>
                                pc[d] \in {"idle", "inline"} \/ Publishing(d)
                           /\ pc'[d] = "return" => pc[d] = "return" /\ rows'[d] = rows[d]
    BY <1>24 DEF TimedOut, Goto, Publishing
  <2>4. QED BY <2>1, <2>2, <2>3, SameRows
<1>25. ASSUME NEW c \in Callers, Return(c) PROVE RowsFit'
  <2>1. ASSUME NEW d \in Callers, NEW r \in Rows
        PROVE  written'[<<d, r>>] = IF d = c THEN 0 ELSE written[<<d, r>>]
    BY <1>25, <2>1 DEF Return, Goto
  <2>2. \A d \in Callers : Working(d)' => Working(d) /\ d # c /\ rows'[d] = rows[d]
    BY <1>25 DEF Return, Goto, Working
  <2>3. \A a \in pool, r \in Rows : Holding(a, r)' <=> Holding(a, r)
    BY <1>25 DEF Return, Goto, Holding
  <2>30. ASSUME NEW d \in Callers, Working(d)', NEW r \in Rows
        PROVE  written'[<<d, r>>] = IF /\ r < rows'[d] /\ r < nextRow'
                                       /\ \A a \in pool' \cup {d} : ~Holding(a, r)'
                                    THEN 1 ELSE 0
    <3>1. Holding(d, r)' <=> Holding(d, r)
      BY <1>25 DEF Return, Goto, Holding
    <3>2. written[<<d, r>>] = IF /\ r < rows[d] /\ r < nextRow
                                 /\ \A a \in pool \cup {d} : ~Holding(a, r)
                              THEN 1 ELSE 0
      BY <2>2, <2>30 DEF RowsFit
    <3>3. pool' = pool /\ nextRow' = nextRow
      BY <1>25 DEF Return, Goto
    <3>4. QED BY <2>1, <2>2, <2>3, <2>30, <3>1, <3>2, <3>3
  <2>31. ASSUME NEW d \in Callers, pc'[d] \in {"idle", "inline"} \/ Publishing(d)', NEW r \in Rows
        PROVE  written'[<<d, r>>] = 0
    BY <1>25, <2>1, <2>31 DEF Return, Goto, RowsFit, Publishing
  <2>32. ASSUME NEW d \in Callers, pc'[d] = "return", NEW r \in Rows
        PROVE  written'[<<d, r>>] = IF r < rows'[d] THEN 1 ELSE 0
    BY <1>25, <2>1, <2>32 DEF Return, Goto, RowsFit
  <2>33. QED BY <2>30, <2>31, <2>32 DEF RowsFit, Working, Publishing
<1>26. ASSUME NEW c \in Callers, NEW h \in Heights, NEW big \in BOOLEAN, ConvertShared(c,
              h, big)
       PROVE  RowsFit'
  <2>1. /\ pool' = pool /\ first' = first /\ nextRow' = nextRow /\ written' = written
        /\ \A a \in Actors : pc'[a] = "write" <=> pc[a] = "write"
    BY <1>26 DEF ConvertShared, Begin, Goto, Parallel
  <2>2. \A d \in Callers : Working(d)' => Working(d) /\ rows'[d] = rows[d]
    BY <1>26 DEF ConvertShared, Begin, Goto, Parallel, Working
  <2>3. \A d \in Callers : /\ pc'[d] \in {"idle", "inline"} \/ Publishing(d)' =>
                                pc[d] \in {"idle", "inline"} \/ Publishing(d)
                           /\ pc'[d] = "return" => pc[d] = "return" /\ rows'[d] = rows[d]
    BY <1>26 DEF ConvertShared, Begin, Goto, Parallel, Publishing
  <2>4. QED BY <2>1, <2>2, <2>3, SameRows
<1>27. ASSUME NEW c \in Callers, NEW h \in Heights, NEW big \in BOOLEAN, ConvertAlone(c, h,
              big)
       PROVE  RowsFit'
  <2>1. /\ pool' = pool /\ first' = first /\ nextRow' = nextRow /\ written' = written
        /\ \A a \in Actors : pc'[a] = "write" <=> pc[a] = "write"
    BY <1>27 DEF ConvertAlone, Begin, Goto, Parallel
  <2>2. \A d \in Callers : Working(d)' => Working(d) /\ rows'[d] = rows[d]
    BY <1>27 DEF ConvertAlone, Begin, Goto, Parallel, Working
  <2>3. \A d \in Callers : /\ pc'[d] \in {"idle", "inline"} \/ Publishing(d)' =>
                                pc[d] \in {"idle", "inline"} \/ Publishing(d)
                           /\ pc'[d] = "return" => pc[d] = "return" /\ rows'[d] = rows[d]
    BY <1>27 DEF ConvertAlone, Begin, Goto, Parallel, Publishing
  <2>4. QED BY <2>1, <2>2, <2>3, SameRows
<1>28. QED BY ONLY <1>1, <1>2, <1>3, <1>4, <1>5, <1>6, <1>7, <1>8, <1>9,
         <1>10, <1>11, <1>12, <1>13, <1>14, <1>15, <1>16, <1>17, <1>18,
         <1>19, <1>20, <1>21, <1>22, <1>23, <1>24, <1>25, <1>26, <1>27, Next
      DEF Next, WorkerStep, CallerStep, Call

-----------------------------------------------------------------------------
LEMMA Start == Init => IInv
<1> SUFFICES ASSUME Init PROVE IInv
  OBVIOUS
<1> USE DEF Init
<1>1. Cardinality(Workers) \in Nat
  BY PixelAssumption, FS_CardinalityType
<1>2. TypeOK
  <2>1. written \in [Callers \X Rows -> 0 .. 2]
    OBVIOUS
  <2>2. QED BY <1>1, <2>1, PixelAssumption DEF TypeOK, Actors, WorkerLabels, CallerLabels
<1>3. Owing = {}
  BY DEF Owing, Actors
<1>4. /\ \A w \in Workers : pc[w] = "look"
      /\ \A c \in Callers : pc[c] = "idle"
  BY PixelAssumption DEF Actors
<1>5. LabelsFit
  BY <1>2, <1>4, PixelAssumption
    DEF LabelsFit, Publishing, Working, WorkerLabels, CallerLabels
<1>6. JobFits
  BY <1>3, <1>4, PixelAssumption DEF JobFits, Publishing, Working, InJob
<1>7. StripsFit
  BY <1>4 DEF StripsFit, Working
<1>8. RowsFit
  BY <1>4 DEF RowsFit, Working
<1>9. QED BY <1>5, <1>6, <1>7, <1>8 DEF IInv

LEMMA Stutter == IInv /\ UNCHANGED vars => IInv'
<1> SUFFICES ASSUME IInv, UNCHANGED vars PROVE IInv'
  OBVIOUS
<1> USE DEF vars, sharedVars, semaVars, localVars, IInv
<1>1. LabelsFit'
  BY DEF LabelsFit, TypeOK, Publishing, Working
<1>2. Owing' = Owing
  BY DEF Owing
<1>3. JobFits'
  BY <1>2 DEF JobFits, Publishing, Working, InJob
<1>4. StripsFit'
  BY DEF StripsFit, Working
<1>5. RowsFit'
  BY DEF RowsFit, Working, Publishing, Holding
<1>6. QED BY <1>1, <1>3, <1>4, <1>5

\* The job belongs to the holder of the lock, every claimed strip to one
\* thread, and every row below next_row was written once or is in a claimed
\* strip (pixel_worker and pvz2_pixels_convert_into).
THEOREM Invariant == Spec => []IInv
<1>1. IInv /\ [Next]_vars => IInv'
  BY LabelsKeep, JobKeeps, StripsKeep, RowsKeep, Stutter DEF IInv
<1>2. QED BY Start, <1>1, PTL DEF Spec

\* A worker between its copy of the job and its decrement works on the buffer
\* of a caller that has not returned, and pending counts the decrements to
\* come ("Never return a buffer while a worker still owns its rows").
THEOREM LiveJob == Spec => []WorkerHasLiveJob
<1>1. IInv => WorkerHasLiveJob
  <2> SUFFICES ASSUME IInv PROVE WorkerHasLiveJob
    OBVIOUS
  <2>1. ASSUME NEW w \in pool, pc[w] \in {"claim", "write"}
        PROVE  dst[w] \in Callers /\ Working(dst[w]) /\ submit = dst[w] /\ rows[w] = rows[dst[w]]
    BY <2>1, InJobOwes DEF IInv, JobFits, InJob
  <2>2. QED BY <2>1 DEF IInv, LabelsFit, JobFits, WorkerHasLiveJob
<1>2. QED BY Invariant, <1>1, PTL

\* What a call returns is converted, every row of it and by one thread.
THEOREM EachRowOnce == Spec => []RowsConvertedOnce
<1>1. IInv => RowsConvertedOnce
  BY DEF IInv, RowsFit, RowsConvertedOnce
<1>2. QED BY Invariant, <1>1, PTL

=============================================================================
