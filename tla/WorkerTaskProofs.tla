-------------------------- MODULE WorkerTaskProofs --------------------------
(***************************************************************************)
(* What a worker's task leaves behind, for any number of tasks, processes   *)
(* and pictures, and that it does what the server relies on.                *)
(***************************************************************************)
EXTENDS WorkerTask, TLAPS

Unsaved == {"start", "scratch", "copied", "allowed", "converting", "parsed", "serialized"}
Working == Unsaved \cup {"saving", "saved"}

(* Nothing is published, or decided, before the Markdown is written; once    *)
(* it is, the scratch directory is what has been copied and what is yet to   *)
(* be, unless a copy failed.                                                 *)
ResultInv(t) ==
  /\ stage[t] \in Working =>
       /\ Markdown \notin scratch[t] /\ outcome[t] = "pending"
       /\ todo[t] = {} /\ output[t] = {} /\ ~copyError[t]
  /\ stage[t] = "publishing" =>
       /\ Markdown \in scratch[t] /\ outcome[t] = "pending"
       /\ ~copyError[t] => scratch[t] = todo[t] \cup output[t]
  /\ stage[t] \in {"cleaning", "done"} => outcome[t] \in {"path", "none", "raised"}
  /\ stage[t] = "dead" => outcome[t] = "raised"
  /\ outcome[t] = "path" => Markdown \in scratch[t] /\ output[t] = scratch[t]
  /\ outcome[t] = "none" => Markdown \notin scratch[t] /\ output[t] = {}
  /\ stage[t] = "done" /\ outcome[t] # "raised" => ~scratchUp[t]
  /\ Markdown \notin scratch[t] => output[t] = {}

(* The images that are neither waiting to be saved nor failed are there      *)
(* from the moment saving starts, and every picture has its link.            *)
ImagesInv(t) ==
  /\ stage[t] \in Unsaved => unsaved[t] = {}
  /\ stage[t] # "saving" => saving[t] = {}
  /\ stage[t] \in {"saving", "saved"} \/ Markdown \in scratch[t] =>
       /\ WithData \ (saving[t] \cup unsaved[t]) \subseteq scratch[t]
       /\ Pictures \subseteq links[t]
  /\ stage[t] = "serialized" => Pictures \subseteq links[t]

IInv == TypeOK /\ \A t \in Tasks : ResultInv(t) /\ ImagesInv(t)

-----------------------------------------------------------------------------
LEMMA InitIInv == Init => IInv
BY TaskParameters DEF Init, IInv, TypeOK, ResultInv, ImagesInv, Working, Unsaved

(* A step of one task that gives each variable a value of its type at that   *)
(* task keeps the types.                                                     *)
LEMMA TypeStep ==
  ASSUME TypeOK, [Next]_vars PROVE TypeOK'
<1> USE DEF TypeOK, Move, Leave, Unlock, fileVars, Files, WithData, Processes
<1>1. ASSUME NEW t \in Tasks, Convert(t) PROVE TypeOK'
  <2>1. CASE Refuse(t) \/ Allow(t) BY <2>1 DEF Refuse, Allow
  <2>2. CASE EnterLock(t) BY <2>2 DEF EnterLock
  <2>3. CASE Parse(t) BY <2>3 DEF Parse
  <2>4. CASE ProcessingFails(t) BY <2>4 DEF ProcessingFails
  <2>5. CASE Serialize(t) BY <2>5 DEF Serialize, LinkName
  <2>6. CASE SaveImages(t) BY <2>6 DEF SaveImages
  <2>7. ASSUME NEW i \in Pictures, SaveImage(t, i) PROVE TypeOK'
    BY <2>7 DEF SaveImage, ImageName
  <2>8. ASSUME NEW i \in Pictures, SaveImageFails(t, i) PROVE TypeOK'
    BY <2>8 DEF SaveImageFails
  <2>9. CASE ImagesSaved(t) BY <2>9 DEF ImagesSaved
  <2>10. CASE WriteMarkdown(t) BY <2>10 DEF WriteMarkdown
  <2>11. CASE WriteMarkdownFails(t) BY <2>11 DEF WriteMarkdownFails
  <2> HIDE DEF TypeOK
  <2> QED BY <1>1, <2>1, <2>2, <2>3, <2>4, <2>5, <2>6, <2>7, <2>8, <2>9, <2>10, <2>11
          DEF Convert
<1>2. ASSUME NEW t \in Tasks, Publish(t) PROVE TypeOK'
  <2>1. ASSUME NEW f \in Files, CopyOut(t, f) PROVE TypeOK'
    BY <2>1 DEF CopyOut
  <2>2. ASSUME NEW f \in Files, CopyImageFails(t, f) PROVE TypeOK'
    BY <2>2 DEF CopyImageFails
  <2>3. CASE CopyRaises(t) BY <2>3 DEF CopyRaises
  <2>4. CASE CopyEnds(t) BY <2>4 DEF CopyEnds
  <2> HIDE DEF TypeOK
  <2> QED BY <1>2, <2>1, <2>2, <2>3, <2>4 DEF Publish
<1>3. ASSUME NEW t \in Tasks, MakeScratch(t) PROVE TypeOK' BY <1>3 DEF MakeScratch
<1>4. ASSUME NEW t \in Tasks, MakeScratchFails(t) PROVE TypeOK' BY <1>4 DEF MakeScratchFails
<1>5. ASSUME NEW t \in Tasks, CopyInput(t) PROVE TypeOK' BY <1>5 DEF CopyInput
<1>6. ASSUME NEW t \in Tasks, CopyInputFails(t) PROVE TypeOK' BY <1>6 DEF CopyInputFails
<1>7. ASSUME NEW t \in Tasks, RemoveScratch(t) PROVE TypeOK' BY <1>7 DEF RemoveScratch
<1>8. ASSUME NEW t \in Tasks, RemoveScratchFails(t) PROVE TypeOK' BY <1>8 DEF RemoveScratchFails
<1>9. CASE Die BY <1>9 DEF Die
<1>10. CASE UNCHANGED vars BY <1>10 DEF vars
<1> HIDE DEF TypeOK
<1> QED BY <1>1, <1>2, <1>3, <1>4, <1>5, <1>6, <1>7, <1>8, <1>9, <1>10
        DEF Next, TaskStep, Stopped

-----------------------------------------------------------------------------
(* What is known of one task is disturbed by that task's own steps only.    *)
TaskInv(t) == ResultInv(t) /\ ImagesInv(t)

LEMMA ConvertInv ==
  ASSUME TypeOK, NEW t \in Tasks, NEW q \in Tasks, TaskInv(q), Convert(t)
  PROVE  TaskInv(q)'
<1> USE DEF TaskInv, ResultInv, ImagesInv, Working, Unsaved, Move, Leave, fileVars, TypeOK,
            Markdown
<1>1. CASE Refuse(t) \/ Allow(t) BY <1>1 DEF Refuse, Allow
<1>2. CASE EnterLock(t) BY <1>2 DEF EnterLock
<1>3. CASE Parse(t) BY <1>3 DEF Parse
<1>4. CASE ProcessingFails(t) BY <1>4 DEF ProcessingFails
<1>5. CASE Serialize(t) BY <1>5 DEF Serialize, LinkName
<1>6. CASE SaveImages(t) BY <1>6 DEF SaveImages
<1>7. ASSUME NEW i \in Pictures, SaveImage(t, i) PROVE TaskInv(q)'
  BY <1>7, TaskParameters DEF SaveImage, ImageName, Pictures
<1>8. ASSUME NEW i \in Pictures, SaveImageFails(t, i) PROVE TaskInv(q)'
  BY <1>8 DEF SaveImageFails
<1>9. CASE ImagesSaved(t) BY <1>9 DEF ImagesSaved
<1>10. CASE WriteMarkdown(t) BY <1>10 DEF WriteMarkdown
<1>11. CASE WriteMarkdownFails(t) BY <1>11 DEF WriteMarkdownFails
<1> HIDE DEF TypeOK, TaskInv
<1> QED BY <1>1, <1>2, <1>3, <1>4, <1>5, <1>6, <1>7, <1>8, <1>9, <1>10, <1>11 DEF Convert

LEMMA PublishInv ==
  ASSUME TypeOK, NEW t \in Tasks, NEW q \in Tasks, TaskInv(q), Publish(t)
  PROVE  TaskInv(q)'
<1> USE DEF TaskInv, ResultInv, ImagesInv, Working, Unsaved, Move, Leave, fileVars, TypeOK,
            Copying
<1>1. ASSUME NEW f \in Files, CopyOut(t, f) PROVE TaskInv(q)'
  BY <1>1 DEF CopyOut
<1>2. ASSUME NEW f \in Files, CopyImageFails(t, f) PROVE TaskInv(q)'
  BY <1>2 DEF CopyImageFails
<1>3. CASE CopyRaises(t) BY <1>3 DEF CopyRaises
<1>4. CASE CopyEnds(t) BY <1>4 DEF CopyEnds
<1> HIDE DEF TypeOK, TaskInv
<1> QED BY <1>1, <1>2, <1>3, <1>4 DEF Publish

LEMMA StepIInv == IInv /\ [Next]_vars => IInv'
<1> SUFFICES ASSUME IInv, [Next]_vars PROVE IInv'
  OBVIOUS
<1>1. TypeOK /\ TypeOK'
  BY TypeStep DEF IInv
<1>2. ASSUME NEW q \in Tasks PROVE TaskInv(q)'
  <2>1. TaskInv(q)
    BY DEF IInv, TaskInv
  <2> USE <2>1 DEF TaskInv, ResultInv, ImagesInv, Working, Unsaved, Move, Leave, fileVars, TypeOK
  <2>2. ASSUME NEW t \in Tasks, MakeScratch(t) PROVE TaskInv(q)'
    BY <1>1, <2>2 DEF MakeScratch
  <2>3. ASSUME NEW t \in Tasks, MakeScratchFails(t) PROVE TaskInv(q)'
    BY <1>1, <2>3 DEF MakeScratchFails
  <2>4. ASSUME NEW t \in Tasks, CopyInput(t) PROVE TaskInv(q)'
    BY <1>1, <2>4 DEF CopyInput
  <2>5. ASSUME NEW t \in Tasks, CopyInputFails(t) PROVE TaskInv(q)'
    BY <1>1, <2>5 DEF CopyInputFails
  <2>6. ASSUME NEW t \in Tasks, RemoveScratch(t) PROVE TaskInv(q)'
    BY <1>1, <2>6 DEF RemoveScratch
  <2>7. ASSUME NEW t \in Tasks, RemoveScratchFails(t) PROVE TaskInv(q)'
    BY <1>1, <2>7 DEF RemoveScratchFails
  <2>8. CASE Die
    BY <1>1, <2>8 DEF Die, Ended
  <2>9. CASE UNCHANGED vars
    BY <2>9 DEF vars
  <2> HIDE DEF TypeOK, TaskInv
  <2> QED BY <1>1, <2>2, <2>3, <2>4, <2>5, <2>6, <2>7, <2>8, <2>9, ConvertInv, PublishInv
          DEF Next, TaskStep, Stopped
<1> QED BY <1>1, <1>2 DEF IInv, TaskInv

(* Links of a published document lead to their images; the Markdown is the  *)
(* last file; what returns leaves no remains: in every execution.            *)
THEOREM TasksCorrect ==
  Spec => [](TypeOK /\ LinksResolve /\ MarkdownIsLast /\ ReturnLeavesNoRemains)
<1>1. IInv => LinksResolve /\ MarkdownIsLast /\ ReturnLeavesNoRemains
  <2> SUFFICES ASSUME IInv PROVE LinksResolve /\ MarkdownIsLast /\ ReturnLeavesNoRemains
    OBVIOUS
  <2>1. LinksResolve
    <3> SUFFICES ASSUME NEW t \in Tasks, outcome[t] = "path",
                        NEW i \in WithData \ unsaved[t]
                 PROVE  i \in links[t] /\ i \in output[t]
      BY DEF LinksResolve, LinkName
    <3>1. ResultInv(t) /\ ImagesInv(t)
      BY DEF IInv
    <3>2. Markdown \in scratch[t] /\ output[t] = scratch[t] /\ stage[t] # "saving"
      BY <3>1 DEF ResultInv, Working
    <3> QED BY <3>1, <3>2 DEF ImagesInv, WithData
  <2>2. MarkdownIsLast
    <3> SUFFICES ASSUME NEW t \in Tasks, Markdown \in scratch[t]
                 PROVE  saving[t] = {} /\ WithData \ unsaved[t] \subseteq scratch[t]
      BY DEF MarkdownIsLast, ImageName
    <3>1. ResultInv(t) /\ ImagesInv(t)
      BY DEF IInv
    <3>2. stage[t] # "saving"
      BY <3>1 DEF ResultInv, Working
    <3> QED BY <3>1, <3>2 DEF ImagesInv
  <2>3. ReturnLeavesNoRemains
    BY DEF IInv, ResultInv, ReturnLeavesNoRemains
  <2> QED BY <2>1, <2>2, <2>3
<1>2. IInv => TypeOK
  BY DEF IInv
<1> QED BY InitIInv, StepIInv, <1>1, <1>2, PTL DEF Spec


(* A task that returns has removed its scratch directory, and one that      *)
(* returns None has put nothing into the output directory                   *)
(* (the finally of process_pdf_multi_process_worker).                       *)
THEOREM ReturnsAreClean == Spec => []ReturnLeavesNoRemains
BY TasksCorrect, PTL

-----------------------------------------------------------------------------
StepSeen == [t \in Tasks |-> StepOf(t)]
OutSeen == [t \in Tasks |-> OutOf(t)]

(* How a task looks to the server, case by case. *)
LEMMA SeenCases ==
  ASSUME IInv, NEW t \in Tasks
  PROVE  /\ ~Ended(t) /\ Markdown \notin scratch[t] => StepOf(t) = "converting"
         /\ ~Ended(t) /\ Markdown \in scratch[t] =>
              StepOf(t) = "publishing" /\ OutOf(t) = "partial"
         /\ Ended(t) => outcome[t] \in {"path", "none", "raised"}
         /\ Ended(t) /\ outcome[t] = "path" => StepOf(t) = "converted" /\ OutOf(t) = "full"
         /\ Ended(t) /\ outcome[t] = "none" => StepOf(t) = "unconverted"
         /\ Ended(t) /\ outcome[t] = "raised" => StepOf(t) = "raised"
         /\ Ended(t) /\ outcome[t] = "raised" /\ Markdown \in scratch[t] => OutOf(t) = "partial"
         /\ Markdown \notin scratch[t] => OutOf(t) = "empty"
BY DEF IInv, ResultInv, StepOf, OutOf, Ended

LEMMA SeenCasesNext ==
  ASSUME IInv', NEW t \in Tasks
  PROVE  /\ ~Ended(t)' /\ Markdown \notin scratch'[t] => StepOf(t)' = "converting"
         /\ ~Ended(t)' /\ Markdown \in scratch'[t] =>
              StepOf(t)' = "publishing" /\ OutOf(t)' = "partial"
         /\ Ended(t)' => outcome'[t] \in {"path", "none", "raised"}
         /\ Ended(t)' /\ outcome'[t] = "path" => StepOf(t)' = "converted" /\ OutOf(t)' = "full"
         /\ Ended(t)' /\ outcome'[t] = "none" => StepOf(t)' = "unconverted"
         /\ Ended(t)' /\ outcome'[t] = "raised" => StepOf(t)' = "raised"
         /\ Ended(t)' /\ outcome'[t] = "raised" /\ Markdown \in scratch'[t] => OutOf(t)' = "partial"
         /\ Markdown \notin scratch'[t] => OutOf(t)' = "empty"
BY DEF IInv, ResultInv, StepOf, OutOf, Ended, Markdown

(* A step of a task concerns that task only. *)
Only(t) ==
  \A q \in Tasks \ {t} : UNCHANGED <<stage[q], outcome[q], scratch[q], output[q]>>

LEMMA OnlySeen ==
  ASSUME NEW t \in Tasks, Only(t)
  PROVE  /\ StepSeen' = [StepSeen EXCEPT ![t] = StepOf(t)']
         /\ OutSeen' = [OutSeen EXCEPT ![t] = OutOf(t)']
<1>1. ASSUME NEW q \in Tasks \ {t} PROVE StepOf(q)' = StepOf(q) /\ OutOf(q)' = OutOf(q)
  BY <1>1 DEF Only, StepOf, OutOf, Ended
<1> QED BY <1>1 DEF StepSeen, OutSeen

(* A step inside a stage: the server sees nothing of it. *)
LEMMA QuietSeen ==
  ASSUME IInv, IInv', NEW t \in Tasks, Only(t),
         ~Ended(t), ~Ended(t)', Markdown \in scratch[t] <=> Markdown \in scratch'[t]
  PROVE  UNCHANGED <<StepSeen, OutSeen>>
<1>1. StepOf(t)' = StepOf(t) /\ OutOf(t)' = OutOf(t)
  BY SeenCases, SeenCasesNext
<1> QED BY <1>1, OnlySeen DEF StepSeen, OutSeen

(* The last step of a task: the server sees its outcome. *)
LEMMA EndSeen ==
  ASSUME IInv, IInv', NEW t \in Tasks, Only(t), ~Ended(t), Ended(t)',
         scratch'[t] = scratch[t]
  PROVE  Task!Publishes(t) \/ Task!GivesUp(t) \/ Task!Raises(t)
<1>1. CASE outcome'[t] = "path"
  <2>1. Markdown \in scratch[t]
    BY <1>1 DEF IInv, ResultInv
  <2> QED BY <1>1, <2>1, SeenCases, SeenCasesNext, OnlySeen
          DEF Task!Publishes, Task!Becomes, StepSeen, OutSeen
<1>2. CASE outcome'[t] = "none"
  <2>1. Markdown \notin scratch[t]
    BY <1>2 DEF IInv, ResultInv
  <2>2. OutOf(t)' = OutOf(t)
    BY <2>1, SeenCases, SeenCasesNext
  <2> QED BY <1>2, <2>1, <2>2, SeenCases, SeenCasesNext, OnlySeen
          DEF Task!GivesUp, Task!Becomes, StepSeen, OutSeen
<1>3. CASE outcome'[t] = "raised"
  <2>1. OutOf(t)' = OutOf(t)
    BY <1>3, SeenCases, SeenCasesNext
  <2> QED BY <1>3, <2>1, SeenCases, SeenCasesNext, OnlySeen
          DEF Task!Raises, Task!Becomes, StepSeen, OutSeen
<1> QED BY <1>1, <1>2, <1>3, SeenCasesNext

LEMMA WriteMarkdownSeen ==
  ASSUME IInv, IInv', NEW t \in Tasks, WriteMarkdown(t)
  PROVE  Task!Converts(t)
<1>1. ~Ended(t) /\ ~Ended(t)' /\ Markdown \notin scratch[t] /\ Markdown \in scratch'[t]
  BY DEF WriteMarkdown, IInv, TypeOK, ResultInv, Working, Ended, Move
<1>2. Only(t)
  BY DEF WriteMarkdown, Only, Move, IInv, TypeOK
<1> QED BY <1>1, <1>2, SeenCases, SeenCasesNext, OnlySeen
        DEF Task!Converts, Task!Becomes, StepSeen, OutSeen

LEMMA ConvertSeen ==
  ASSUME IInv, IInv', NEW t \in Tasks, Convert(t)
  PROVE  Task!Converts(t) \/ UNCHANGED <<StepSeen, OutSeen>>
<1>1. CASE WriteMarkdown(t)
  BY <1>1, WriteMarkdownSeen
<1>2. CASE ~WriteMarkdown(t)
  <2>1. TypeOK
    BY DEF IInv
  <2>2. ~Ended(t) /\ ~Ended(t)' /\ Only(t) /\ (Markdown \in scratch[t] <=> Markdown \in scratch'[t])
    <3> USE <2>1 DEF Only, TypeOK, Ended, Move, Leave, fileVars, Markdown
    <3>1. CASE Refuse(t) \/ Allow(t) BY <3>1 DEF Refuse, Allow
    <3>2. CASE EnterLock(t) BY <3>2 DEF EnterLock
    <3>3. CASE Parse(t) BY <3>3 DEF Parse
    <3>4. CASE ProcessingFails(t) BY <3>4 DEF ProcessingFails
    <3>5. CASE Serialize(t) BY <3>5 DEF Serialize
    <3>6. CASE SaveImages(t) BY <3>6 DEF SaveImages
    <3>7. ASSUME NEW i \in Pictures, SaveImage(t, i) \/ SaveImageFails(t, i)
          PROVE  ~Ended(t) /\ ~Ended(t)' /\ Only(t) /\ (Markdown \in scratch[t] <=> Markdown \in scratch'[t])
      <4>1. stage[t] = "saving"
        BY <3>7 DEF SaveImage, SaveImageFails, IInv, ImagesInv
      <4> QED BY <3>7, <4>1, TaskParameters DEF SaveImage, SaveImageFails, ImageName, Pictures
    <3>8. CASE ImagesSaved(t) BY <3>8 DEF ImagesSaved
    <3>9. CASE WriteMarkdownFails(t) BY <3>9 DEF WriteMarkdownFails
    <3> HIDE DEF TypeOK, Only, Ended
    <3> QED BY <1>2, <3>1, <3>2, <3>3, <3>4, <3>5, <3>6, <3>7, <3>8, <3>9 DEF Convert
  <2> QED BY <2>2, QuietSeen
<1> QED BY <1>1, <1>2

LEMMA PublishSeen ==
  ASSUME IInv, IInv', NEW t \in Tasks, Publish(t)
  PROVE  UNCHANGED <<StepSeen, OutSeen>>
<1>1. TypeOK
  BY DEF IInv
<1>2. ~Ended(t) /\ ~Ended(t)' /\ Only(t) /\ scratch'[t] = scratch[t]
  <2> USE <1>1 DEF Only, TypeOK, Ended, Move, Leave, fileVars, Copying
  <2>1. ASSUME NEW f \in Files, CopyOut(t, f) \/ CopyImageFails(t, f)
        PROVE  ~Ended(t) /\ ~Ended(t)' /\ Only(t) /\ scratch'[t] = scratch[t]
    BY <2>1 DEF CopyOut, CopyImageFails
  <2>2. CASE CopyRaises(t) \/ CopyEnds(t)
    BY <2>2 DEF CopyRaises, CopyEnds
  <2> QED BY <2>1, <2>2 DEF Publish
<1> QED BY <1>2, QuietSeen

LEMMA RestSeen ==
  ASSUME IInv, IInv', NEW t \in Tasks,
         \/ MakeScratch(t) \/ MakeScratchFails(t) \/ CopyInput(t) \/ CopyInputFails(t)
         \/ RemoveScratch(t) \/ RemoveScratchFails(t)
  PROVE  \/ Task!Publishes(t) \/ Task!GivesUp(t) \/ Task!Raises(t)
         \/ UNCHANGED <<StepSeen, OutSeen>>
<1>1. TypeOK
  BY DEF IInv
<1>2. ~Ended(t) /\ Only(t) /\ scratch'[t] = scratch[t]
  BY <1>1 DEF MakeScratch, MakeScratchFails, CopyInput, CopyInputFails, RemoveScratch,
              RemoveScratchFails, Only, TypeOK, Ended, Move, Leave, fileVars
<1> QED BY <1>2, QuietSeen, EndSeen

LEMMA DieSeen ==
  ASSUME IInv, IInv', Die
  PROVE  \E lost \in SUBSET Tasks : Task!Dies(lost)
<1> DEFINE lost == {t \in Tasks : ~Ended(t)}
<1>1. ASSUME NEW t \in Tasks
      PROVE  /\ StepOf(t)' = IF t \in lost THEN "raised" ELSE StepOf(t)
             /\ OutOf(t)' = OutOf(t)
  <2>1. CASE Ended(t)
    <3>1. UNCHANGED <<stage[t], outcome[t], scratch, output>>
      BY <2>1 DEF Die, fileVars
    <3>2. StepOf(t)' = StepOf(t)
      BY <3>1 DEF StepOf, Ended
    <3>3. OutOf(t)' = OutOf(t)
      BY <3>1, <3>2 DEF OutOf
    <3> QED BY <2>1, <3>2, <3>3
  <2>2. CASE ~Ended(t)
    <3>1. stage'[t] = "dead" /\ outcome'[t] = "raised" /\ scratch' = scratch
      BY <2>2 DEF Die, fileVars
    <3>2. Ended(t)'
      BY <3>1 DEF Ended
    <3> QED BY <2>2, <3>1, <3>2, SeenCases, SeenCasesNext
  <2> QED BY <2>1, <2>2
<1>2. \A t \in lost : StepSeen[t] \in {"converting", "publishing"}
  BY SeenCases DEF StepSeen
<1>3. UNCHANGED OutSeen
  BY <1>1 DEF OutSeen
<1>4. StepSeen' = [t \in Tasks |-> IF t \in lost THEN "raised" ELSE StepSeen[t]]
  BY <1>1 DEF StepSeen
<1>5. Task!Dies(lost)
  BY <1>2, <1>3, <1>4 DEF Task!Dies, StepSeen, OutSeen
<1> QED BY <1>5

(* The server may rely on a task, for any number of tasks and pictures: a    *)
(* path means that the whole result is in the output directory, and nothing  *)
(* is put there by a task that gives up.                                     *)
THEOREM TaskImplementsContract == Spec => ImplementsTask
<1>1. Init => Task!Init
  BY DEF Init, Task!Init, StepOf, OutOf, Ended
<1>2. IInv /\ [Next]_vars => [Task!Next]_(Task!tvars)
  <2> SUFFICES ASSUME IInv, [Next]_vars PROVE Task!Next \/ UNCHANGED Task!tvars
    OBVIOUS
  <2>0. IInv'
    BY StepIInv
  <2>1. Task!tvars = <<StepSeen, OutSeen>> /\ Task!tvars' = <<StepSeen', OutSeen'>>
    BY DEF Task!tvars, StepSeen, OutSeen
  <2>2. ASSUME NEW t \in Tasks, TaskStep(t) PROVE Task!Next \/ UNCHANGED Task!tvars
    BY <2>0, <2>1, <2>2, ConvertSeen, PublishSeen, RestSeen DEF TaskStep, Task!Next
  <2>3. CASE Die
    BY <2>0, <2>3, DieSeen DEF Task!Next
  <2>4. CASE UNCHANGED vars
    BY <2>4 DEF vars, fileVars, Task!tvars, StepOf, OutOf, Ended
  <2> QED BY <2>2, <2>3, <2>4 DEF Next, Stopped
<1> QED BY InitIInv, StepIInv, <1>1, <1>2, PTL DEF Spec, ImplementsTask, Task!Spec
=============================================================================
