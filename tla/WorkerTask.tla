----------------------------- MODULE WorkerTask -----------------------------
(***************************************************************************)
(* process_pdf_multi_process_worker (pool.py) and the process_pdf it calls *)
(* (converter.py), on their files.  A task works in a scratch directory of *)
(* its own inside its output directory: it copies the input there, converts *)
(* it under the process's conversion lock, and copies the result out.      *)
(* A file of the result is the Markdown or the image of a picture.         *)
(***************************************************************************)
EXTENDS Integers, FiniteSets

CONSTANTS Tasks,
          Process,   \* Process[t] is the worker process that runs task t
          Count,     \* pictures in a document
          NoData,    \* pictures without image data
          Faults     \* which failures the environment may inject

ASSUME TaskParameters ==
  /\ Count \in Nat /\ NoData \subseteq 1..Count
  /\ Faults \subseteq {"disk", "conversion", "refusal", "kill"}
  /\ DOMAIN Process = Tasks

VARIABLES stage,    \* of each task
          outcome,  \* what the task will return or has returned
          lock,     \* holder of _converter_lock in each process, or "free"
          scratch,  \* files in the task's temporary output directory
          scratchUp,\* the temporary directory exists
          links,    \* images the Markdown of the task refers to
          saving,   \* pictures whose image is yet to be saved
          unsaved,  \* history: pictures whose image could not be saved
          todo,     \* files yet to be copied out
          copyError,\* copytree has met an error it has not raised yet
          output    \* files in the task's output directory

fileVars == <<scratch, scratchUp, output>>
vars == <<stage, outcome, lock, fileVars, links, saving, unsaved, todo, copyError>>

Pictures == 1..Count
WithData == Pictures \ NoData
Markdown == 0
Files == Pictures \cup {Markdown}
Processes == {Process[t] : t \in Tasks}

(* _save_images and the picture serializer number a picture by its place   *)
(* among all pictures of the document, with data or without.               *)
ImageName_CountsSaved(i) == Cardinality({j \in WithData : j <= i})  \* faulty

ImageName(i) == i
LinkName(i) == i

Init ==
  /\ stage = [t \in Tasks |-> "start"]
  /\ outcome = [t \in Tasks |-> "pending"]
  /\ lock = [p \in Processes |-> "free"]
  /\ scratch = [t \in Tasks |-> {}]
  /\ scratchUp = [t \in Tasks |-> FALSE]
  /\ links = [t \in Tasks |-> {}]
  /\ saving = [t \in Tasks |-> {}]
  /\ unsaved = [t \in Tasks |-> {}]
  /\ todo = [t \in Tasks |-> {}]
  /\ copyError = [t \in Tasks |-> FALSE]
  /\ output = [t \in Tasks |-> {}]

Move(t, s) == stage' = [stage EXCEPT ![t] = s]

(* The task leaves the block of the temporary directory with a result.      *)
Leave(t, result) ==
  /\ Move(t, "cleaning")
  /\ outcome' = [outcome EXCEPT ![t] = result]

Unlock(t) == lock' = [lock EXCEPT ![Process[t]] = "free"]

-----------------------------------------------------------------------------
(* The scratch directory and the copy of the input. *)
MakeScratch(t) ==
  /\ stage[t] = "start"
  /\ Move(t, "scratch")
  /\ scratchUp' = [scratchUp EXCEPT ![t] = TRUE]
  /\ UNCHANGED <<outcome, lock, scratch, output, links, saving, unsaved, todo, copyError>>

MakeScratchFails(t) ==
  /\ "disk" \in Faults /\ stage[t] = "start"
  /\ Move(t, "done") /\ outcome' = [outcome EXCEPT ![t] = "raised"]
  /\ UNCHANGED <<lock, fileVars, links, saving, unsaved, todo, copyError>>

CopyInput(t) ==
  /\ stage[t] = "scratch"
  /\ Move(t, "copied")
  /\ UNCHANGED <<outcome, lock, fileVars, links, saving, unsaved, todo, copyError>>

CopyInputFails(t) ==
  /\ "disk" \in Faults /\ stage[t] = "scratch"
  /\ Leave(t, "raised")
  /\ UNCHANGED <<lock, fileVars, links, saving, unsaved, todo, copyError>>

(* process_pdf.  Whatever is raised under the lock makes it return None.    *)
Refuse(t) ==  \* where the output directory resolves to is not allowed
  /\ "refusal" \in Faults /\ stage[t] = "copied"
  /\ Leave(t, "none")
  /\ UNCHANGED <<lock, fileVars, links, saving, unsaved, todo, copyError>>

Allow(t) ==
  /\ stage[t] = "copied"
  /\ Move(t, "allowed")
  /\ UNCHANGED <<outcome, lock, fileVars, links, saving, unsaved, todo, copyError>>

EnterLock(t) ==
  /\ stage[t] = "allowed" /\ lock[Process[t]] = "free"
  /\ lock' = [lock EXCEPT ![Process[t]] = t]
  /\ Move(t, "converting")
  /\ UNCHANGED <<outcome, fileVars, links, saving, unsaved, todo, copyError>>

ProcessingFails_KeepsLock(t) ==  \* faulty: acquire and release without a finally
  /\ {"disk", "conversion"} \cap Faults # {}
  /\ stage[t] \in {"converting", "parsed", "serialized"}
  /\ Leave(t, "none")
  /\ UNCHANGED <<lock, fileVars, links, saving, unsaved, todo, copyError>>

ProcessingFails(t) ==  \* no converter, an unreadable document or picture, no directory
  /\ {"disk", "conversion"} \cap Faults # {}
  /\ stage[t] \in {"converting", "parsed", "serialized"}
  /\ Leave(t, "none") /\ Unlock(t)
  /\ UNCHANGED <<fileVars, links, saving, unsaved, todo, copyError>>

Parse(t) ==  \* docling, the pictures of a workbook, the two directories
  /\ stage[t] = "converting"
  /\ Move(t, "parsed")
  /\ UNCHANGED <<outcome, lock, fileVars, links, saving, unsaved, todo, copyError>>

Serialize(t) ==  \* every picture of the document gets a link
  /\ stage[t] = "parsed"
  /\ Move(t, "serialized")
  /\ links' = [links EXCEPT ![t] = {LinkName(i) : i \in Pictures}]
  /\ UNCHANGED <<outcome, lock, fileVars, saving, unsaved, todo, copyError>>

SaveImages(t) ==  \* at once or in a thread pool
  /\ stage[t] = "serialized"
  /\ Move(t, "saving")
  /\ saving' = [saving EXCEPT ![t] = WithData]
  /\ UNCHANGED <<outcome, lock, fileVars, links, unsaved, todo, copyError>>

SaveImage(t, i) ==
  /\ i \in saving[t]
  /\ saving' = [saving EXCEPT ![t] = @ \ {i}]
  /\ scratch' = [scratch EXCEPT ![t] = @ \cup {ImageName(i)}]
  /\ UNCHANGED <<stage, outcome, lock, scratchUp, output, links, unsaved, todo, copyError>>

SaveImageFails(t, i) ==  \* logged, and the document goes on without it
  /\ "disk" \in Faults /\ i \in saving[t]
  /\ saving' = [saving EXCEPT ![t] = @ \ {i}]
  /\ unsaved' = [unsaved EXCEPT ![t] = @ \cup {i}]
  /\ UNCHANGED <<stage, outcome, lock, fileVars, links, todo, copyError>>

ImagesSaved(t) ==  \* the thread pool is left
  /\ stage[t] = "saving" /\ saving[t] = {}
  /\ Move(t, "saved")
  /\ UNCHANGED <<outcome, lock, fileVars, links, saving, unsaved, todo, copyError>>

WriteMarkdown(t) ==  \* process_pdf returns its path and the lock is free
  /\ stage[t] = "saved"
  /\ Move(t, "publishing") /\ Unlock(t)
  /\ scratch' = [scratch EXCEPT ![t] = @ \cup {Markdown}]
  /\ todo' = [todo EXCEPT ![t] = scratch'[t]]
  /\ UNCHANGED <<outcome, scratchUp, output, links, saving, unsaved, copyError>>

WriteMarkdownFails(t) ==
  /\ "disk" \in Faults /\ stage[t] = "saved"
  /\ Leave(t, "none") /\ Unlock(t)
  /\ UNCHANGED <<fileVars, links, saving, unsaved, todo, copyError>>

-----------------------------------------------------------------------------
(* The copy to the output directory, in the order of iterdir: the images'   *)
(* directory is one entry, the Markdown another.  copytree goes on after an *)
(* error and raises at its end; copy2 raises at once.                       *)
Copying(t, f) ==
  /\ stage[t] = "publishing" /\ f \in todo[t]
  /\ f = Markdown => todo[t] \in {{Markdown}, scratch[t]} /\ ~copyError[t]

CopyOut(t, f) ==
  /\ Copying(t, f)
  /\ todo' = [todo EXCEPT ![t] = @ \ {f}]
  /\ output' = [output EXCEPT ![t] = @ \cup {f}]
  /\ UNCHANGED <<stage, outcome, lock, scratch, scratchUp, links, saving, unsaved, copyError>>

CopyImageFails_Forgotten(t, f) ==  \* faulty: the error is not kept for the end
  /\ "disk" \in Faults /\ Copying(t, f) /\ f # Markdown
  /\ todo' = [todo EXCEPT ![t] = @ \ {f}]
  /\ UNCHANGED <<stage, outcome, lock, fileVars, links, saving, unsaved, copyError>>

CopyImageFails(t, f) ==
  /\ "disk" \in Faults /\ Copying(t, f) /\ f # Markdown
  /\ todo' = [todo EXCEPT ![t] = @ \ {f}]
  /\ copyError' = [copyError EXCEPT ![t] = TRUE]
  /\ UNCHANGED <<stage, outcome, lock, fileVars, links, saving, unsaved>>

CopyRaises_Caught(t) ==  \* faulty: the copy is inside process_pdf's try
  /\ stage[t] = "publishing"
  /\ \/ copyError[t] /\ todo[t] \subseteq {Markdown}
     \/ "disk" \in Faults /\ Copying(t, Markdown)
  /\ Leave(t, "none")
  /\ UNCHANGED <<lock, fileVars, links, saving, unsaved, todo, copyError>>

CopyRaises(t) ==  \* copytree at its end, or copy2
  /\ stage[t] = "publishing"
  /\ \/ copyError[t] /\ todo[t] \subseteq {Markdown}
     \/ "disk" \in Faults /\ Copying(t, Markdown)
  /\ Leave(t, "raised")
  /\ UNCHANGED <<lock, fileVars, links, saving, unsaved, todo, copyError>>

CopyEnds(t) ==
  /\ stage[t] = "publishing" /\ todo[t] = {} /\ ~copyError[t]
  /\ Leave(t, "path")
  /\ UNCHANGED <<lock, fileVars, links, saving, unsaved, todo, copyError>>

RemoveScratch(t) ==
  /\ stage[t] = "cleaning"
  /\ Move(t, "done")
  /\ scratchUp' = [scratchUp EXCEPT ![t] = FALSE]
  /\ UNCHANGED <<outcome, lock, scratch, output, links, saving, unsaved, todo, copyError>>

RemoveScratchFails(t) ==  \* the exception replaces the result
  /\ "disk" \in Faults /\ stage[t] = "cleaning"
  /\ Move(t, "done") /\ outcome' = [outcome EXCEPT ![t] = "raised"]
  /\ UNCHANGED <<lock, fileVars, links, saving, unsaved, todo, copyError>>

Ended(t) == stage[t] \in {"done", "dead"}

(* A worker process dies; the executor terminates the others and fails all  *)
(* the tasks it has.  The files stay.                                        *)
Die ==
  /\ "kill" \in Faults /\ \E t \in Tasks : ~Ended(t)
  /\ stage' = [t \in Tasks |-> IF Ended(t) THEN stage[t] ELSE "dead"]
  /\ outcome' = [t \in Tasks |-> IF Ended(t) THEN outcome[t] ELSE "raised"]
  /\ saving' = [t \in Tasks |-> {}]
  /\ UNCHANGED <<lock, fileVars, links, unsaved, todo, copyError>>

Stopped == (\A t \in Tasks : Ended(t)) /\ UNCHANGED vars

Convert(t) ==
  \/ Refuse(t) \/ Allow(t) \/ EnterLock(t)
  \/ Parse(t) \/ ProcessingFails(t) \/ Serialize(t)
  \/ SaveImages(t) \/ (\E i \in Pictures : SaveImage(t, i) \/ SaveImageFails(t, i))
  \/ ImagesSaved(t) \/ WriteMarkdown(t) \/ WriteMarkdownFails(t)

Publish(t) ==
  \/ \E f \in Files : CopyOut(t, f) \/ CopyImageFails(t, f)
  \/ CopyRaises(t) \/ CopyEnds(t)

TaskStep(t) ==
  \/ MakeScratch(t) \/ MakeScratchFails(t) \/ CopyInput(t) \/ CopyInputFails(t)
  \/ Convert(t) \/ Publish(t) \/ RemoveScratch(t) \/ RemoveScratchFails(t)

Next == (\E t \in Tasks : TaskStep(t)) \/ Die \/ Stopped

Spec == Init /\ [][Next]_vars

(* Threads go on, and neither docling nor a file call hangs. *)
FairSpec == Spec /\ \A t \in Tasks : WF_vars(TaskStep(t))

-----------------------------------------------------------------------------
TypeOK ==
  /\ stage \in [Tasks -> {"start", "scratch", "copied", "allowed", "converting", "parsed",
                          "serialized", "saving", "saved", "publishing", "cleaning", "done", "dead"}]
  /\ outcome \in [Tasks -> {"pending", "path", "none", "raised"}]
  /\ \A p \in Processes : lock[p] = "free" \/ lock[p] \in Tasks
  /\ scratch \in [Tasks -> SUBSET Files] /\ output \in [Tasks -> SUBSET Files]
  /\ links \in [Tasks -> SUBSET Pictures]
  /\ saving \in [Tasks -> SUBSET WithData] /\ unsaved \in [Tasks -> SUBSET WithData]
  /\ todo \in [Tasks -> SUBSET Files]
  /\ scratchUp \in [Tasks -> BOOLEAN] /\ copyError \in [Tasks -> BOOLEAN]

(* converter.py and serializers.py name the images separately: a link of a  *)
(* published document leads to its image, unless the picture has no data or *)
(* its image could not be saved.                                             *)
LinksResolve ==
  \A t \in Tasks : outcome[t] = "path" =>
    \A i \in WithData \ unsaved[t] : LinkName(i) \in links[t] \cap output[t]

(* process_pdf writes the Markdown last: who sees it in the directory it    *)
(* was given finds every image that there will be (the command line passes  *)
(* the user's own directory).                                                *)
MarkdownIsLast ==
  \A t \in Tasks : Markdown \in scratch[t] =>
    saving[t] = {} /\ {ImageName(i) : i \in WithData \ unsaved[t]} \subseteq scratch[t]

(* A task that returns leaves no temporary directory behind, and one that   *)
(* returns None has put nothing into the output directory (pool.py).        *)
ReturnLeavesNoRemains ==
  \A t \in Tasks : stage[t] = "done" /\ outcome[t] # "raised" =>
    /\ ~scratchUp[t]
    /\ outcome[t] = "none" => output[t] = {}

(* Every task ends, also behind one that failed under the lock. *)
EveryTaskEnds == \A t \in Tasks : <>Ended(t)

StepOf(t) ==
  CASE Ended(t) /\ outcome[t] = "path" -> "converted"
    [] Ended(t) /\ outcome[t] = "none" -> "unconverted"
    [] Ended(t) /\ outcome[t] = "raised" -> "raised"
    [] ~Ended(t) /\ Markdown \in scratch[t] -> "publishing"
    [] ~Ended(t) /\ Markdown \notin scratch[t] -> "converting"

OutOf(t) ==
  CASE Markdown \notin scratch[t] -> IF output[t] = {} THEN "empty" ELSE "partial"
    [] StepOf(t) = "converted" /\ output[t] = scratch[t] -> "full"
    [] OTHER -> "partial"

Task == INSTANCE ConversionTask WITH
  step <- [t \in Tasks |-> StepOf(t)], out <- [t \in Tasks |-> OutOf(t)]

(* A task does what the server relies on: a path means a full directory.    *)
ImplementsTask == Task!Spec
=============================================================================
