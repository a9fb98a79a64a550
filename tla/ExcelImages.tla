----------------------------- MODULE ExcelImages -----------------------------
(***************************************************************************)
(* The pictures of a workbook.  Docling has found some; the workbook's     *)
(* drawings are searched for all of them, sheet by sheet                   *)
(* (extract_excel_images, utils.py), and those whose hash is not among the *)
(* hashes of docling's pictures are added to the document                  *)
(* (_enrich_excel_pictures, converter.py).  What is no workbook, or cannot *)
(* be opened as one, is a workbook without sheets.                         *)
(***************************************************************************)
EXTENDS Integers, Sequences, FiniteSets

CONSTANTS Media,    \* picture files: their image, how it is stored, what PIL makes of it
          NoMedia,  \* an anchor that leads to no picture file
          Workbooks

(* A medium is stored as "png" when its bytes are what PIL writes for it.   *)
(* PIL opens all but the "unopenable"; those it opens and then cannot load  *)
(* (the exception is passed over) or save as PNG are "unsavable".  A sheet   *)
(* that is "broken" makes the parser raise.                                  *)
ASSUME ExcelParameters ==
  /\ \A m \in Media : /\ m.stored \in {"png", "otherwise"}
                      /\ m.quality \in {"good", "unsavable", "unopenable"}
  /\ NoMedia \notin Media
  /\ \A w \in Workbooks : w \in Seq([state : {"drawing", "plain", "broken"},
                                     two : Seq(Media \cup {NoMedia}),
                                     one : Seq(Media \cup {NoMedia})])

VARIABLES workbook,
          detected,  \* docling's pictures: image and page
          phase,
          sheet,     \* number of the sheet to be searched next
          found,     \* extracted: media and their sheets
          item,      \* place in found of the one to be added next
          hashes,    \* existing_hashes
          added      \* pictures added to the document

vars == <<workbook, detected, phase, sheet, found, item, hashes, added>>

Elements(s) == {s[k] : k \in DOMAIN s}

(* Two-cell anchors come first; absolute anchors are not looked at. *)
Anchors(s) == IF workbook[s].state = "drawing" THEN workbook[s].two \o workbook[s].one ELSE <<>>
IsMedium(m) == m # NoMedia
OnlyMedia(anchors) ==
  LET upTo[k \in 0..Len(anchors)] ==
        IF k = 0 THEN <<>>
        ELSE IF IsMedium(anchors[k]) THEN Append(upTo[k - 1], anchors[k]) ELSE upTo[k - 1]
  IN  upTo[Len(anchors)]
Pictured(s) == OnlyMedia(Anchors(s))

Opens(m) == m.quality # "unopenable"
Hash(m) == <<m.image, m.stored>>

Shown == {[image |-> m.image, page |-> s] :
            s \in DOMAIN workbook, m \in {n \in Media : n.quality = "good"}}
OnPage(p) == \E m \in Elements(Pictured(p.page)) : m.image = p.image /\ m.quality = "good"

Init ==
  /\ workbook \in Workbooks
  /\ detected \in SUBSET {p \in Shown : OnPage(p)}
  /\ phase = "search" /\ sheet = 1 /\ found = <<>>
  /\ item = 1 /\ hashes = {} /\ added = <<>>

Items_CountDrawings(s) ==  \* faulty: the number counts the sheets with a drawing
  [k \in DOMAIN Pictured(s) |->
     [media |-> Pictured(s)[k], page |-> Cardinality({q \in 1..s : workbook[q].state = "drawing"})]]

Items(s) == [k \in DOMAIN Pictured(s) |-> [media |-> Pictured(s)[k], page |-> s]]

SearchSheet ==
  /\ phase = "search" /\ sheet <= Len(workbook) /\ workbook[sheet].state # "broken"
  /\ found' = found \o Items(sheet)
  /\ sheet' = sheet + 1
  /\ UNCHANGED <<workbook, detected, phase, item, hashes, added>>

SearchFails_ForgetsAll ==  \* faulty: nothing is returned after an error
  /\ phase = "search" /\ sheet <= Len(workbook) /\ workbook[sheet].state = "broken"
  /\ phase' = "searched" /\ found' = <<>>
  /\ UNCHANGED <<workbook, detected, sheet, item, hashes, added>>

SearchFails ==  \* logged; what was found so far is returned
  /\ phase = "search" /\ sheet <= Len(workbook) /\ workbook[sheet].state = "broken"
  /\ phase' = "searched"
  /\ UNCHANGED <<workbook, detected, sheet, found, item, hashes, added>>

SearchEnds ==
  /\ phase = "search" /\ sheet > Len(workbook)
  /\ phase' = "searched"
  /\ UNCHANGED <<workbook, detected, sheet, found, item, hashes, added>>

HashDetected ==  \* of a new PNG of each picture that docling found
  /\ phase = "searched" /\ found # <<>>
  /\ phase' = "adding"
  /\ hashes' = {<<p.image, "png">> : p \in detected}
  /\ UNCHANGED <<workbook, detected, sheet, found, item, added>>

HashRaises ==  \* a picture that docling found does not load: logged
  /\ phase = "searched" /\ found # <<>> /\ detected # {}
  /\ phase' = "stopped"
  /\ UNCHANGED <<workbook, detected, sheet, found, item, hashes, added>>

NothingFound ==
  /\ phase = "searched" /\ found = <<>>
  /\ phase' = "enriched"
  /\ UNCHANGED <<workbook, detected, sheet, found, item, hashes, added>>

AtItem == phase = "adding" /\ item <= Len(found)
Medium == found[item].media

Skip ==  \* PIL cannot open it, or the document has it
  /\ AtItem /\ (Opens(Medium) => Hash(Medium) \in hashes)
  /\ item' = item + 1
  /\ UNCHANGED <<workbook, detected, phase, sheet, found, hashes, added>>

Add ==
  /\ AtItem /\ Medium.quality = "good" /\ Hash(Medium) \notin hashes
  /\ added' = Append(added, found[item])
  /\ hashes' = hashes \cup {Hash(Medium)}
  /\ item' = item + 1
  /\ UNCHANGED <<workbook, detected, phase, sheet, found>>

AddRaises ==  \* logged; the rest is left out
  /\ AtItem /\ Medium.quality = "unsavable" /\ Hash(Medium) \notin hashes
  /\ phase' = "stopped"
  /\ UNCHANGED <<workbook, detected, sheet, found, item, hashes, added>>

AllAdded ==
  /\ phase = "adding" /\ item > Len(found)
  /\ phase' = "enriched"
  /\ UNCHANGED <<workbook, detected, sheet, found, item, hashes, added>>

Stopped == phase \in {"enriched", "stopped"} /\ UNCHANGED vars

EnrichStep ==
  \/ SearchSheet \/ SearchFails \/ SearchEnds \/ HashDetected \/ HashRaises \/ NothingFound
  \/ Skip \/ Add \/ AddRaises \/ AllAdded

Next == EnrichStep \/ Stopped

Spec == Init /\ [][Next]_vars

-----------------------------------------------------------------------------
ReadableUpTo(s) == \A q \in 1..s : workbook[q].state # "broken"

(* test_excel_image_fidelity.py: "identical image content is properly        *)
(* deduplicated via SHA-256 hash during enrichment".                         *)
NoImageTwice ==
  \A e \in Elements(added) : \A p \in detected : e.media.image # p.image
=============================================================================
