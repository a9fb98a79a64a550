--------------------------- MODULE MarkdownDocument ---------------------------
(***************************************************************************)
(* How a document becomes Markdown: docling's items and the pictures that  *)
(* ExcelImages adds to them are serialized one after the other             *)
(* (serializers.py), and the page marker, the front matter and the key     *)
(* section are put in front (converter.py).  _save_markdown saves the      *)
(* pictures after that and writes the file; EnhancedDoclingConverter saves  *)
(* them first, if it is given a directory, and returns the text.            *)
(***************************************************************************)
EXTENDS ExcelImages

CONSTANTS Bodies,  \* what docling may make of a document: its items in order
          Uses     \* options and callers

(* A page of 0 is an item without provenance; the image of a picture without *)
(* data is NoMedia.  A picture of the page's furniture or of a hidden sheet   *)
(* ("hidden") is one of doc.pictures, but the serializers never come to it.    *)
(* Of the tables with merged cells, the export as HTML of a "failing" one      *)
(* raises, and that of a "blank" one returns nothing; a formula that docling   *)
(* did not decode has no text, or nothing at all.                              *)
Tables == {"table", "merged", "failing", "blank"}
PictureKinds == {"picture", "hidden"}

ASSUME DocumentParameters ==
  /\ \A b \in Bodies :
       /\ b \in Seq(Elements(b))
       /\ \A k \in DOMAIN b :
            /\ b[k].kind \in {"text", "formula", "undecoded", "nothing"} \cup Tables \cup PictureKinds
            /\ b[k].page \in Nat /\ b[k].captioned \in BOOLEAN
  /\ Uses \subseteq [breaks : BOOLEAN, keys : BOOLEAN, html : BOOLEAN, matter : BOOLEAN,
                     caller : {"save", "assets", "render"}]

VARIABLES body,   \* docling's items
          use,    \* how the document is to be rendered
          stage,  \* where the rendering is
          at,     \* the item that comes next
          page,   \* the page docling has got to
          text,   \* the Markdown, element by element
          saved   \* names of the image files

textVars == <<stage, at, page, text, saved>>
docVars == <<vars, body, use, textVars>>

DocInit ==
  /\ Init
  /\ body \in Bodies /\ use \in Uses
  /\ workbook # <<>> => \A k \in DOMAIN body : body[k].page \in DOMAIN workbook
  /\ workbook # <<>> => detected = {[image |-> body[k].image, page |-> body[k].page] :
                                       k \in {j \in DOMAIN body : body[j].kind \in PictureKinds}}
  /\ stage = "enriching" /\ at = 1 /\ page = 0 /\ text = <<>> /\ saved = {}

-----------------------------------------------------------------------------
Recovered(k) ==
  [kind |-> "picture", page |-> added[k].page, image |-> added[k].media.image, captioned |-> FALSE]

Contents == body \o [k \in DOMAIN added |-> Recovered(k)]

Pictures == {i \in DOMAIN Contents : Contents[i].kind \in PictureKinds}

(* {slug}_p{page}_{index}.png *)
Name(i) ==
  <<IF Contents[i].page = 0 THEN 1 ELSE Contents[i].page, Cardinality({j \in Pictures : j <= i})>>

Marker(n) == <<"marker", n>>

Serializing == stage = "serializing" /\ at <= Len(Contents)
NewPage == Contents[at].kind # "hidden" /\ Contents[at].page > page
Is(kinds) == Serializing /\ ~NewPage /\ Contents[at].kind \in kinds

Emits(elements) ==
  /\ text' = text \o elements
  /\ at' = at + 1
  /\ UNCHANGED <<vars, body, use, stage, page, saved>>

-----------------------------------------------------------------------------
Enrich == stage = "enriching" /\ EnrichStep /\ UNCHANGED <<body, use, textVars>>

Start ==
  /\ stage = "enriching" /\ phase \in {"enriched", "stopped"}
  /\ stage' = IF use.caller = "assets" THEN "images" ELSE "serializing"
  /\ UNCHANGED <<vars, body, use, at, page, text, saved>>

Break_NamesLast ==  \* faulty: the wrong group of PAGE_BREAK_RE
  /\ Serializing /\ NewPage
  /\ page' = Contents[at].page
  /\ text' = IF use.breaks /\ page > 0 THEN Append(text, Marker(page)) ELSE text
  /\ UNCHANGED <<vars, body, use, stage, at, saved>>

(* Docling breaks the page before an item of a later one, but the first, and  *)
(* serialize_doc makes its placeholder the marker of the new page.            *)
Break ==
  /\ Serializing /\ NewPage
  /\ page' = Contents[at].page
  /\ text' = IF use.breaks /\ page > 0 THEN Append(text, Marker(page')) ELSE text
  /\ UNCHANGED <<vars, body, use, stage, at, saved>>

(* An item comes out in parts; without any there is no text for it. *)
Gives(kinds, parts) ==
  Is(kinds) /\ Emits(IF parts = {} THEN <<>> ELSE <<<<"item", at, parts>>>>)

Captions == IF Contents[at].captioned THEN {"captions"} ELSE {}

SerializeText == Gives({"text"}, {"text"})
SerializeFormula == Gives({"formula"}, {"math"}) \/ Gives({"undecoded"}, {"comment"})
SkipFormula == Gives({"nothing"}, {})
SkipHidden == Gives({"hidden"}, {})

(* Docling's own table: there are no merged cells, or HTML is not asked for. *)
SerializeTable == Gives(IF use.html THEN {"table"} ELSE Tables, Captions \cup {"gfm"})

SerializeMerged == use.html /\ Gives({"merged"}, Captions \cup {"html"})

ExportRaises_KeepsParts ==  \* faulty: logged, and on with the parts there are
  use.html /\ Gives({"failing"}, Captions)

ExportRaises == use.html /\ Gives({"failing"}, Captions \cup {"gfm"})

(* What there is besides the table remains. *)
ExportIsEmpty == use.html /\ Gives({"blank"}, Captions)

(* The link takes the place of all that docling says of the picture. *)
SerializePicture == Is({"picture"}) /\ Emits(<<<<"link", at, Name(at)>>>>)

FirstPageMarked(t) ==
  IF ~use.breaks \/ (t # <<>> /\ t[1] = Marker(1)) THEN t ELSE <<Marker(1)>> \o t
WithMatter(t) == IF use.matter THEN <<<<"matter">>>> \o t ELSE t
WithKeys(t) == IF use.keys THEN <<<<"keys">>>> \o t ELSE t

Assemble_MatterFirst ==  \* faulty: the marker is put in front last
  /\ stage = "serializing" /\ at > Len(Contents)
  /\ text' = FirstPageMarked(WithKeys(WithMatter(text)))
  /\ stage' = IF use.caller = "save" THEN "images" ELSE "done"
  /\ UNCHANGED <<vars, body, use, at, page, saved>>

Assemble ==
  /\ stage = "serializing" /\ at > Len(Contents)
  /\ text' = WithKeys(WithMatter(FirstPageMarked(text)))
  /\ stage' = IF use.caller = "save" THEN "images" ELSE "done"
  /\ UNCHANGED <<vars, body, use, at, page, saved>>

(* A picture that cannot be saved is logged. *)
SaveImages ==
  /\ stage = "images"
  /\ \E fails \in SUBSET Pictures :
       saved' = {Name(i) : i \in {j \in Pictures \ fails : Contents[j].image # NoMedia}}
  /\ stage' = IF use.caller = "save" THEN "writing" ELSE "serializing"
  /\ UNCHANGED <<vars, body, use, at, page, text>>

WriteFile ==
  /\ stage = "writing"
  /\ stage' \in {"done", "failed"}
  /\ UNCHANGED <<vars, body, use, at, page, text, saved>>

Ended == stage \in {"done", "failed"} /\ UNCHANGED docVars

DocNext ==
  \/ Enrich \/ Start \/ Break
  \/ SerializeText \/ SerializeFormula \/ SkipFormula
  \/ SkipHidden \/ SerializeTable \/ SerializeMerged \/ ExportRaises \/ ExportIsEmpty
  \/ SerializePicture \/ Assemble \/ SaveImages \/ WriteFile \/ Ended

DocSpec == DocInit /\ [][DocNext]_docVars

-----------------------------------------------------------------------------
Tagged(tag) == {text[k] : k \in {j \in DOMAIN text : text[j][1] = tag}}
Rendered == {k \in DOMAIN text : text[k][1] \in {"item", "link"}}

(* converter.py, "appends them to the DoclingDocument": every picture of a    *)
(* workbook that PIL can load is linked in the Markdown, those of the sheets   *)
(* before a malformed one included, unless an exception stopped the adding.    *)
(* One that docling has already, but hides, is not added again.                *)
NothingIsLost ==
  stage = "done" /\ phase = "enriched" =>
    \A s \in 1..Len(workbook) : ReadableUpTo(s) =>
      \A m \in Elements(Pictured(s)) : m.quality = "good" =>
        \/ \E e \in Tagged("link") : Contents[e[2]].image = m.image
        \/ \E i \in Pictures : Contents[i].kind = "hidden" /\ Contents[i].image = m.image

(* MARKDOWN_SPEC.md, {doc_slug}_p{page}_{index}.png "prevents filename         *)
(* collisions" and preserves the page: a link names a sheet that shows its     *)
(* picture, no other picture has its name, and what is saved is linked or      *)
(* hidden.                                                                     *)
LinksNameTheirPictures ==
  /\ \A e \in Tagged("link") :
       /\ workbook # <<>> => /\ e[3][1] \in DOMAIN workbook
                             /\ \E m \in Elements(Pictured(e[3][1])) : m.image = Contents[e[2]].image
       /\ \A i \in Pictures : Name(i) = e[3] => i = e[2]
  /\ stage = "done" =>
       saved \subseteq {e[3] : e \in Tagged("link")}
                        \cup {Name(i) : i \in {j \in Pictures : Contents[j].kind = "hidden"}}

(* serializers.py, "Fallback to standard markdown table if HTML export fails":  *)
(* the items come out in order and each once, a table with its captions and     *)
(* itself, in HTML or in Markdown.  What does not come out is a formula with    *)
(* nothing in it, what is hidden, and a table whose export as HTML returns      *)
(* nothing: of that only the captions are left, or not a trace.                 *)
ContentInOrder ==
  stage = "done" =>
    /\ \A i \in DOMAIN Contents :
         \/ Contents[i].kind \in {"nothing", "hidden"}
         \/ use.html /\ Contents[i].kind = "blank" /\ ~Contents[i].captioned
         \/ \E k \in Rendered : text[k][2] = i
    /\ \A k \in Rendered :
         LET i == text[k][2]
         IN  text[k][1] = "item" /\ Contents[i].kind \in Tables =>
               /\ Contents[i].captioned => "captions" \in text[k][3]
               /\ \/ text[k][3] \cap {"gfm", "html"} # {}
                  \/ use.html /\ Contents[i].kind = "blank"
    /\ \A j, k \in Rendered : j < k => text[j][2] < text[k][2]

MarkerAt(k) ==  \* the page whose marker stands last before the k-th element
  LET before == {j \in 1..k - 1 : text[j][1] = "marker"}
  IN  IF before = {} THEN 0 ELSE text[CHOOSE j \in before : \A i \in before : i <= j][2]

(* MARKDOWN_SPEC.md, "page markers (PAGE_BREAK: Page N)": the markers ascend,   *)
(* and an item stands under that of its page, if the document begins with page *)
(* 1 and its pages ascend up to the item, the hidden pictures set aside.        *)
MarkersNamePages ==
  stage = "done" /\ use.breaks =>
    \A k \in DOMAIN text :
      /\ text[k][1] = "marker" => MarkerAt(k) < text[k][2]
      /\ text[k][1] \in {"item", "link"} =>
           LET i == text[k][2]
               reached == {j \in 1..i : Contents[j].kind # "hidden"}
           IN  /\ \E f \in reached : Contents[f].page = 1 /\ \A j \in reached : f <= j
               /\ \A j, l \in reached : j <= l => Contents[j].page <= Contents[l].page
               => MarkerAt(k) = Contents[i].page

(* MARKDOWN_SPEC.md, documents "begin with a YAML frontmatter block": so they   *)
(* do without the key section only.  With it, the file begins with the keys     *)
(* (converter.py, kv_section + md_content), which the document says are         *)
(* appended, and the front matter comes second.                                 *)
MatterLeads ==
  stage = "done" /\ use.matter =>
    IF use.keys THEN text[1] = <<"keys">> /\ text[2] = <<"matter">> ELSE text[1] = <<"matter">>
=============================================================================
