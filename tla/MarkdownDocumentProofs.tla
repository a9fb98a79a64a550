------------------------ MODULE MarkdownDocumentProofs ------------------------
(***************************************************************************)
(* What of a document reaches its Markdown, and how: in order, under the    *)
(* marker of its page, each picture by a name of its own, the pictures of a *)
(* workbook with the others, and the front matter before it all.            *)
(***************************************************************************)
EXTENDS MarkdownDocument, SequenceTheorems, FiniteSetTheorems, WellFoundedInduction, TLAPS

(* The natural numbers are well ordered. *)
LEMMA LeastIndex ==
  ASSUME NEW T \in SUBSET Nat, T # {}
  PROVE  \E m \in T : \A y \in T : m <= y
<1> DEFINE R == {ss \in Nat \X Nat : ss[1] < ss[2]}
<1>1. IsWellFoundedOn(R, Nat)
  BY NatLessThanWellFounded DEF OpToRel
<1>2. \A x, y \in Nat : y < x => <<y, x>> \in R
  OBVIOUS
<1> HIDE DEF R
<1>3. PICK m \in T : \A y \in T : ~(<<y, m>> \in R)
  BY <1>1, WFMin
<1>4. \A y \in T : ~(y < m)
  BY <1>2, <1>3
<1>5. \A y \in T : m <= y
  BY <1>4
<1> QED BY <1>5

(* Induction over the natural numbers, for a set of them.                     *)
LEMMA Induction ==
  ASSUME NEW A \in SUBSET Nat, 0 \in A, \A n \in A : n + 1 \in A
  PROVE  A = Nat
<1> SUFFICES ASSUME Nat \ A # {} PROVE FALSE
  OBVIOUS
<1>1. PICK m \in Nat \ A : \A y \in Nat \ A : m <= y
  BY LeastIndex
<1>2. m # 0 /\ m - 1 \in Nat /\ ~(m <= m - 1) /\ (m - 1) + 1 = m
  BY <1>1
<1>3. m - 1 \in A
  BY <1>1, <1>2
<1> QED BY <1>1, <1>2, <1>3
-----------------------------------------------------------------------------
(* The media of a sheet's anchors are what is left without those that lead to  *)
(* none.                                                                         *)
Kept(f, anchors, n) ==
  /\ f \in [0..n -> Seq(Media)] /\ f[0] = <<>>
  /\ \A k \in 1..n :
       f[k] = IF IsMedium(anchors[k]) THEN Append(f[k - 1], anchors[k]) ELSE f[k - 1]

AnchorSeqs == Seq(Media \cup {NoMedia})

LEMMA KeptExist ==
  ASSUME NEW c \in AnchorSeqs, NEW n \in 0..Len(c)
  PROVE  \E f : Kept(f, c, n)
<1> DEFINE A == {m \in Nat : m <= Len(c) => \E f : Kept(f, c, m)}
<1>1. Len(c) \in Nat /\ \A k \in 1..Len(c) : c[k] \in Media \cup {NoMedia}
  BY LenProperties, ElementOfSeq DEF AnchorSeqs
<1>2. 0 \in A
  <2> DEFINE f == [k \in 0..0 |-> <<>>]
  <2>1. <<>> \in Seq(Media)
    BY EmptySeq
  <2>2. Kept(f, c, 0)
    BY <2>1 DEF Kept
  <2> QED BY <2>2
<1>3. ASSUME NEW m \in A PROVE m + 1 \in A
  <2> SUFFICES ASSUME m + 1 <= Len(c) PROVE \E f : Kept(f, c, m + 1)
    OBVIOUS
  <2>1. m \in Nat /\ m <= Len(c) /\ c[m + 1] \in Media \cup {NoMedia}
    BY <1>1
  <2>2. PICK f : Kept(f, c, m)
    BY <2>1
  <2> DEFINE last == IF IsMedium(c[m + 1]) THEN Append(f[m], c[m + 1]) ELSE f[m]
             g == [k \in 0..m + 1 |-> IF k = m + 1 THEN last ELSE f[k]]
  <2>3. f \in [0..m -> Seq(Media)] /\ f[0] = <<>> /\ f[m] \in Seq(Media)
    BY <2>1, <2>2 DEF Kept
  <2>4. last \in Seq(Media)
    BY <2>1, <2>3, AppendProperties DEF IsMedium
  <2>5. g \in [0..m + 1 -> Seq(Media)] /\ g[0] = <<>>
    <3> HIDE DEF last
    <3>1. ASSUME NEW k \in 0..m + 1 PROVE g[k] \in Seq(Media)
      BY <2>1, <2>3, <2>4
    <3>2. 0 \in 0..m + 1 /\ 0 # m + 1
      BY <2>1
    <3> QED BY <2>3, <3>1, <3>2
  <2>6. ASSUME NEW k \in 1..m + 1
        PROVE  g[k] = IF IsMedium(c[k]) THEN Append(g[k - 1], c[k]) ELSE g[k - 1]
    <3>1. k \in 0..m + 1 /\ k - 1 \in 0..m + 1 /\ k - 1 # m + 1
      BY <2>1
    <3>2. g[k - 1] = f[k - 1]
      BY <3>1
    <3>3. CASE k = m + 1
      <4>1. k - 1 = m
        BY <2>1, <3>3
      <4> QED BY <3>1, <3>2, <3>3, <4>1
    <3>4. CASE k # m + 1
      <4>1. k \in 1..m
        BY <2>1, <3>4
      <4>2. f[k] = IF IsMedium(c[k]) THEN Append(f[k - 1], c[k]) ELSE f[k - 1]
        BY <2>2, <4>1 DEF Kept
      <4> QED BY <3>1, <3>2, <3>4, <4>2
    <3> QED BY <3>3, <3>4
  <2> HIDE DEF g
  <2> QED BY <2>5, <2>6 DEF Kept
<1> HIDE DEF A
<1>4. A = Nat
  BY <1>2, <1>3, Induction DEF A
<1> QED BY <1>1, <1>4 DEF A

(* What OnlyMedia builds, anchor by anchor.                                      *)
Keeps(f, c) ==
  f = [k \in 0..Len(c) |-> IF k = 0 THEN <<>>
                           ELSE IF IsMedium(c[k]) THEN Append(f[k - 1], c[k]) ELSE f[k - 1]]

LEMMA OnlyMediaIsMedia ==
  ASSUME NEW c \in AnchorSeqs
  PROVE  OnlyMedia(c) \in Seq(Media)
<1> DEFINE f == CHOOSE g : Keeps(g, c)
<1>1. Len(c) \in Nat /\ \A k \in 1..Len(c) : c[k] \in Media \cup {NoMedia}
  BY LenProperties, ElementOfSeq DEF AnchorSeqs
<1>2. PICK g : Kept(g, c, Len(c))
  BY <1>1, KeptExist
<1>3. Keeps(g, c)
  <2>1. g = [k \in 0..Len(c) |-> g[k]]
    BY <1>2 DEF Kept
  <2>2. \A k \in 0..Len(c) : k # 0 => k \in 1..Len(c)
    BY <1>1
  <2>3. \A k \in 0..Len(c) :
          g[k] = IF k = 0 THEN <<>>
                 ELSE IF IsMedium(c[k]) THEN Append(g[k - 1], c[k]) ELSE g[k - 1]
    BY <1>2, <2>2 DEF Kept
  <2> QED BY <2>1, <2>3 DEF Keeps
<1>4. Keeps(f, c)
  BY <1>3
<1>5. OnlyMedia(c) = f[Len(c)]
  BY DEF OnlyMedia, Keeps
<1> HIDE DEF f
<1>6. \A k \in 0..Len(c) :
        f[k] = IF k = 0 THEN <<>> ELSE IF IsMedium(c[k]) THEN Append(f[k - 1], c[k]) ELSE f[k - 1]
  BY <1>4 DEF Keeps
<1> DEFINE A == {k \in Nat : k <= Len(c) => f[k] \in Seq(Media)}
<1>7. 0 \in A
  <2>1. 0 \in 0..Len(c) /\ f[0] = <<>>
    BY <1>1, <1>6
  <2>2. <<>> \in Seq(Media)
    BY EmptySeq
  <2> QED BY <2>1, <2>2
<1>8. ASSUME NEW k \in A PROVE k + 1 \in A
  <2> SUFFICES ASSUME k + 1 <= Len(c) PROVE f[k + 1] \in Seq(Media)
    OBVIOUS
  <2>1. k \in Nat /\ k + 1 \in 0..Len(c) /\ k + 1 # 0 /\ (k + 1) - 1 = k /\ f[k] \in Seq(Media)
    BY <1>1
  <2>2. c[k + 1] \in Media \cup {NoMedia}
    BY <1>1, <2>1
  <2>3. f[k + 1] = IF IsMedium(c[k + 1]) THEN Append(f[k], c[k + 1]) ELSE f[k]
    BY <1>6, <2>1
  <2> QED BY <2>1, <2>2, <2>3, AppendProperties DEF IsMedium
<1> HIDE DEF A
<1>9. A = Nat
  BY <1>7, <1>8, Induction DEF A
<1> QED BY <1>1, <1>5, <1>9 DEF A

LEMMA PicturedIsMedia ==
  ASSUME workbook \in Workbooks, NEW s \in DOMAIN workbook
  PROVE  Pictured(s) \in Seq(Media)
<1>1. workbook[s].two \in AnchorSeqs /\ workbook[s].one \in AnchorSeqs
  <2> DEFINE R == [state : {"drawing", "plain", "broken"}, two : AnchorSeqs, one : AnchorSeqs]
  <2>1. workbook \in Seq(R)
    BY ExcelParameters DEF AnchorSeqs
  <2> HIDE DEF R
  <2>2. workbook[s] \in R
    BY <2>1, LenProperties, ElementOfSeq
  <2> QED BY <2>2 DEF R
<1>2. Anchors(s) \in AnchorSeqs
  BY <1>1, ConcatProperties, EmptySeq DEF Anchors, AnchorSeqs
<1> QED BY <1>2, OnlyMediaIsMedia DEF Pictured

-----------------------------------------------------------------------------
(* The pictures of a workbook: what the search has found is what the sheets     *)
(* before the next one show, and what has been compared and can be drawn has     *)
(* its hash among the hashes, which are those of the pictures of the document.  *)
Finds == [media : Media, page : Nat]

ExcelTyping ==
  /\ workbook \in Workbooks /\ detected \subseteq {p \in Shown : OnPage(p)}
  /\ sheet \in Nat /\ item \in Nat
  /\ found \in Seq(Finds) /\ added \in Seq(Finds)

FoundOn(f, shows) ==
  /\ \A k \in 1..Len(f) : \E s \in DOMAIN shows : f[k].page = s /\ f[k].media \in shows[s]
  /\ \A s \in DOMAIN shows : \A m \in shows[s] : \E k \in 1..Len(f) : f[k].media = m

(* The media of the first n sheets. *)
Showing(n) == [s \in 1..n |-> Elements(Pictured(s))]

Searched ==
  /\ sheet \in 1..Len(workbook) + 1
  /\ FoundOn(found, Showing(sheet - 1))
  /\ phase # "search" => sheet > Len(workbook) \/ workbook[sheet].state = "broken"

KnownHashes ==
  {<<p.image, "png">> : p \in detected} \cup {Hash(added[k].media) : k \in 1..Len(added)}

Compared ==
  /\ \A k \in 1..Len(added) : \E j \in 1..Len(found) : added[k] = found[j]
  /\ hashes \subseteq KnownHashes
  /\ item \in 1..Len(found) + 1
  /\ phase \in {"search", "searched"} => item = 1 /\ added = <<>>
  /\ \A k \in 1..item - 1 : found[k].media.quality = "good" => Hash(found[k].media) \in hashes
  /\ phase = "enriched" => item > Len(found)

ExcelInv == ExcelTyping /\ Searched /\ Compared

LEMMA WorkbookIsSeq ==
  ASSUME workbook \in Workbooks
  PROVE  Len(workbook) \in Nat /\ DOMAIN workbook = 1..Len(workbook)
BY ExcelParameters, LenProperties

LEMMA ShownMedia ==
  ASSUME workbook \in Workbooks, NEW s \in 1..Len(workbook)
  PROVE  /\ Pictured(s) \in Seq(Media)
         /\ Elements(Pictured(s)) = {Pictured(s)[k] : k \in 1..Len(Pictured(s))}
         /\ Elements(Pictured(s)) \subseteq Media
<1>1. Pictured(s) \in Seq(Media)
  BY PicturedIsMedia, WorkbookIsSeq
<1> HIDE DEF Pictured
<1>2. DOMAIN Pictured(s) = 1..Len(Pictured(s)) /\ \A k \in 1..Len(Pictured(s)) : Pictured(s)[k] \in Media
  BY <1>1, LenProperties, ElementOfSeq
<1> QED BY <1>1, <1>2 DEF Elements

LEMMA SearchKeepsExcelInv ==
  ASSUME ExcelInv, SearchSheet
  PROVE  ExcelInv'
<1> DEFINE s == sheet
           new == Items(s)
<1>1. /\ s \in 1..Len(workbook) /\ Len(workbook) \in Nat /\ phase = "search"
      /\ found' = found \o new /\ sheet' = s + 1
      /\ UNCHANGED <<workbook, detected, phase, item, hashes, added>>
  BY WorkbookIsSeq DEF SearchSheet, ExcelInv, ExcelTyping, Searched
<1>2. Elements(Pictured(s)) = {Pictured(s)[k] : k \in 1..Len(Pictured(s))} /\ Pictured(s) \in Seq(Media)
  BY <1>1, ShownMedia DEF ExcelInv, ExcelTyping
<1>3. /\ new \in Seq(Finds) /\ Len(new) = Len(Pictured(s))
      /\ \A k \in 1..Len(new) : new[k] = [media |-> Pictured(s)[k], page |-> s]
  <2>1. Len(Pictured(s)) \in Nat /\ DOMAIN Pictured(s) = 1..Len(Pictured(s))
    BY <1>2, LenProperties
  <2>2. \A k \in 1..Len(Pictured(s)) : Pictured(s)[k] \in Media
    BY <1>2, ElementOfSeq
  <2>3. \A k \in 1..Len(Pictured(s)) : [media |-> Pictured(s)[k], page |-> s] \in Finds
    BY <1>1, <2>2 DEF Finds
  <2> QED BY <2>1, <2>3 DEF Items
<1> HIDE DEF new
<1>4. /\ found' \in Seq(Finds) /\ Len(found') = Len(found) + Len(new)
      /\ Len(found) \in Nat /\ Len(new) \in Nat
      /\ \A k \in 1..Len(found) : found'[k] = found[k]
      /\ \A k \in 1..Len(new) : found'[Len(found) + k] = new[k]
  <2>1. found \in Seq(Finds)
    BY DEF ExcelInv, ExcelTyping
  <2>2. found' = found \o new /\ new \in Seq(Finds)
    BY <1>1, <1>3
  <2>3. Len(found) \in Nat /\ Len(new) \in Nat
    BY <2>1, <2>2, LenProperties
  <2>4. /\ found' \in Seq(Finds) /\ Len(found') = Len(found) + Len(new)
        /\ \A i \in 1..Len(found) + Len(new) :
             found'[i] = IF i <= Len(found) THEN found[i] ELSE new[i - Len(found)]
    BY <2>1, <2>2, ConcatProperties
  <2>5. ASSUME NEW k \in 1..Len(new) PROVE found'[Len(found) + k] = new[k]
    <3>1. /\ Len(found) + k \in 1..Len(found) + Len(new) /\ ~(Len(found) + k <= Len(found))
          /\ (Len(found) + k) - Len(found) = k
      BY <2>3
    <3> QED BY <2>4, <3>1
  <2>6. ASSUME NEW k \in 1..Len(found) PROVE found'[k] = found[k]
    BY <2>3, <2>4
  <2> QED BY <2>3, <2>4, <2>5, <2>6
<1>5. ExcelTyping'
  <2>1. sheet' \in Nat
    BY <1>1
  <2> QED BY <1>1, <1>4, <2>1 DEF ExcelInv, ExcelTyping, Shown, OnPage, Pictured, Anchors
<1>6. FoundOn(found', Showing(s))
  <2>0. /\ FoundOn(found, Showing(s - 1)) /\ s \in Nat
        /\ DOMAIN Showing(s) = 1..s /\ DOMAIN Showing(s - 1) = 1..s - 1
        /\ \A q \in 1..s : Showing(s)[q] = Elements(Pictured(q))
        /\ \A q \in 1..s - 1 : Showing(s - 1)[q] = Elements(Pictured(q))
    BY <1>1 DEF ExcelInv, Searched, Showing
  <2>1. ASSUME NEW k \in 1..Len(found')
        PROVE  \E q \in 1..s : found'[k].page = q /\ found'[k].media \in Elements(Pictured(q))
    <3>1. CASE k <= Len(found)
      <4>1. k \in 1..Len(found) /\ found'[k] = found[k]
        BY <1>4, <3>1
      <4>2. PICK q \in 1..s - 1 : found[k].page = q /\ found[k].media \in Elements(Pictured(q))
        BY <2>0, <4>1 DEF FoundOn
      <4> QED BY <2>0, <4>1, <4>2
    <3>2. CASE ~(k <= Len(found))
      <4>1. PICK j \in 1..Len(new) : k = Len(found) + j
        <5>1. k - Len(found) \in 1..Len(new) /\ k = Len(found) + (k - Len(found))
          BY <1>4, <3>2
        <5> QED BY <5>1
      <4>2. found'[k] = [media |-> Pictured(s)[j], page |-> s]
        BY <1>3, <1>4, <4>1
      <4>3. found'[k].media \in Elements(Pictured(s)) /\ found'[k].page = s /\ s \in 1..s
        BY <1>2, <1>3, <2>0, <1>1, <4>1, <4>2
      <4> QED BY <4>3
    <3> QED BY <3>1, <3>2
  <2>2. ASSUME NEW q \in 1..s, NEW m \in Elements(Pictured(q))
        PROVE  \E k \in 1..Len(found') : found'[k].media = m
    <3>1. CASE q = s
      <4>1. PICK j \in 1..Len(new) : m = Pictured(s)[j]
        BY <1>2, <1>3, <3>1
      <4>2. Len(found) + j \in 1..Len(found')
        BY <1>4
      <4>3. found'[Len(found) + j].media = m
        <5>1. found'[Len(found) + j] = new[j]
          BY <1>4
        <5>2. new[j] = [media |-> m, page |-> s]
          BY <1>3, <4>1
        <5> QED BY <5>1, <5>2
      <4> QED BY <4>2, <4>3
    <3>2. CASE q # s
      <4>1. q \in 1..s - 1
        BY <2>0, <3>2
      <4>2. PICK j \in 1..Len(found) : found[j].media = m
        BY <2>0, <4>1 DEF FoundOn
      <4>3. j \in 1..Len(found') /\ found'[j].media = m
        BY <1>4, <4>2
      <4> QED BY <4>3
    <3> QED BY <3>1, <3>2
  <2> HIDE DEF s
  <2> QED BY <2>0, <2>1, <2>2 DEF FoundOn
<1>7. Searched'
  <2>1. \A q : Elements(Pictured(q))' = Elements(Pictured(q))
    BY <1>1 DEF Pictured, Anchors
  <2>2. sheet' - 1 = s /\ sheet' \in 1..Len(workbook) + 1
    BY <1>1
  <2>3. Showing(sheet - 1)' = Showing(s)
    BY <2>1, <2>2 DEF Showing
  <2>4. FoundOn(found, Showing(sheet - 1))'
    BY <1>6, <2>3 DEF FoundOn
  <2> QED BY <1>1, <2>2, <2>4 DEF Searched
<1>8. Compared'
  <2>1. item = 1 /\ added = <<>> /\ Len(added) = 0
    BY <1>1, EmptySeq DEF ExcelInv, Compared
  <2>2. hashes \subseteq KnownHashes /\ KnownHashes' = KnownHashes
    BY <1>1 DEF ExcelInv, Compared, KnownHashes
  <2>3. Len(found') \in Nat
    BY <1>4, LenProperties
  <2>4. item' \in 1..Len(found') + 1 /\ item' = 1 /\ Len(added') = 0 /\ added' = <<>>
    BY <1>1, <2>1, <2>3
  <2>5. hashes' \subseteq KnownHashes'
    BY <1>1, <2>2
  <2> HIDE DEF KnownHashes
  <2> QED BY <1>1, <2>4, <2>5 DEF Compared
<1> QED BY <1>5, <1>7, <1>8 DEF ExcelInv

(* Every other step of the search and the comparison.                             *)
LEMMA FoundStays ==
  ASSUME ExcelInv, UNCHANGED <<workbook, detected, sheet, found>>,
         phase' # "search" => sheet > Len(workbook) \/ workbook[sheet].state = "broken"
  PROVE  /\ Searched'
         /\ added' \in Seq(Finds) /\ item' \in Nat => ExcelTyping'
<1>1. \A q : Elements(Pictured(q))' = Elements(Pictured(q))
  BY DEF Pictured, Anchors
<1>2. Showing(sheet - 1)' = Showing(sheet - 1)
  BY <1>1 DEF Showing
<1>3. FoundOn(found, Showing(sheet - 1))'
  BY <1>2 DEF FoundOn, ExcelInv, Searched
<1>4. Searched'
  BY <1>3 DEF ExcelInv, Searched
<1>5. ASSUME added' \in Seq(Finds), item' \in Nat PROVE ExcelTyping'
  BY <1>5 DEF ExcelInv, ExcelTyping, Shown, OnPage, Pictured, Anchors
<1> QED BY <1>4, <1>5

LEMMA AddKeepsExcelInv ==
  ASSUME ExcelInv, Add
  PROVE  ExcelInv'
<1>1. /\ item \in 1..Len(found) /\ Len(found) \in Nat /\ phase = "adding"
      /\ added' = Append(added, found[item]) /\ item' = item + 1
      /\ hashes' = hashes \cup {Hash(found[item].media)}
      /\ UNCHANGED <<workbook, detected, phase, sheet, found>>
  BY LenProperties DEF Add, AtItem, Medium, ExcelInv, ExcelTyping, Compared
<1>2. /\ found \in Seq(Finds) /\ added \in Seq(Finds) /\ found[item] \in Finds
      /\ Len(added) \in Nat
  BY <1>1, ElementOfSeq, LenProperties DEF ExcelInv, ExcelTyping
<1>3. /\ added' \in Seq(Finds) /\ Len(added') = Len(added) + 1
      /\ added'[Len(added) + 1] = found[item]
      /\ \A k \in 1..Len(added) : added'[k] = added[k]
  BY <1>1, <1>2, AppendProperties
<1>4. Searched' /\ ExcelTyping'
  <2>1. phase' # "search" => sheet > Len(workbook) \/ workbook[sheet].state = "broken"
    BY <1>1 DEF ExcelInv, Searched
  <2>2. item' \in Nat
    BY <1>1
  <2>3. UNCHANGED <<workbook, detected, sheet, found>>
    BY <1>1
  <2> QED BY <1>3, <2>1, <2>2, <2>3, FoundStays
<1>5. Compared'
  <2>1. ASSUME NEW k \in 1..Len(added') PROVE \E j \in 1..Len(found) : added'[k] = found[j]
    <3>1. k = Len(added) + 1 \/ k \in 1..Len(added)
      BY <1>2, <1>3
    <3>2. CASE k = Len(added) + 1
      BY <1>1, <1>3, <3>2
    <3>3. CASE k \in 1..Len(added)
      BY <1>3, <3>3 DEF ExcelInv, Compared
    <3> QED BY <3>1, <3>2, <3>3
  <2>2. hashes' \subseteq KnownHashes'
    <3>1. KnownHashes \subseteq KnownHashes'
      <4>1. ASSUME NEW k \in 1..Len(added)
            PROVE  k \in 1..Len(added') /\ Hash(added[k].media) = Hash(added'[k].media)
        BY <1>2, <1>3
      <4> QED BY <1>1, <4>1 DEF KnownHashes
    <3>2. Hash(found[item].media) \in KnownHashes'
      <4>1. Len(added) + 1 \in 1..Len(added') /\ added'[Len(added) + 1].media = found[item].media
        BY <1>2, <1>3
      <4> QED BY <4>1 DEF KnownHashes
    <3> QED BY <1>1, <3>1, <3>2 DEF ExcelInv, Compared
  <2>3. ASSUME NEW k \in 1..item' - 1, found[k].media.quality = "good"
        PROVE  Hash(found[k].media) \in hashes'
    <3>1. k = item \/ k \in 1..item - 1
      BY <1>1
    <3>2. CASE k = item
      BY <1>1, <3>2
    <3>3. CASE k \in 1..item - 1
      BY <1>1, <2>3, <3>3 DEF ExcelInv, Compared
    <3> QED BY <3>1, <3>2, <3>3
  <2>4. item' \in 1..Len(found) + 1
    BY <1>1
  <2> HIDE DEF KnownHashes
  <2> QED BY <1>1, <2>1, <2>2, <2>3, <2>4 DEF Compared
<1> QED BY <1>4, <1>5 DEF ExcelInv

LEMMA ExcelStep ==
  ASSUME ExcelInv, EnrichStep
  PROVE  ExcelInv'
<1>0. /\ found \in Seq(Finds) /\ added \in Seq(Finds) /\ Len(found) \in Nat
      /\ item \in 1..Len(found) + 1 /\ sheet \in Nat /\ Len(workbook) \in Nat
  BY LenProperties, WorkbookIsSeq DEF ExcelInv, ExcelTyping, Compared
<1> DEFINE Quiet == UNCHANGED <<workbook, detected, sheet, found, added>>
<1>1. ASSUME Quiet, item' \in Nat,
             phase' # "search" => sheet > Len(workbook) \/ workbook[sheet].state = "broken"
      PROVE  Searched' /\ ExcelTyping'
  <2>1. UNCHANGED <<workbook, detected, sheet, found>> /\ added' \in Seq(Finds)
    BY <1>0, <1>1
  <2> QED BY <1>1, <2>1, FoundStays
<1>2. ASSUME Quiet PROVE KnownHashes' = KnownHashes
  BY <1>2 DEF KnownHashes
<1>3. CASE SearchSheet
  BY <1>3, SearchKeepsExcelInv
<1>4. CASE SearchFails \/ SearchEnds
  <2>1. Quiet /\ UNCHANGED <<item, hashes>> /\ phase = "search" /\ phase' = "searched"
    BY <1>4 DEF SearchFails, SearchEnds
  <2>2. sheet > Len(workbook) \/ workbook[sheet].state = "broken"
    BY <1>4 DEF SearchFails, SearchEnds
  <2>3. Compared'
    <3>1. KnownHashes' = KnownHashes
      BY <1>2, <2>1
    <3> HIDE DEF KnownHashes
    <3> QED BY <2>1, <3>1 DEF ExcelInv, Compared
  <2> QED BY <1>0, <1>1, <2>1, <2>2, <2>3 DEF ExcelInv
<1>5. CASE HashDetected
  <2>1. Quiet /\ item' = item /\ phase = "searched" /\ phase' = "adding"
        /\ hashes' = {<<p.image, "png">> : p \in detected}
    BY <1>5 DEF HashDetected
  <2>2. hashes' \subseteq KnownHashes'
    BY <2>1 DEF KnownHashes
  <2>3. Compared'
    <3>1. item = 1 /\ 1..item - 1 = {}
      BY <2>1 DEF ExcelInv, Compared
    <3> HIDE DEF KnownHashes
    <3> QED BY <2>1, <2>2, <3>1 DEF ExcelInv, Compared
  <2> QED BY <1>0, <1>1, <2>1, <2>3 DEF ExcelInv, Searched
<1>6. CASE HashRaises \/ NothingFound \/ AddRaises \/ AllAdded
  <2>1. Quiet /\ UNCHANGED <<item, hashes>> /\ phase # "search" /\ phase' \in {"stopped", "enriched"}
    BY <1>6 DEF HashRaises, NothingFound, AddRaises, AllAdded, AtItem
  <2>2. phase' = "enriched" => item > Len(found)
    <3>1. NothingFound => item > Len(found)
      <4>1. NothingFound => item = 1 /\ Len(found) = 0
        BY EmptySeq DEF NothingFound, ExcelInv, Compared
      <4> QED BY <4>1
    <3> QED BY <1>6, <3>1 DEF HashRaises, AddRaises, AllAdded
  <2>3. Compared'
    <3>1. KnownHashes' = KnownHashes
      BY <1>2, <2>1
    <3> HIDE DEF KnownHashes
    <3> QED BY <2>1, <2>2, <3>1 DEF ExcelInv, Compared
  <2> QED BY <1>0, <1>1, <2>1, <2>3 DEF ExcelInv, Searched
<1>7. CASE Skip
  <2>1. /\ Quiet /\ hashes' = hashes /\ phase = "adding" /\ phase' = phase
        /\ item' = item + 1 /\ item \in 1..Len(found)
        /\ Opens(found[item].media) => Hash(found[item].media) \in hashes
    BY <1>0, <1>7 DEF Skip, AtItem, Medium
  <2>2. ASSUME NEW k \in 1..item' - 1, found[k].media.quality = "good"
        PROVE  Hash(found[k].media) \in hashes'
    <3>1. k = item \/ k \in 1..item - 1
      BY <2>1
    <3>2. CASE k = item
      BY <2>1, <2>2, <3>2 DEF Opens
    <3>3. CASE k \in 1..item - 1
      BY <2>1, <2>2, <3>3 DEF ExcelInv, Compared
    <3> QED BY <3>1, <3>2, <3>3
  <2>3. Compared'
    <3>1. KnownHashes' = KnownHashes
      BY <1>2, <2>1
    <3>2. item' \in 1..Len(found) + 1
      BY <1>0, <2>1
    <3> HIDE DEF KnownHashes
    <3> QED BY <2>1, <2>2, <3>1, <3>2 DEF ExcelInv, Compared
  <2>4. item' \in Nat
    BY <2>1
  <2> QED BY <1>1, <2>1, <2>3, <2>4 DEF ExcelInv, Searched
<1>8. CASE Add
  BY <1>8, AddKeepsExcelInv
<1> QED BY <1>3, <1>4, <1>5, <1>6, <1>7, <1>8 DEF EnrichStep

LEMMA ExcelInit ==
  ASSUME Init
  PROVE  ExcelInv
<1>1. /\ found = <<>> /\ Len(found) = 0 /\ added = <<>> /\ Len(added) = 0
      /\ found \in Seq(Finds) /\ added \in Seq(Finds)
  BY EmptySeq DEF Init
<1>2. sheet = 1 /\ item = 1 /\ phase = "search" /\ hashes = {} /\ workbook \in Workbooks
  BY DEF Init
<1>3. detected \subseteq {p \in Shown : OnPage(p)}
  BY DEF Init
<1>4. ExcelTyping
  BY <1>1, <1>2, <1>3 DEF ExcelTyping
<1>5. Searched
  <2>1. sheet \in 1..Len(workbook) + 1
    BY <1>2, WorkbookIsSeq
  <2>2. DOMAIN Showing(sheet - 1) = {}
    BY <1>2 DEF Showing
  <2>3. FoundOn(found, Showing(sheet - 1))
    BY <1>1, <2>2 DEF FoundOn
  <2> QED BY <1>2, <2>1, <2>3 DEF Searched
<1>6. Compared
  BY <1>1, <1>2 DEF Compared
<1> QED BY <1>4, <1>5, <1>6 DEF ExcelInv

-----------------------------------------------------------------------------
(* The items of the document: docling's, then the pictures added to them.         *)
Detections ==
  /\ body \in Bodies /\ use \in Uses
  /\ workbook # <<>> => \A k \in DOMAIN body : body[k].page \in DOMAIN workbook
  /\ workbook # <<>> => detected = {[image |-> body[k].image, page |-> body[k].page] :
                                       k \in {j \in DOMAIN body : body[j].kind \in PictureKinds}}

LEMMA BodyIsSeq ==
  ASSUME body \in Bodies
  PROVE  /\ body \in Seq(Elements(body)) /\ Len(body) \in Nat /\ DOMAIN body = 1..Len(body)
         /\ \A k \in 1..Len(body) : body[k].page \in Nat
<1>1. body \in Seq(Elements(body)) /\ \A k \in DOMAIN body : body[k].page \in Nat
  BY DocumentParameters
<1> QED BY <1>1, LenProperties

LEMMA ContentsParts ==
  ASSUME body \in Bodies, added \in Seq(Finds)
  PROVE  /\ Len(body) \in Nat /\ Len(added) \in Nat /\ Len(Contents) = Len(body) + Len(added)
         /\ DOMAIN Contents = 1..Len(Contents)
         /\ \A i \in 1..Len(body) : Contents[i] = body[i]
         /\ \A k \in 1..Len(added) : Contents[Len(body) + k] = Recovered(k)
         /\ \A i \in 1..Len(Contents) : Contents[i].page \in Nat
<1> DEFINE more == [k \in DOMAIN added |-> Recovered(k)]
           S == Elements(body) \cup {Recovered(k) : k \in DOMAIN added}
<1>1. /\ Len(body) \in Nat /\ DOMAIN body = 1..Len(body) /\ Len(added) \in Nat
      /\ DOMAIN added = 1..Len(added)
  BY BodyIsSeq, LenProperties
<1>2. more \in Seq(S) /\ Len(more) = Len(added) /\ \A k \in 1..Len(added) : more[k] = Recovered(k)
  BY <1>1
<1>3. body \in Seq(S)
  <2>1. body \in Seq(Elements(body)) /\ Elements(body) \subseteq S
    BY BodyIsSeq
  <2> HIDE DEF S
  <2> QED BY <2>1, SeqMonotonic
<1>4. Contents = body \o more
  BY DEF Contents
<1> HIDE DEF more, S
<1>5. /\ Contents \in Seq(S) /\ Len(Contents) = Len(body) + Len(added)
      /\ \A i \in 1..Len(body) + Len(added) :
           Contents[i] = IF i <= Len(body) THEN body[i] ELSE more[i - Len(body)]
  <2>1. /\ body \o more \in Seq(S) /\ Len(body \o more) = Len(body) + Len(more)
        /\ \A i \in 1..Len(body) + Len(more) :
             (body \o more)[i] = IF i <= Len(body) THEN body[i] ELSE more[i - Len(body)]
    BY <1>2, <1>3, ConcatProperties
  <2>2. Len(more) = Len(added)
    BY <1>2
  <2> QED BY <1>4, <2>1, <2>2
<1>6. DOMAIN Contents = 1..Len(Contents)
  BY <1>5, LenProperties
<1>7. ASSUME NEW i \in 1..Len(body) PROVE Contents[i] = body[i]
  BY <1>1, <1>5
<1>8. ASSUME NEW k \in 1..Len(added) PROVE Contents[Len(body) + k] = Recovered(k)
  <2>1. /\ Len(body) + k \in 1..Len(body) + Len(added) /\ ~(Len(body) + k <= Len(body))
        /\ (Len(body) + k) - Len(body) = k
    BY <1>1
  <2> QED BY <1>2, <1>5, <2>1
<1>9. ASSUME NEW i \in 1..Len(Contents) PROVE Contents[i].page \in Nat
  <2>1. CASE i <= Len(body)
    BY <1>1, <1>5, <1>7, <2>1, BodyIsSeq
  <2>2. CASE ~(i <= Len(body))
    <3>1. PICK k \in 1..Len(added) : i = Len(body) + k
      <4>1. i - Len(body) \in 1..Len(added) /\ i = Len(body) + (i - Len(body))
        BY <1>1, <1>5, <2>2
      <4> QED BY <4>1
    <3>2. added[k] \in Finds
      BY ElementOfSeq
    <3>3. Contents[i].page = added[k].page
      <4>1. Contents[i] = Recovered(k)
        BY <1>8, <3>1
      <4>2. Recovered(k).page = added[k].page
        BY DEF Recovered
      <4> QED BY <4>1, <4>2
    <3> QED BY <3>2, <3>3 DEF Finds
  <2> QED BY <2>1, <2>2
<1> QED BY <1>1, <1>5, <1>6, <1>7, <1>8, <1>9

Counted(i) == {j \in Pictures : j <= i}

LEMMA NamesAreTheirOwn ==
  ASSUME body \in Bodies, added \in Seq(Finds)
  PROVE  /\ \A i \in Pictures : Name(i) \in Nat \X Nat
         /\ \A i, j \in Pictures : Name(i) = Name(j) => i = j
<1>0. /\ Len(Contents) \in Nat /\ Pictures \subseteq 1..Len(Contents)
      /\ \A i \in Pictures : Contents[i].page \in Nat
  BY ContentsParts DEF Pictures
<1> DEFINE n == Len(Contents)
<1> HIDE DEF n
<1>0a. n \in Nat /\ Pictures \subseteq 1..n
  BY <1>0 DEF n
<1>1. IsFiniteSet(Pictures)
  <2>1. IsFiniteSet(1..n)
    BY <1>0a, FS_Interval
  <2> QED BY <1>0a, <2>1, FS_Subset
<1>2. \A i \in Pictures : IsFiniteSet(Counted(i)) /\ Cardinality(Counted(i)) \in Nat
  <2>1. \A i : Counted(i) \subseteq Pictures
    BY DEF Counted
  <2> QED BY <1>1, <2>1, FS_Subset, FS_CardinalityType
<1>3. ASSUME NEW i \in Pictures, NEW j \in Pictures, i < j
      PROVE  Cardinality(Counted(i)) # Cardinality(Counted(j))
  <2>1. Counted(i) \subseteq Counted(j) /\ j \in Counted(j) /\ j \notin Counted(i)
    <3>1. i \in 1..n /\ j \in 1..n /\ ~(j <= i) /\ j <= j
      BY <1>0a, <1>3
    <3>2. \A x \in Pictures : x <= i => x <= j
      <4>1. ASSUME NEW x \in Pictures, x <= i PROVE x <= j
        <5>1. x \in 1..n
          BY <1>0a
        <5> QED BY <1>0a, <1>3, <3>1, <4>1, <5>1
      <4> QED BY <4>1
    <3> QED BY <3>1, <3>2 DEF Counted
  <2>2. Counted(i) # Counted(j)
    BY <2>1
  <2> QED BY <1>2, <2>1, <2>2, FS_Subset
<1>4. ASSUME NEW i \in Pictures
      PROVE  /\ Name(i) \in Nat \X Nat
             /\ Name(i)[2] = Cardinality(Counted(i))
  <2>1. (IF Contents[i].page = 0 THEN 1 ELSE Contents[i].page) \in Nat
    BY <1>0
  <2>2. Name(i) = <<IF Contents[i].page = 0 THEN 1 ELSE Contents[i].page, Cardinality(Counted(i))>>
    BY DEF Name, Counted
  <2> QED BY <1>2, <2>1, <2>2
<1>5. ASSUME NEW i \in Pictures, NEW j \in Pictures, Name(i) = Name(j)
      PROVE  i = j
  <2>1. Cardinality(Counted(i)) = Cardinality(Counted(j))
    BY <1>4, <1>5
  <2>2. ~(i < j) /\ ~(j < i)
    BY <1>3, <2>1
  <2> QED BY <1>0a, <2>2
<1> QED BY <1>4, <1>5

-----------------------------------------------------------------------------
(* The stages before the first and after the last element of the text.            *)
Unwritten == stage = "enriching" \/ (stage = "images" /\ use.caller = "assets")
Assembled == stage \in {"writing", "done", "failed"} \/ (stage = "images" /\ use.caller = "save")

PartSets == SUBSET {"text", "math", "comment", "gfm", "html", "captions"}
Parts ==
  {<<"matter">>, <<"keys">>} \cup {Marker(n) : n \in Nat}
    \cup {<<"item", i, parts>> : i \in Nat, parts \in PartSets}
    \cup {<<"link", i, n>> : i \in Nat, n \in Nat \X Nat}

DocTyping ==
  /\ Detections
  /\ stage \in {"enriching", "images", "serializing", "writing", "done", "failed"}
  /\ stage = "images" => use.caller \in {"save", "assets"}
  /\ stage = "writing" => use.caller = "save"
  /\ text \in Seq(Parts) /\ page \in Nat /\ at \in 1..Len(Contents) + 1
  /\ Unwritten => text = <<>> /\ at = 1 /\ page = 0
  /\ Assembled => at = Len(Contents) + 1
  /\ stage = "enriching" => saved = {}

Fixed == UNCHANGED <<vars, body, use>>

(* What is left out of the text, what is linked, and what is whole.                *)
Seen(c, i) == c[i].kind # "hidden"
Gone(x, html) ==
  x.kind \in {"nothing", "hidden"} \/ (html /\ x.kind = "blank" /\ ~x.captioned)
Coming == {i \in DOMAIN Contents : ~Gone(Contents[i], use.html)}
Linkable == {i \in Pictures : Seen(Contents, i)}
Whole(x, parts, html) ==
  x.kind \in Tables =>
    /\ x.captioned => "captions" \in parts
    /\ parts \cap {"gfm", "html"} # {} \/ (html /\ x.kind = "blank")

LEMMA FixedContents ==
  ASSUME Fixed
  PROVE  /\ Contents' = Contents /\ Pictures' = Pictures
         /\ Coming' = Coming /\ Linkable' = Linkable
         /\ \A i : Name(i)' = Name(i)
<1>1. Contents' = Contents /\ use' = use
  BY DEF Fixed, vars, Contents, Recovered
<1>2. Pictures' = Pictures
  BY <1>1 DEF Pictures
<1>3. Coming' = Coming /\ Linkable' = Linkable
  BY <1>1, <1>2 DEF Coming, Linkable
<1>4. \A i : Name(i)' = Name(i)
  BY <1>1, <1>2 DEF Name
<1> QED BY <1>1, <1>2, <1>3, <1>4

Still ==
  /\ Fixed /\ UNCHANGED <<text, at, page>>
  /\ Assembled' <=> Assembled
  /\ Unwritten' => Unwritten

(* What the serializers do with an item.                                          *)
Emission ==
  /\ stage = "serializing" /\ at \in 1..Len(Contents)
  /\ Seen(Contents, at) => Contents[at].page <= page
  /\ at' = at + 1 /\ Fixed /\ UNCHANGED <<stage, page, saved>>
  /\ \/ text' = text /\ at \notin Coming /\ at \notin Linkable
     \/ /\ Seen(Contents, at) /\ at \notin Linkable
        /\ \E parts \in PartSets : /\ text' = Append(text, <<"item", at, parts>>)
                                   /\ Whole(Contents[at], parts, use.html)
     \/ at \in Linkable /\ text' = Append(text, <<"link", at, Name(at)>>)

Serialize ==
  \/ SerializeText \/ SerializeFormula \/ SkipFormula \/ SkipHidden
  \/ SerializeTable \/ SerializeMerged \/ ExportRaises \/ ExportIsEmpty \/ SerializePicture

DocInv0 == ExcelInv /\ DocTyping

LEMMA StateFacts ==
  ASSUME DocInv0
  PROVE  /\ body \in Bodies /\ added \in Seq(Finds) /\ Len(Contents) \in Nat
         /\ text \in Seq(Parts) /\ Len(text) \in Nat /\ at \in 1..Len(Contents) + 1
         /\ \A k \in 1..Len(text) : text[k] \in Parts
         /\ DOMAIN text = 1..Len(text) /\ DOMAIN Contents = 1..Len(Contents)
         /\ \A i \in 1..Len(Contents) : Contents[i].page \in Nat
<1>1. /\ body \in Bodies /\ added \in Seq(Finds) /\ text \in Seq(Parts)
      /\ at \in 1..Len(Contents) + 1
  BY DEF DocInv0, ExcelInv, ExcelTyping, DocTyping, Detections
<1>2. Len(text) \in Nat /\ DOMAIN text = 1..Len(text) /\ \A k \in 1..Len(text) : text[k] \in Parts
  BY <1>1, LenProperties, ElementOfSeq
<1>3. /\ Len(Contents) \in Nat /\ DOMAIN Contents = 1..Len(Contents)
      /\ \A i \in 1..Len(Contents) : Contents[i].page \in Nat
  BY <1>1, ContentsParts
<1> QED BY <1>1, <1>2, <1>3

LEMMA SerializeEmits ==
  ASSUME DocInv0, Serialize
  PROVE  Emission
<1>0. /\ text \in Seq(Parts) /\ Len(Contents) \in Nat /\ at \in 1..Len(Contents) + 1
      /\ page \in Nat /\ DOMAIN Contents = 1..Len(Contents)
      /\ \A i \in 1..Len(Contents) : Contents[i].page \in Nat
  BY StateFacts DEF DocInv0, DocTyping
<1> DEFINE Ready == /\ stage = "serializing" /\ at \in 1..Len(Contents)
                    /\ Seen(Contents, at) => Contents[at].page <= page
           Moves == at' = at + 1 /\ Fixed /\ UNCHANGED <<stage, page, saved>>
<1>1. ASSUME NEW kinds, Is(kinds) PROVE Ready /\ Contents[at].kind \in kinds
  <2>1. /\ stage = "serializing" /\ at <= Len(Contents) /\ Contents[at].kind \in kinds
        /\ Seen(Contents, at) => ~(Contents[at].page > page)
    BY <1>1 DEF Is, Serializing, NewPage, Seen
  <2>2. at \in 1..Len(Contents)
    BY <1>0, <2>1
  <2> QED BY <1>0, <2>1, <2>2
<1>2. ASSUME NEW es, Emits(es) PROVE Moves /\ text' = text \o es
  BY <1>2 DEF Emits, Fixed
<1> DEFINE New(parts) == IF parts = {} THEN <<>> ELSE <<<<"item", at, parts>>>>
<1>3. ASSUME NEW kinds, NEW parts \in PartSets, Gives(kinds, parts)
      PROVE  /\ Ready /\ Moves /\ Contents[at].kind \in kinds
             /\ text' = IF parts = {} THEN text ELSE Append(text, <<"item", at, parts>>)
  <2>1. Is(kinds) /\ Emits(New(parts))
    BY <1>3 DEF Gives
  <2>2. Ready /\ Contents[at].kind \in kinds
    BY <1>1, <2>1
  <2>3. Moves /\ text' = text \o New(parts)
    <3> HIDE DEF New, Moves
    <3> QED BY <1>2, <2>1
  <2>4. <<"item", at, parts>> \in Parts
    BY <1>0 DEF Parts
  <2>5. text \o <<<<"item", at, parts>>>> = Append(text, <<"item", at, parts>>)
    BY <1>0, <2>4, AppendIsConcat
  <2>6. text \o <<>> = text
    BY <1>0, ConcatEmptySeq
  <2> HIDE DEF Ready, Moves
  <2>7. CASE parts = {}
    BY <2>2, <2>3, <2>6, <2>7
  <2>8. CASE parts # {}
    BY <2>2, <2>3, <2>5, <2>8
  <2> QED BY <2>7, <2>8
<1>4. ASSUME NEW kinds, NEW parts \in PartSets, Gives(kinds, parts), parts # {},
             kinds \cap PictureKinds = {},
             Contents[at].kind \in kinds => Whole(Contents[at], parts, use.html)
      PROVE  Emission
  <2>1. /\ Ready /\ Moves /\ Contents[at].kind \in kinds
        /\ text' = Append(text, <<"item", at, parts>>)
    BY <1>3, <1>4
  <2>2. Seen(Contents, at) /\ at \notin Linkable
    BY <1>4, <2>1 DEF Seen, Linkable, Pictures, PictureKinds
  <2> QED BY <1>4, <2>1, <2>2 DEF Emission
<1>5. ASSUME NEW kinds, Gives(kinds, {}), "picture" \notin kinds,
             Contents[at].kind \in kinds => Gone(Contents[at], use.html)
      PROVE  Emission
  <2>1. Ready /\ Moves /\ Contents[at].kind \in kinds /\ text' = text
    BY <1>3, <1>5 DEF PartSets
  <2>2. at \notin Linkable /\ at \notin Coming
    BY <1>5, <2>1 DEF Linkable, Seen, Pictures, PictureKinds, Coming
  <2> QED BY <2>1, <2>2 DEF Emission
<1>6. CASE SerializeText
  BY <1>4, <1>6 DEF SerializeText, PartSets, PictureKinds, Whole, Tables
<1>7. CASE SerializeFormula
  BY <1>4, <1>7 DEF SerializeFormula, PartSets, PictureKinds, Whole, Tables
<1>8. CASE SkipFormula
  BY <1>5, <1>8 DEF SkipFormula, Gone
<1>9. CASE SkipHidden
  BY <1>5, <1>9 DEF SkipHidden, Gone
<1>10. Captions \in PartSets /\ \A p \in {"gfm", "html"} : Captions \cup {p} \in PartSets
  BY DEF Captions, PartSets
<1>11. Contents[at].captioned => "captions" \in Captions
  BY DEF Captions
<1>12. ASSUME NEW kinds, kinds \subseteq Tables, NEW p \in {"gfm", "html"},
              Gives(kinds, Captions \cup {p})
       PROVE  Emission
  <2>1. kinds \cap PictureKinds = {}
    BY <1>12 DEF Tables, PictureKinds
  <2>2. Whole(Contents[at], Captions \cup {p}, use.html)
    BY <1>11, <1>12 DEF Whole
  <2> QED BY <1>4, <1>10, <1>12, <2>1, <2>2
<1>13. CASE SerializeTable
  <2>1. Gives(IF use.html THEN {"table"} ELSE Tables, Captions \cup {"gfm"})
    BY <1>13 DEF SerializeTable
  <2>2. (IF use.html THEN {"table"} ELSE Tables) \subseteq Tables
    BY DEF Tables
  <2> QED BY <1>12, <2>1, <2>2
<1>14. CASE SerializeMerged
  <2>1. Gives({"merged"}, Captions \cup {"html"}) /\ {"merged"} \subseteq Tables
    BY <1>14 DEF SerializeMerged, Tables
  <2> QED BY <1>12, <2>1
<1>15. CASE ExportRaises
  <2>1. Gives({"failing"}, Captions \cup {"gfm"}) /\ {"failing"} \subseteq Tables
    BY <1>15 DEF ExportRaises, Tables
  <2> QED BY <1>12, <2>1
<1>16. CASE ExportIsEmpty
  <2>1. use.html /\ Gives({"blank"}, Captions)
    BY <1>16 DEF ExportIsEmpty
  <2>2. CASE Contents[at].captioned
    <3>1. Captions # {} /\ {"blank"} \cap PictureKinds = {}
      BY <2>2 DEF Captions, PictureKinds
    <3>2. Contents[at].kind \in {"blank"} => Whole(Contents[at], Captions, use.html)
      BY <1>11, <2>1 DEF Whole
    <3> QED BY <1>4, <1>10, <2>1, <3>1, <3>2
  <2>3. CASE ~Contents[at].captioned
    <3>1. Captions = {} /\ "picture" \notin {"blank"}
      BY <2>3 DEF Captions
    <3>2. Contents[at].kind \in {"blank"} => Gone(Contents[at], use.html)
      BY <2>1, <2>3 DEF Gone
    <3>3. Gives({"blank"}, {})
      BY <2>1, <3>1
    <3> QED BY <1>5, <3>1, <3>2, <3>3
  <2> QED BY <2>2, <2>3
<1>17. CASE SerializePicture
  <2>1. Ready /\ Moves /\ Contents[at].kind = "picture" /\ text' = text \o <<<<"link", at, Name(at)>>>>
    <3>1. Is({"picture"}) /\ Emits(<<<<"link", at, Name(at)>>>>)
      BY <1>17 DEF SerializePicture
    <3>2. Ready /\ Contents[at].kind \in {"picture"}
      BY <1>1, <3>1
    <3>3. Moves /\ text' = text \o <<<<"link", at, Name(at)>>>>
      BY <1>2, <3>1
    <3> QED BY <3>2, <3>3
  <2>2. at \in Pictures /\ at \in Linkable
    BY <1>0, <2>1 DEF Pictures, PictureKinds, Linkable, Seen
  <2>3. <<"link", at, Name(at)>> \in Parts
    <3>1. Name(at) \in Nat \X Nat
      BY <2>2, StateFacts, NamesAreTheirOwn
    <3> QED BY <1>0, <3>1 DEF Parts
  <2>4. text' = Append(text, <<"link", at, Name(at)>>)
    BY <1>0, <2>1, <2>3, AppendIsConcat
  <2> QED BY <2>1, <2>2, <2>4 DEF Emission
<1> QED BY <1>6, <1>7, <1>8, <1>9, <1>13, <1>14, <1>15, <1>16, <1>17 DEF Serialize

-----------------------------------------------------------------------------
(* Texts that grow at an end.                                                     *)
LEMMA GrowsBehind ==
  ASSUME NEW t \in Seq(Parts), NEW e \in Parts, NEW u, u = Append(t, e)
  PROVE  /\ u \in Seq(Parts) /\ Len(t) \in Nat /\ Len(u) = Len(t) + 1
         /\ u[Len(t) + 1] = e /\ \A k \in 1..Len(t) : u[k] = t[k]
BY AppendProperties, LenProperties

LEMMA GrowsInFront ==
  ASSUME NEW t \in Seq(Parts), NEW e \in Parts, NEW u, u = <<e>> \o t
  PROVE  /\ u \in Seq(Parts) /\ Len(t) \in Nat /\ Len(u) = Len(t) + 1
         /\ u[1] = e /\ \A k \in 1..Len(t) : u[k + 1] = t[k]
<1>1. <<e>> \in Seq(Parts) /\ Len(<<e>>) = 1 /\ <<e>>[1] = e
  OBVIOUS
<1> DEFINE o == <<e>>
<1>2. o \in Seq(Parts) /\ Len(o) = 1 /\ o[1] = e /\ u = o \o t
  BY <1>1
<1> HIDE DEF o
<1>3. /\ u \in Seq(Parts) /\ Len(u) = Len(o) + Len(t)
      /\ \A i \in 1..Len(o) + Len(t) : u[i] = IF i <= Len(o) THEN o[i] ELSE t[i - Len(o)]
  BY <1>2, ConcatProperties
<1>4. Len(t) \in Nat
  BY LenProperties
<1>5. ASSUME NEW k \in 1..Len(t) PROVE u[k + 1] = t[k]
  <2>1. k + 1 \in 1..Len(o) + Len(t) /\ ~(k + 1 <= Len(o)) /\ (k + 1) - Len(o) = k
    BY <1>2, <1>4
  <2> QED BY <1>3, <2>1
<1>6. u[1] = e
  BY <1>2, <1>3, <1>4
<1> QED BY <1>2, <1>3, <1>4, <1>5, <1>6

(* u is t with other elements at its ends; d of them in front.                    *)
Within(t, u, d) ==
  /\ \A k \in 1..Len(t) : k + d \in 1..Len(u) /\ u[k + d] = t[k]
  /\ \A k \in 1..Len(u) : k - d \in 1..Len(t) \/ u[k][1] \notin {"item", "link"}

Plain(e) == e \in Parts /\ e[1] \notin {"item", "link"}

LEMMA BehindIsWithin ==
  ASSUME NEW t \in Seq(Parts), NEW e, Plain(e)
  PROVE  Within(t, Append(t, e), 0)
<1> DEFINE u == Append(t, e)
<1>1. /\ Len(t) \in Nat /\ Len(u) = Len(t) + 1
      /\ u[Len(t) + 1] = e /\ \A k \in 1..Len(t) : u[k] = t[k]
  BY GrowsBehind DEF Plain
<1> HIDE DEF u
<1>2. \A k \in 1..Len(t) : k + 0 \in 1..Len(u) /\ u[k + 0] = t[k]
  BY <1>1
<1>3. ASSUME NEW k \in 1..Len(u), ~(k - 0 \in 1..Len(t)) PROVE u[k][1] \notin {"item", "link"}
  <2>1. k = Len(t) + 1
    BY <1>1, <1>3
  <2> QED BY <1>1, <2>1 DEF Plain
<1>4. Within(t, u, 0)
  BY <1>2, <1>3 DEF Within
<1> QED BY <1>4 DEF u

LEMMA InFrontIsWithin ==
  ASSUME NEW t \in Seq(Parts), NEW e, Plain(e)
  PROVE  Within(t, <<e>> \o t, 1)
<1> DEFINE u == <<e>> \o t
<1>1. /\ Len(t) \in Nat /\ Len(u) = Len(t) + 1
      /\ u[1] = e /\ \A k \in 1..Len(t) : u[k + 1] = t[k]
  BY GrowsInFront DEF Plain
<1> HIDE DEF u
<1>2. \A k \in 1..Len(t) : k + 1 \in 1..Len(u) /\ u[k + 1] = t[k]
  BY <1>1
<1>3. ASSUME NEW k \in 1..Len(u), ~(k - 1 \in 1..Len(t)) PROVE u[k][1] \notin {"item", "link"}
  <2>1. k = 1
    BY <1>1, <1>3
  <2> QED BY <1>1, <2>1 DEF Plain
<1>4. Within(t, u, 1)
  BY <1>2, <1>3 DEF Within
<1> QED BY <1>4 DEF u

-----------------------------------------------------------------------------
(* Of the first n - 1 items those of c are in t, in order.                         *)
Renders(e) == e[1] \in {"item", "link"}
InOrder(t, c, n) ==
  /\ \A k \in 1..Len(t) : Renders(t[k]) => t[k][2] \in 1..n - 1
  /\ \A i \in 1..n - 1 : i \in c => \E k \in 1..Len(t) : Renders(t[k]) /\ t[k][2] = i
  /\ \A j, k \in 1..Len(t) : j < k /\ Renders(t[j]) /\ Renders(t[k]) => t[j][2] < t[k][2]

LEMMA InOrderWithin ==
  ASSUME NEW t, NEW u, NEW c, NEW n, NEW d \in Int, Len(t) \in Nat, Len(u) \in Nat,
         Within(t, u, d), InOrder(t, c, n)
  PROVE  InOrder(u, c, n)
<1>1. ASSUME NEW k \in 1..Len(u), Renders(u[k])
      PROVE  k - d \in 1..Len(t) /\ u[k] = t[k - d]
  <2>1. k - d \in 1..Len(t) /\ (k - d) + d = k
    BY <1>1 DEF Within, Renders
  <2> QED BY <2>1 DEF Within
<1>2. ASSUME NEW k \in 1..Len(u), Renders(u[k]) PROVE u[k][2] \in 1..n - 1
  BY <1>1, <1>2 DEF InOrder
<1>3. ASSUME NEW i \in 1..n - 1, i \in c
      PROVE  \E k \in 1..Len(u) : Renders(u[k]) /\ u[k][2] = i
  <2>1. PICK k \in 1..Len(t) : Renders(t[k]) /\ t[k][2] = i
    BY <1>3 DEF InOrder
  <2>2. k + d \in 1..Len(u) /\ u[k + d] = t[k]
    BY DEF Within
  <2> QED BY <2>1, <2>2
<1>4. ASSUME NEW j \in 1..Len(u), NEW k \in 1..Len(u), j < k, Renders(u[j]), Renders(u[k])
      PROVE  u[j][2] < u[k][2]
  <2>1. j - d \in 1..Len(t) /\ u[j] = t[j - d] /\ k - d \in 1..Len(t) /\ u[k] = t[k - d]
    BY <1>1, <1>4
  <2>2. j - d < k - d
    BY <1>4
  <2>3. t[j - d][2] < t[k - d][2]
    BY <1>4, <2>1, <2>2 DEF InOrder
  <2> QED BY <2>1, <2>3
<1> QED BY <1>2, <1>3, <1>4 DEF InOrder

LEMMA InOrderGrows ==
  ASSUME NEW t \in Seq(Parts), NEW c, NEW n \in Nat, n >= 1, InOrder(t, c, n),
         NEW e \in Parts, Renders(e), e[2] = n
  PROVE  InOrder(Append(t, e), c, n + 1)
<1> DEFINE u == Append(t, e)
<1>1. /\ Len(t) \in Nat /\ Len(u) = Len(t) + 1
      /\ u[Len(t) + 1] = e /\ \A k \in 1..Len(t) : u[k] = t[k]
  BY GrowsBehind
<1> HIDE DEF u
<1>2. \A k \in 1..Len(u) : k = Len(t) + 1 \/ k \in 1..Len(t)
  BY <1>1
<1>3. \A i \in 1..n - 1 : i \in 1..(n + 1) - 1
  OBVIOUS
<1>4. ASSUME NEW k \in 1..Len(u), Renders(u[k]) PROVE u[k][2] \in 1..(n + 1) - 1
  <2>1. CASE k = Len(t) + 1
    BY <1>1, <2>1
  <2>2. CASE k \in 1..Len(t)
    BY <1>1, <1>3, <1>4, <2>2 DEF InOrder
  <2> QED BY <1>2, <2>1, <2>2
<1>5. ASSUME NEW i \in 1..(n + 1) - 1, i \in c
      PROVE  \E k \in 1..Len(u) : Renders(u[k]) /\ u[k][2] = i
  <2>1. CASE i = n
    <3>1. Len(t) + 1 \in 1..Len(u)
      BY <1>1
    <3> QED BY <1>1, <2>1, <3>1
  <2>2. CASE i # n
    <3>1. i \in 1..n - 1
      BY <2>2
    <3>2. PICK k \in 1..Len(t) : Renders(t[k]) /\ t[k][2] = i
      BY <1>5, <3>1 DEF InOrder
    <3>3. k \in 1..Len(u) /\ u[k] = t[k]
      BY <1>1
    <3> QED BY <3>2, <3>3
  <2> QED BY <2>1, <2>2
<1>6. ASSUME NEW j \in 1..Len(u), NEW k \in 1..Len(u), j < k, Renders(u[j]), Renders(u[k])
      PROVE  u[j][2] < u[k][2]
  <2>1. j \in 1..Len(t) /\ u[j] = t[j]
    BY <1>1, <1>6
  <2>2. CASE k = Len(t) + 1
    <3>1. t[j][2] \in 1..n - 1
      BY <1>6, <2>1 DEF InOrder
    <3> QED BY <1>1, <2>1, <2>2, <3>1
  <2>3. CASE k \in 1..Len(t)
    BY <1>1, <1>6, <2>1, <2>3 DEF InOrder
  <2> QED BY <1>2, <2>2, <2>3
<1>7. InOrder(u, c, n + 1)
  BY <1>4, <1>5, <1>6 DEF InOrder
<1> QED BY <1>7 DEF u

LEMMA InOrderSkips ==
  ASSUME NEW t, NEW c, NEW n \in Nat, n >= 1, InOrder(t, c, n), n \notin c
  PROVE  InOrder(t, c, n + 1)
<1>1. \A i \in 1..n - 1 : i \in 1..(n + 1) - 1
  OBVIOUS
<1>2. \A i \in 1..(n + 1) - 1 : i = n \/ i \in 1..n - 1
  OBVIOUS
<1> QED BY <1>1, <1>2 DEF InOrder

(* Every item that is in t is there as a whole.                                    *)
AllWhole(t, c, html) ==
  \A k \in 1..Len(t) : t[k][1] = "item" => Whole(c[t[k][2]], t[k][3], html)

LEMMA WholeWithin ==
  ASSUME NEW t, NEW u, NEW c, NEW html, NEW d \in Int, Len(t) \in Nat, Len(u) \in Nat,
         Within(t, u, d), AllWhole(t, c, html)
  PROVE  AllWhole(u, c, html)
<1>1. ASSUME NEW k \in 1..Len(u), u[k][1] = "item" PROVE Whole(c[u[k][2]], u[k][3], html)
  <2>1. k - d \in 1..Len(t) /\ (k - d) + d = k
    BY <1>1 DEF Within
  <2>2. u[k] = t[k - d]
    BY <2>1 DEF Within
  <2> QED BY <1>1, <2>1, <2>2 DEF AllWhole
<1> QED BY <1>1 DEF AllWhole

LEMMA WholeGrows ==
  ASSUME NEW t \in Seq(Parts), NEW c, NEW html, NEW e \in Parts, AllWhole(t, c, html),
         e[1] = "item" => Whole(c[e[2]], e[3], html)
  PROVE  AllWhole(Append(t, e), c, html)
<1> DEFINE u == Append(t, e)
<1>1. /\ Len(t) \in Nat /\ Len(u) = Len(t) + 1
      /\ u[Len(t) + 1] = e /\ \A k \in 1..Len(t) : u[k] = t[k]
  BY GrowsBehind
<1> HIDE DEF u
<1>2. ASSUME NEW k \in 1..Len(u), u[k][1] = "item" PROVE Whole(c[u[k][2]], u[k][3], html)
  <2>1. k = Len(t) + 1 \/ k \in 1..Len(t)
    BY <1>1
  <2>2. CASE k = Len(t) + 1
    BY <1>1, <1>2, <2>2
  <2>3. CASE k \in 1..Len(t)
    BY <1>1, <1>2, <2>3 DEF AllWhole
  <2> QED BY <2>1, <2>2, <2>3
<1>3. AllWhole(u, c, html)
  BY <1>2 DEF AllWhole
<1> QED BY <1>3 DEF u

(* Every link of t is that of a picture of p, and t has those before n.            *)
LinksIn(t, names, n) ==
  /\ \A k \in 1..Len(t) : t[k][1] = "link" =>
       \E i \in DOMAIN names : t[k] = <<"link", i, names[i]>>
  /\ \A i \in DOMAIN names : i < n => \E k \in 1..Len(t) : t[k] = <<"link", i, names[i]>>

LEMMA LinksWithin ==
  ASSUME NEW t, NEW u, NEW names, NEW n, NEW d \in Int, Len(t) \in Nat, Len(u) \in Nat,
         Within(t, u, d), LinksIn(t, names, n)
  PROVE  LinksIn(u, names, n)
<1>1. ASSUME NEW k \in 1..Len(u), u[k][1] = "link"
      PROVE  \E i \in DOMAIN names : u[k] = <<"link", i, names[i]>>
  <2>1. k - d \in 1..Len(t) /\ (k - d) + d = k
    BY <1>1 DEF Within
  <2>2. u[k] = t[k - d]
    BY <2>1 DEF Within
  <2> QED BY <1>1, <2>1, <2>2 DEF LinksIn
<1>2. ASSUME NEW i \in DOMAIN names, i < n
      PROVE  \E k \in 1..Len(u) : u[k] = <<"link", i, names[i]>>
  <2>1. PICK k \in 1..Len(t) : t[k] = <<"link", i, names[i]>>
    BY <1>2 DEF LinksIn
  <2>2. k + d \in 1..Len(u) /\ u[k + d] = t[k]
    BY DEF Within
  <2> QED BY <2>1, <2>2
<1> QED BY <1>1, <1>2 DEF LinksIn

LEMMA LinksGrow ==
  ASSUME NEW t \in Seq(Parts), NEW names, NEW n \in Nat, DOMAIN names \subseteq Nat,
         LinksIn(t, names, n), NEW e \in Parts,
         IF n \in DOMAIN names THEN e = <<"link", n, names[n]>> ELSE e[1] # "link"
  PROVE  LinksIn(Append(t, e), names, n + 1)
<1> DEFINE u == Append(t, e)
<1>1. /\ Len(t) \in Nat /\ Len(u) = Len(t) + 1
      /\ u[Len(t) + 1] = e /\ \A k \in 1..Len(t) : u[k] = t[k]
  BY GrowsBehind
<1> HIDE DEF u
<1>2. ASSUME NEW k \in 1..Len(u), u[k][1] = "link"
      PROVE  \E i \in DOMAIN names : u[k] = <<"link", i, names[i]>>
  <2>1. CASE k = Len(t) + 1
    BY <1>1, <1>2, <2>1
  <2>2. CASE k # Len(t) + 1
    <3>1. k \in 1..Len(t) /\ u[k] = t[k]
      BY <1>1, <2>2
    <3> QED BY <1>2, <3>1 DEF LinksIn
  <2> QED BY <2>1, <2>2
<1>3. ASSUME NEW i \in DOMAIN names, i < n + 1
      PROVE  \E k \in 1..Len(u) : u[k] = <<"link", i, names[i]>>
  <2>1. CASE i = n
    <3>1. Len(t) + 1 \in 1..Len(u)
      BY <1>1
    <3> QED BY <1>1, <2>1, <3>1
  <2>2. CASE i # n
    <3>1. i < n
      BY <1>3, <2>2
    <3>2. PICK k \in 1..Len(t) : t[k] = <<"link", i, names[i]>>
      BY <3>1 DEF LinksIn
    <3>3. k \in 1..Len(u) /\ u[k] = t[k]
      BY <1>1
    <3> QED BY <3>2, <3>3
  <2> QED BY <2>1, <2>2
<1>4. LinksIn(u, names, n + 1)
  BY <1>2, <1>3 DEF LinksIn
<1> QED BY <1>4 DEF u

LEMMA LinksSkip ==
  ASSUME NEW t, NEW names, NEW n \in Nat, DOMAIN names \subseteq Nat,
         LinksIn(t, names, n), n \notin DOMAIN names
  PROVE  LinksIn(t, names, n + 1)
<1>1. \A i \in DOMAIN names : i < n + 1 => i < n
  OBVIOUS
<1> QED BY <1>1 DEF LinksIn

-----------------------------------------------------------------------------
(* The steps of a document.                                                        *)
LEMMA WithinItself ==
  ASSUME NEW t, Len(t) \in Nat
  PROVE  Within(t, t, 0)
BY DEF Within

LEMMA WithinTwice ==
  ASSUME NEW t, NEW u, NEW v, NEW d \in Int, NEW e \in Int,
         Len(t) \in Nat, Len(u) \in Nat, Len(v) \in Nat, Within(t, u, d), Within(u, v, e)
  PROVE  Within(t, v, d + e)
<1>1. ASSUME NEW k \in 1..Len(t) PROVE k + (d + e) \in 1..Len(v) /\ v[k + (d + e)] = t[k]
  <2>1. k + d \in 1..Len(u) /\ u[k + d] = t[k]
    BY DEF Within
  <2>2. (k + d) + e \in 1..Len(v) /\ v[(k + d) + e] = t[k]
    BY <2>1 DEF Within
  <2>3. (k + d) + e = k + (d + e)
    OBVIOUS
  <2> QED BY <2>2, <2>3
<1>2. ASSUME NEW k \in 1..Len(v), v[k][1] \in {"item", "link"} PROVE k - (d + e) \in 1..Len(t)
  <2>1. k - e \in 1..Len(u) /\ (k - e) + e = k
    BY <1>2 DEF Within
  <2>2. u[k - e] = v[k]
    BY <2>1 DEF Within
  <2>3. (k - e) - d \in 1..Len(t)
    BY <1>2, <2>1, <2>2 DEF Within
  <2>4. (k - e) - d = k - (d + e)
    OBVIOUS
  <2> QED BY <2>3, <2>4
<1> QED BY <1>1, <1>2 DEF Within

(* What may be put in front of a text.                                              *)
Put(t, e, u) == t \in Seq(Parts) /\ Plain(e) /\ u = <<e>> \o t

LEMMA PutKeeps ==
  ASSUME NEW t, NEW e, NEW u, Put(t, e, u)
  PROVE  /\ u \in Seq(Parts) /\ Len(t) \in Nat /\ Len(u) = Len(t) + 1 /\ u[1] = e
         /\ \A k \in 1..Len(t) : u[k + 1] = t[k]
         /\ Within(t, u, 1)
<1>1. e \in Parts /\ t \in Seq(Parts) /\ u = <<e>> \o t /\ Plain(e)
  BY DEF Put, Plain
<1> QED BY <1>1, GrowsInFront, InFrontIsWithin

LEMMA PlainParts ==
  Plain(<<"matter">>) /\ Plain(<<"keys">>) /\ \A n \in Nat : Plain(Marker(n))
BY DEF Plain, Parts, Marker

LEMMA AssembleParts ==
  ASSUME DocInv0, Assemble
  PROVE  \E t, u \in Seq(Parts) :
           /\ IF ~use.breaks \/ (text # <<>> /\ text[1] = Marker(1)) THEN t = text
                                                                     ELSE Put(text, Marker(1), t)
           /\ IF use.matter THEN Put(t, <<"matter">>, u) ELSE u = t
           /\ IF use.keys THEN Put(u, <<"keys">>, text') ELSE text' = u
           /\ text' \in Seq(Parts)
<1> DEFINE t == FirstPageMarked(text)
           u == WithMatter(t)
           v == WithKeys(u)
<1>1. text \in Seq(Parts)
  BY StateFacts
<1>2. text' = v
  BY DEF Assemble
<1>3. /\ IF ~use.breaks \/ (text # <<>> /\ text[1] = Marker(1)) THEN t = text
                                                                ELSE Put(text, Marker(1), t)
      /\ t \in Seq(Parts)
  <2>1. IF ~use.breaks \/ (text # <<>> /\ text[1] = Marker(1)) THEN t = text
                                                               ELSE Put(text, Marker(1), t)
    BY <1>1, PlainParts DEF FirstPageMarked, Put
  <2> HIDE DEF t
  <2> QED BY <1>1, <2>1, PutKeeps
<1> HIDE DEF t
<1>4. (IF use.matter THEN Put(t, <<"matter">>, u) ELSE u = t) /\ u \in Seq(Parts)
  <2>1. IF use.matter THEN Put(t, <<"matter">>, u) ELSE u = t
    BY <1>3, PlainParts DEF WithMatter, Put
  <2> HIDE DEF u
  <2> QED BY <1>3, <2>1, PutKeeps
<1> HIDE DEF u
<1>5. (IF use.keys THEN Put(u, <<"keys">>, v) ELSE v = u) /\ v \in Seq(Parts)
  <2>1. IF use.keys THEN Put(u, <<"keys">>, v) ELSE v = u
    BY <1>4, PlainParts DEF WithKeys, Put
  <2> HIDE DEF v
  <2> QED BY <1>4, <2>1, PutKeeps
<1> HIDE DEF v
<1> QED BY <1>2, <1>3, <1>4, <1>5

LEMMA AssembleWithin ==
  ASSUME DocInv0, Assemble
  PROVE  text' \in Seq(Parts) /\ \E d \in Nat : Within(text, text', d)
<1>1. PICK t, u \in Seq(Parts) :
           /\ IF ~use.breaks \/ (text # <<>> /\ text[1] = Marker(1)) THEN t = text
                                                                     ELSE Put(text, Marker(1), t)
           /\ IF use.matter THEN Put(t, <<"matter">>, u) ELSE u = t
           /\ IF use.keys THEN Put(u, <<"keys">>, text') ELSE text' = u
           /\ text' \in Seq(Parts)
  BY AssembleParts
<1>2. Len(text) \in Nat /\ Len(t) \in Nat /\ Len(u) \in Nat /\ Len(text') \in Nat
  BY <1>1, StateFacts, LenProperties
<1>3. PICK a \in Nat : Within(text, t, a)
  BY <1>1, <1>2, PutKeeps, WithinItself
<1>4. PICK b \in Nat : Within(t, u, b)
  BY <1>1, <1>2, PutKeeps, WithinItself
<1>5. PICK c \in Nat : Within(u, text', c)
  BY <1>1, <1>2, PutKeeps, WithinItself
<1>6. Within(text, u, a + b) /\ a + b \in Nat
  BY <1>2, <1>3, <1>4, WithinTwice
<1>7. Within(text, text', (a + b) + c) /\ (a + b) + c \in Nat
  BY <1>2, <1>5, <1>6, WithinTwice
<1> QED BY <1>1, <1>7

(* Where a step does not touch the text, the text stays begun or not, ended or not. *)
LEMMA DocSteps ==
  ASSUME DocInv0, DocNext
  PROVE  Enrich \/ Still \/ Break \/ Emission \/ Assemble
<1>0. DocTyping
  BY DEF DocInv0
<1>1. CASE Start
  BY <1>1 DEF Start, Still, Fixed, Assembled, Unwritten
<1>2. CASE SaveImages
  <2>1. use.caller \in {"save", "assets"}
    BY <1>0, <1>2 DEF SaveImages, DocTyping
  <2> QED BY <1>2, <2>1 DEF SaveImages, Still, Fixed, Assembled, Unwritten
<1>3. CASE WriteFile
  BY <1>3 DEF WriteFile, Still, Fixed, Assembled, Unwritten
<1>4. CASE Ended
  BY <1>4 DEF Ended, docVars, textVars, Still, Fixed, Assembled, Unwritten
<1>5. CASE Serialize
  BY <1>5, SerializeEmits DEF DocInv0
<1> QED BY <1>1, <1>2, <1>3, <1>4, <1>5 DEF DocNext, Serialize

LEMMA EmittedPart ==
  ASSUME DocInv0, Emission
  PROVE  /\ text' \in Seq(Parts)
         /\ \/ text' = text /\ at \notin Coming /\ at \notin Linkable
            \/ \E e \in Parts : /\ text' = Append(text, e) /\ Renders(e) /\ e[2] = at
                                /\ Seen(Contents, at)
                                /\ e[1] = "item" => Whole(Contents[at], e[3], use.html)
                                /\ IF at \in Linkable THEN e = <<"link", at, Name(at)>>
                                                      ELSE e[1] # "link"
<1>0. /\ at \in Nat /\ text \in Seq(Parts) /\ Len(Contents) \in Nat
      /\ DOMAIN Contents = 1..Len(Contents) /\ at \in 1..Len(Contents)
  BY StateFacts DEF Emission
<1>1. CASE text' = text /\ at \notin Coming /\ at \notin Linkable
  BY <1>0, <1>1
<1>2. CASE /\ Seen(Contents, at) /\ at \notin Linkable
           /\ \E parts \in PartSets : /\ text' = Append(text, <<"item", at, parts>>)
                                      /\ Whole(Contents[at], parts, use.html)
  <2>1. PICK parts \in PartSets : /\ text' = Append(text, <<"item", at, parts>>)
                                  /\ Whole(Contents[at], parts, use.html)
    BY <1>2
  <2> DEFINE e == <<"item", at, parts>>
  <2>2. e \in Parts /\ Renders(e) /\ e[2] = at /\ e[1] # "link" /\ e[3] = parts
    BY <1>0 DEF Parts, Renders
  <2>3. text' = Append(text, e)
    BY <2>1
  <2> HIDE DEF e
  <2>4. text' \in Seq(Parts)
    BY <1>0, <2>2, <2>3, GrowsBehind
  <2> QED BY <1>2, <2>1, <2>2, <2>3, <2>4
<1>3. CASE at \in Linkable /\ text' = Append(text, <<"link", at, Name(at)>>)
  <2> DEFINE e == <<"link", at, Name(at)>>
  <2>1. Name(at) \in Nat \X Nat /\ Seen(Contents, at)
    BY <1>3, StateFacts, NamesAreTheirOwn DEF Linkable
  <2>2. e \in Parts /\ Renders(e) /\ e[2] = at /\ e[1] # "item"
    BY <1>0, <2>1 DEF Parts, Renders
  <2>3. text' = Append(text, e) /\ e = <<"link", at, Name(at)>>
    BY <1>3
  <2> HIDE DEF e
  <2>4. text' \in Seq(Parts)
    BY <1>0, <2>2, <2>3, GrowsBehind
  <2> QED BY <1>3, <2>1, <2>2, <2>3, <2>4
<1> QED BY <1>1, <1>2, <1>3 DEF Emission

(* At a page break.                                                                  *)
LEMMA BrokenText ==
  ASSUME DocInv0, Break
  PROVE  /\ at \in 1..Len(Contents) /\ page' = Contents[at].page /\ page' > page
         /\ Seen(Contents, at) /\ page \in Nat /\ page' \in Nat /\ stage = "serializing"
         /\ Fixed /\ UNCHANGED <<stage, at, saved>>
         /\ IF use.breaks /\ page > 0 THEN text' = Append(text, Marker(page')) ELSE text' = text
         /\ text' \in Seq(Parts) /\ \E d \in Nat : Within(text, text', d)
<1>0. /\ at \in 1..Len(Contents) + 1 /\ text \in Seq(Parts) /\ Len(Contents) \in Nat
      /\ page \in Nat /\ \A i \in 1..Len(Contents) : Contents[i].page \in Nat
  BY StateFacts DEF DocInv0, DocTyping
<1>1. /\ at \in 1..Len(Contents) /\ page' = Contents[at].page /\ page' > page
      /\ Seen(Contents, at) /\ stage = "serializing" /\ Fixed /\ UNCHANGED <<stage, at, saved>>
      /\ IF use.breaks /\ page > 0 THEN text' = Append(text, Marker(page')) ELSE text' = text
  BY <1>0 DEF Break, Serializing, NewPage, Fixed, Seen
<1>2. page' \in Nat
  BY <1>0, <1>1
<1>3. Plain(Marker(page'))
  BY <1>2, PlainParts
<1>4. text' \in Seq(Parts) /\ \E d \in Nat : Within(text, text', d)
  <2>1. CASE use.breaks /\ page > 0
    <3>1. text' = Append(text, Marker(page')) /\ Marker(page') \in Parts
      BY <1>1, <1>3, <2>1 DEF Plain
    <3> QED BY <1>0, <1>3, <3>1, GrowsBehind, BehindIsWithin
  <2>2. CASE ~(use.breaks /\ page > 0)
    BY <1>0, <1>1, <2>2, WithinItself, LenProperties
  <2> QED BY <2>1, <2>2
<1> QED BY <1>0, <1>1, <1>2, <1>4

(* For any items and any pictures added to them.                                    *)
LEMMA LengthsAdd ==
  ASSUME NEW b \in Bodies, NEW a \in Seq(Finds)
  PROVE  LET more == [k \in DOMAIN a |->
                        [kind |-> "picture", page |-> a[k].page, image |-> a[k].media.image,
                         captioned |-> FALSE]]
         IN  Len(b \o more) \in Nat /\ DOMAIN (b \o more) = 1..Len(b \o more)
<1> DEFINE one(k) == [kind |-> "picture", page |-> a[k].page, image |-> a[k].media.image,
                      captioned |-> FALSE]
           more == [k \in DOMAIN a |-> one(k)]
           S == Elements(b) \cup {more[k] : k \in DOMAIN a}
<1>1. Len(a) \in Nat /\ DOMAIN a = 1..Len(a)
  BY LenProperties
<1>2. more \in Seq(S)
  <2> HIDE DEF one
  <2> QED BY <1>1
<1>3. b \in Seq(S)
  <2>1. b \in Seq(Elements(b)) /\ Elements(b) \subseteq S
    BY DocumentParameters
  <2> HIDE DEF S
  <2> QED BY <2>1, SeqMonotonic
<1> HIDE DEF more, S
<1>4. Len(b \o more) \in Nat /\ DOMAIN (b \o more) = 1..Len(b \o more)
  BY <1>2, <1>3, ConcatProperties, LenProperties
<1> QED BY <1>4 DEF more

LEMMA DocTypingStep ==
  ASSUME DocInv0, DocNext, ExcelInv'
  PROVE  DocTyping'
<1>0. DocTyping /\ Len(Contents) \in Nat /\ text \in Seq(Parts) /\ at \in 1..Len(Contents) + 1
  BY StateFacts DEF DocInv0
<1>1. ASSUME Fixed PROVE Detections' /\ Contents' = Contents
  BY <1>0, <1>1, FixedContents DEF Fixed, vars, DocTyping, Detections
<1>2. CASE Enrich
  <2>1. /\ stage = "enriching" /\ UNCHANGED <<body, use, stage, at, page, text, saved>>
        /\ UNCHANGED <<workbook, detected>>
    BY <1>2 DEF Enrich, textVars, EnrichStep, SearchSheet, SearchFails, SearchEnds, HashDetected,
                HashRaises, NothingFound, Skip, Add, AddRaises, AllAdded
  <2>2. Detections'
    BY <1>0, <2>1 DEF DocTyping, Detections
  <2>3. body' \in Bodies /\ added' \in Seq(Finds)
    BY <2>2 DEF ExcelInv, ExcelTyping, Detections
  <2>4. Len(Contents') \in Nat
    BY <2>3, LengthsAdd DEF Contents, Recovered
  <2>5. at' = 1 /\ text' = <<>> /\ page' = 0 /\ saved' = {}
    BY <1>0, <2>1 DEF DocTyping, Unwritten
  <2>6. at' \in 1..Len(Contents') + 1
    BY <2>4, <2>5
  <2>7. ~Assembled'
    BY <2>1 DEF Assembled
  <2> HIDE DEF Contents
  <2> QED BY <1>0, <2>1, <2>2, <2>5, <2>6, <2>7 DEF DocTyping
<1>3. CASE Still
  <2>1. Detections' /\ Contents' = Contents
    BY <1>1, <1>3 DEF Still
  <2>2. /\ stage' \in {"enriching", "images", "serializing", "writing", "done", "failed"}
        /\ stage' = "images" => use'.caller \in {"save", "assets"}
        /\ stage' = "writing" => use'.caller = "save"
        /\ stage' = "enriching" => saved' = {}
    <3>1. CASE Enrich \/ Serialize
      BY <1>0, <1>3, <3>1 DEF Enrich, textVars, Serialize, SerializeText, SerializeFormula,
            SkipFormula, SkipHidden, SerializeTable, SerializeMerged, ExportRaises,
            ExportIsEmpty, SerializePicture, Gives, Emits, Is,
            Serializing, DocTyping, Still, Fixed
    <3>2. CASE Start
      <4>1. use.caller \in {"save", "assets", "render"}
        BY <1>0, DocumentParameters DEF DocTyping, Detections
      <4> QED BY <3>2, <4>1 DEF Start
    <3>3. CASE Break \/ Assemble
      BY <3>3 DEF Break, Assemble, Serializing
    <3>4. CASE SaveImages
      BY <1>0, <3>4 DEF SaveImages, DocTyping
    <3>5. CASE WriteFile
      BY <3>5 DEF WriteFile
    <3>6. CASE Ended
      BY <1>0, <3>6 DEF Ended, docVars, textVars, DocTyping
    <3> QED BY <3>1, <3>2, <3>3, <3>4, <3>5, <3>6 DEF DocNext, Serialize
  <2>3. UNCHANGED <<text, at, page>> /\ (Assembled' <=> Assembled) /\ (Unwritten' => Unwritten)
    BY <1>3 DEF Still
  <2> QED BY <1>0, <2>1, <2>2, <2>3 DEF DocTyping
<1>4. CASE Break
  <2>1. /\ Detections' /\ Contents' = Contents /\ text' \in Seq(Parts) /\ page' \in Nat
        /\ UNCHANGED <<stage, at>> /\ stage = "serializing"
    BY <1>1, <1>4, BrokenText
  <2> QED BY <1>0, <2>1 DEF DocTyping, Unwritten, Assembled
<1>5. CASE Emission
  <2>1. /\ Detections' /\ Contents' = Contents /\ text' \in Seq(Parts)
    BY <1>1, <1>5, EmittedPart DEF Emission
  <2>2. /\ stage' = "serializing" /\ at' \in 1..Len(Contents) + 1 /\ page' \in Nat
    BY <1>0, <1>5 DEF Emission, DocTyping
  <2> QED BY <1>0, <2>1, <2>2 DEF DocTyping, Unwritten, Assembled
<1>6. CASE Assemble
  <2>1. /\ Fixed /\ at' = at /\ page' = page /\ at > Len(Contents)
        /\ stage' = IF use.caller = "save" THEN "images" ELSE "done"
    BY <1>6 DEF Assemble, Fixed
  <2>2. Detections' /\ Contents' = Contents /\ text' \in Seq(Parts) /\ use' = use
    BY <1>1, <1>6, <2>1, AssembleWithin DEF Fixed
  <2>3. at' = Len(Contents) + 1 /\ at' \in 1..Len(Contents) + 1
    BY <1>0, <2>1
  <2> QED BY <1>0, <2>1, <2>2, <2>3 DEF DocTyping, Unwritten, Assembled
<1> QED BY <1>2, <1>3, <1>4, <1>5, <1>6, DocSteps

-----------------------------------------------------------------------------
(* The items before the next one are in the text, whole and in order; so are their links, *)
(* and what is saved has the name of a picture.                                     *)
Names == [i \in Linkable |-> Name(i)]

TextInv ==
  /\ InOrder(text, Coming, at)
  /\ AllWhole(text, Contents, use.html)
  /\ LinksIn(text, Names, at)
  /\ saved \subseteq {Name(i) : i \in Pictures}

LEMMA TextInvStep ==
  ASSUME DocInv0, TextInv, DocNext, ExcelInv'
  PROVE  TextInv'
<1>0. /\ at \in 1..Len(Contents) + 1 /\ Len(Contents) \in Nat /\ at \in Nat /\ at >= 1
      /\ text \in Seq(Parts) /\ Len(text) \in Nat /\ DOMAIN Contents = 1..Len(Contents)
      /\ DOMAIN Names \subseteq Nat /\ DOMAIN Names = Linkable
      /\ \A i \in Linkable : Names[i] = Name(i)
  BY StateFacts DEF Names, Pictures, Linkable
<1>1. ASSUME Fixed
      PROVE  /\ Contents' = Contents /\ Names' = Names /\ Pictures' = Pictures
             /\ Coming' = Coming /\ use' = use
  BY <1>1, FixedContents DEF Names, Fixed
<1>2. ASSUME Fixed, saved' = saved
      PROVE  saved' \subseteq {Name(i) : i \in Pictures}'
  BY <1>2, FixedContents DEF TextInv
<1>3. ASSUME Fixed, saved' = saved, InOrder(text', Coming, at'),
             AllWhole(text', Contents, use.html), LinksIn(text', Names, at')
      PROVE  TextInv'
  BY <1>1, <1>2, <1>3 DEF TextInv
<1>4. CASE Enrich
  <2>1. /\ stage = "enriching" /\ UNCHANGED <<text, at, saved, body>>
    BY <1>4 DEF Enrich, textVars
  <2>2. text' = <<>> /\ Len(text') = 0 /\ at' = 1 /\ saved' = {} /\ body' \in Bodies
    BY <2>1, EmptySeq DEF DocInv0, DocTyping, Detections, Unwritten
  <2>3. \A i \in Pictures' : ~(i < 1)
    <3>1. added' \in Seq(Finds)
      BY DEF ExcelInv, ExcelTyping
    <3>2. DOMAIN Contents' = 1..Len(Contents')
      BY <2>2, <3>1, LengthsAdd DEF Contents, Recovered
    <3>3. Len(Contents') \in Nat
      BY <2>2, <3>1, LengthsAdd DEF Contents, Recovered
    <3> QED BY <3>2, <3>3 DEF Pictures
  <2>4. InOrder(text', Coming', at')
    BY <2>2 DEF InOrder
  <2>5. LinksIn(text', Names', at')
    <3>1. DOMAIN Names' \subseteq Pictures'
      BY DEF Names, Linkable
    <3> QED BY <2>2, <2>3, <3>1 DEF LinksIn
  <2>6. AllWhole(text', Contents', use'.html)
    BY <2>2 DEF AllWhole
  <2> QED BY <2>2, <2>4, <2>5, <2>6 DEF TextInv
<1>5. CASE Still
  <2>1. Fixed /\ text' = text /\ at' = at
    BY <1>5 DEF Still
  <2>2. saved' \subseteq {Name(i) : i \in Pictures}'
    <3>1. CASE saved' = saved
      BY <1>2, <2>1, <3>1
    <3>2. CASE SaveImages
      <4>1. saved' \subseteq {Name(i) : i \in Pictures}
        BY <3>2 DEF SaveImages
      <4> QED BY <2>1, <4>1, FixedContents
    <3> QED BY <3>1, <3>2 DEF DocNext, Enrich, Start, Break, Assemble, WriteFile, Ended, textVars,
              docVars, SerializeText, SerializeFormula, SkipFormula, SkipHidden, SerializeTable,
              SerializeMerged, ExportRaises, ExportIsEmpty, SerializePicture, Gives, Emits
  <2>3. InOrder(text, Coming, at) /\ AllWhole(text, Contents, use.html) /\ LinksIn(text, Names, at)
    BY DEF TextInv
  <2> QED BY <1>1, <2>1, <2>2, <2>3 DEF TextInv
<1>6. ASSUME Fixed, saved' = saved, at' = at, text' \in Seq(Parts),
             NEW d \in Nat, Within(text, text', d)
      PROVE  TextInv'
  <2>1. Len(text') \in Nat /\ d \in Int
    BY <1>6, LenProperties
  <2>2. InOrder(text', Coming, at)
    BY <1>0, <1>6, <2>1, InOrderWithin DEF TextInv
  <2>3. LinksIn(text', Names, at)
    BY <1>0, <1>6, <2>1, LinksWithin DEF TextInv
  <2>4. AllWhole(text', Contents, use.html)
    BY <1>0, <1>6, <2>1, WholeWithin DEF TextInv
  <2> QED BY <1>3, <1>6, <2>2, <2>3, <2>4
<1>7. CASE Break
  BY <1>6, <1>7, BrokenText
<1>8. CASE Assemble
  <2>1. Fixed /\ saved' = saved /\ at' = at
    BY <1>8 DEF Assemble, Fixed
  <2> QED BY <1>6, <1>8, <2>1, AssembleWithin
<1>9. CASE Emission
  <2>1. at' = at + 1 /\ Fixed /\ saved' = saved /\ at \in 1..Len(Contents)
    BY <1>9 DEF Emission
  <2>2. CASE text' = text /\ at \notin Coming /\ at \notin Linkable
    <3>1. InOrder(text', Coming, at + 1)
      BY <1>0, <2>2, InOrderSkips DEF TextInv
    <3>2. at \notin DOMAIN Names
      BY <1>0, <2>2
    <3>3. LinksIn(text', Names, at + 1)
      BY <1>0, <2>2, <3>2, LinksSkip DEF TextInv
    <3>4. AllWhole(text', Contents, use.html)
      BY <2>2 DEF TextInv
    <3> QED BY <1>3, <2>1, <3>1, <3>3, <3>4
  <2>3. CASE \E e \in Parts : /\ text' = Append(text, e) /\ Renders(e) /\ e[2] = at
                              /\ Seen(Contents, at)
                              /\ e[1] = "item" => Whole(Contents[at], e[3], use.html)
                              /\ IF at \in Linkable THEN e = <<"link", at, Name(at)>>
                                                    ELSE e[1] # "link"
    <3>1. PICK e \in Parts : /\ text' = Append(text, e) /\ Renders(e) /\ e[2] = at
                             /\ e[1] = "item" => Whole(Contents[at], e[3], use.html)
                             /\ IF at \in Linkable THEN e = <<"link", at, Name(at)>>
                                                   ELSE e[1] # "link"
      BY <2>3
    <3>2. InOrder(text', Coming, at + 1)
      BY <1>0, <3>1, InOrderGrows DEF TextInv
    <3>3. IF at \in DOMAIN Names THEN e = <<"link", at, Names[at]>> ELSE e[1] # "link"
      BY <1>0, <3>1
    <3>4. LinksIn(text', Names, at + 1)
      BY <1>0, <3>1, <3>3, LinksGrow DEF TextInv
    <3>5. AllWhole(text', Contents, use.html)
      BY <1>0, <3>1, WholeGrows DEF TextInv
    <3> QED BY <1>3, <2>1, <3>2, <3>4, <3>5
  <2> QED BY <1>9, <2>2, <2>3, EmittedPart
<1> QED BY <1>4, <1>5, <1>7, <1>8, <1>9, DocSteps

(* The front matter, once the text is whole.                                        *)
Led(t, keys) ==
  IF keys THEN t[1] = <<"keys">> /\ t[2] = <<"matter">> ELSE t[1] = <<"matter">>

MatterInv == Assembled /\ use.matter => Led(text, use.keys)

LEMMA MatterInvStep ==
  ASSUME DocInv0, MatterInv, DocNext
  PROVE  MatterInv'
<1>1. CASE Enrich
  BY <1>1 DEF Enrich, textVars, MatterInv, Assembled
<1>2. CASE Still
  BY <1>2 DEF Still, Fixed, MatterInv
<1>3. CASE Break
  BY <1>3 DEF Break, Serializing, MatterInv, Assembled
<1>4. CASE Emission
  BY <1>4 DEF Emission, MatterInv, Assembled
<1>5. CASE Assemble
  <2>1. PICK t, u \in Seq(Parts) :
           /\ IF use.matter THEN Put(t, <<"matter">>, u) ELSE u = t
           /\ IF use.keys THEN Put(u, <<"keys">>, text') ELSE text' = u
    BY <1>5, AssembleParts
  <2>2. use' = use
    BY <1>5 DEF Assemble
  <2>3. ASSUME use.matter PROVE Led(text', use.keys)
    <3>1. Put(t, <<"matter">>, u)
      BY <2>1, <2>3
    <3>2. u[1] = <<"matter">> /\ Len(u) \in Nat /\ Len(u) >= 1
      BY <3>1, PutKeeps
    <3>3. CASE use.keys
      <4>1. Put(u, <<"keys">>, text')
        BY <2>1, <3>3
      <4>2. text'[1] = <<"keys">> /\ text'[1 + 1] = u[1]
        BY <3>2, <4>1, PutKeeps
      <4> QED BY <3>2, <3>3, <4>2 DEF Led
    <3>4. CASE ~use.keys
      BY <2>1, <3>2, <3>4 DEF Led
    <3> QED BY <3>3, <3>4
  <2> QED BY <2>2, <2>3 DEF MatterInv
<1> QED BY <1>1, <1>2, <1>3, <1>4, <1>5, DocSteps

-----------------------------------------------------------------------------
(* n is the page of the last marker before the k-th element of t, or 0.             *)
IsMarker(e) == e[1] = "marker"

IsMark(t, k, n) ==
  \/ n = 0 /\ \A j \in 1..k - 1 : ~IsMarker(t[j])
  \/ \E j \in 1..k - 1 : t[j] = Marker(n) /\ \A i \in j + 1..k - 1 : ~IsMarker(t[i])

LEMMA MarkValue ==
  ASSUME NEW k \in Nat, NEW n, IsMark(text, k, n)
  PROVE  MarkerAt(k) = n
<1> DEFINE before == {j \in 1..k - 1 : text[j][1] = "marker"}
<1>1. CASE n = 0 /\ \A j \in 1..k - 1 : ~IsMarker(text[j])
  <2>1. before = {}
    BY <1>1 DEF IsMarker
  <2> QED BY <1>1, <2>1 DEF MarkerAt
<1>2. CASE \E j \in 1..k - 1 : text[j] = Marker(n) /\ \A i \in j + 1..k - 1 : ~IsMarker(text[i])
  <2>1. PICK j \in 1..k - 1 : text[j] = Marker(n) /\ \A i \in j + 1..k - 1 : ~IsMarker(text[i])
    BY <1>2
  <2>2. j \in before /\ text[j][2] = n
    BY <2>1 DEF Marker
  <2>3. ASSUME NEW i \in before PROVE i <= j
    <3>1. i \in 1..k - 1 /\ IsMarker(text[i])
      BY DEF IsMarker
    <3>2. i \notin j + 1..k - 1
      BY <2>1, <3>1
    <3> QED BY <2>1, <3>1, <3>2
  <2> DEFINE last == CHOOSE x \in before : \A i \in before : i <= x
  <2>4. last \in before /\ \A i \in before : i <= last
    BY <2>2, <2>3
  <2>5. MarkerAt(k) = text[last][2]
    BY <2>2 DEF MarkerAt
  <2> HIDE DEF last
  <2>6. last \in 1..k - 1 /\ j <= last /\ last <= j
    BY <2>2, <2>3, <2>4
  <2>7. last = j
    BY <2>6
  <2> QED BY <2>2, <2>5, <2>7
<1> QED BY <1>1, <1>2 DEF IsMark

LEMMA MarkBehind ==
  ASSUME NEW t \in Seq(Parts), NEW e \in Parts, NEW k \in 1..Len(t) + 1, NEW n, IsMark(t, k, n)
  PROVE  IsMark(Append(t, e), k, n)
<1> DEFINE u == Append(t, e)
<1>1. Len(t) \in Nat /\ \A j \in 1..Len(t) : u[j] = t[j]
  BY GrowsBehind
<1> HIDE DEF u
<1>2. \A j \in 1..k - 1 : u[j] = t[j]
  BY <1>1
<1>3. \A j \in 1..k - 1 : \A i \in j + 1..k - 1 : i \in 1..k - 1
  BY <1>1
<1>4. IsMark(u, k, n)
  BY <1>2, <1>3 DEF IsMark
<1> QED BY <1>4 DEF u

LEMMA MarkPast ==
  ASSUME NEW t \in Seq(Parts), NEW e \in Parts, NEW n, IsMark(t, Len(t) + 1, n), ~IsMarker(e)
  PROVE  IsMark(Append(t, e), Len(Append(t, e)) + 1, n)
<1> DEFINE u == Append(t, e)
           m == Len(t)
<1>1. m \in Nat /\ Len(u) = m + 1 /\ u[m + 1] = e /\ \A j \in 1..m : u[j] = t[j]
  BY GrowsBehind
<1> HIDE DEF u
<1>2. IsMark(t, m + 1, n)
  OBVIOUS
<1> HIDE DEF m
<1>3. (Len(u) + 1) - 1 = m + 1 /\ (m + 1) - 1 = m
  BY <1>1
<1>4. CASE n = 0 /\ \A j \in 1..(m + 1) - 1 : ~IsMarker(t[j])
  <2>1. ASSUME NEW j \in 1..m + 1 PROVE ~IsMarker(u[j])
    <3>1. j = m + 1 \/ j \in 1..m
      BY <1>1
    <3> QED BY <1>1, <1>3, <1>4, <3>1
  <2> QED BY <1>3, <1>4, <2>1 DEF IsMark, u
<1>5. CASE \E j \in 1..(m + 1) - 1 : t[j] = Marker(n) /\ \A i \in j + 1..(m + 1) - 1 : ~IsMarker(t[i])
  <2>1. PICK j \in 1..m : t[j] = Marker(n) /\ \A i \in j + 1..m : ~IsMarker(t[i])
    BY <1>3, <1>5
  <2>2. ASSUME NEW i \in j + 1..m + 1 PROVE ~IsMarker(u[i])
    <3>1. i = m + 1 \/ i \in j + 1..m
      BY <1>1
    <3>2. i \in j + 1..m => i \in 1..m
      BY <1>1
    <3> QED BY <1>1, <2>1, <3>1, <3>2
  <2>3. j \in 1..m + 1 /\ u[j] = Marker(n)
    BY <1>1, <2>1
  <2>4. IsMark(u, Len(u) + 1, n)
    BY <1>3, <2>2, <2>3 DEF IsMark
  <2> QED BY <2>4 DEF u
<1> QED BY <1>2, <1>4, <1>5 DEF IsMark

LEMMA MarkNew ==
  ASSUME NEW t \in Seq(Parts), NEW n \in Nat
  PROVE  IsMark(Append(t, Marker(n)), Len(Append(t, Marker(n))) + 1, n)
<1> DEFINE u == Append(t, Marker(n))
<1>1. Marker(n) \in Parts
  BY PlainParts DEF Plain
<1>2. Len(t) \in Nat /\ Len(u) = Len(t) + 1 /\ u[Len(t) + 1] = Marker(n)
  BY <1>1, GrowsBehind
<1> HIDE DEF u
<1>3. /\ Len(t) + 1 \in 1..(Len(u) + 1) - 1
      /\ (Len(t) + 1) + 1..(Len(u) + 1) - 1 = {}
  BY <1>2
<1>4. IsMark(u, Len(u) + 1, n)
  BY <1>2, <1>3 DEF IsMark
<1> QED BY <1>4 DEF u

LEMMA MarkInFront ==
  ASSUME NEW t, NEW e, NEW u, Put(t, e, u), NEW k \in 1..Len(t) + 1, NEW n, IsMark(t, k, n),
         ~IsMarker(e)
  PROVE  IsMark(u, k + 1, n)
<1>1. Len(t) \in Nat /\ u[1] = e /\ \A j \in 1..Len(t) : u[j + 1] = t[j]
  BY PutKeeps
<1>2. \A j \in 1..k - 1 : u[j + 1] = t[j]
  BY <1>1
<1>3. (k + 1) - 1 = k
  BY <1>1
<1>4. CASE n = 0 /\ \A j \in 1..k - 1 : ~IsMarker(t[j])
  <2>1. ASSUME NEW j \in 1..k PROVE ~IsMarker(u[j])
    <3>1. CASE j = 1
      BY <1>1, <3>1
    <3>2. CASE j # 1
      <4>1. j - 1 \in 1..k - 1 /\ (j - 1) + 1 = j
        BY <1>1, <3>2
      <4>2. u[j] = t[j - 1]
        BY <1>2, <4>1
      <4> QED BY <1>4, <4>1, <4>2
    <3> QED BY <3>1, <3>2
  <2> QED BY <1>3, <1>4, <2>1 DEF IsMark
<1>5. CASE \E j \in 1..k - 1 : t[j] = Marker(n) /\ \A i \in j + 1..k - 1 : ~IsMarker(t[i])
  <2>1. PICK j \in 1..k - 1 : t[j] = Marker(n) /\ \A i \in j + 1..k - 1 : ~IsMarker(t[i])
    BY <1>5
  <2>2. j + 1 \in 1..k /\ u[j + 1] = Marker(n)
    BY <1>1, <1>2, <2>1
  <2>3. ASSUME NEW i \in (j + 1) + 1..k PROVE ~IsMarker(u[i])
    <3>1. i - 1 \in j + 1..k - 1 /\ i - 1 \in 1..k - 1 /\ (i - 1) + 1 = i
      BY <1>1
    <3>2. u[i] = t[i - 1]
      BY <1>2, <3>1
    <3> QED BY <2>1, <3>1, <3>2
  <2> QED BY <1>3, <2>2, <2>3 DEF IsMark
<1> QED BY <1>4, <1>5 DEF IsMark

LEMMA FirstMarkInFront ==
  ASSUME NEW t, NEW p, NEW u, Put(t, Marker(p), u), NEW k \in 1..Len(t) + 1, NEW n, IsMark(t, k, n)
  PROVE  IsMark(u, k + 1, n) \/ (n = 0 /\ IsMark(u, k + 1, p))
<1>1. Len(t) \in Nat /\ u[1] = Marker(p) /\ \A j \in 1..Len(t) : u[j + 1] = t[j]
  BY PutKeeps
<1>2. \A j \in 1..k - 1 : u[j + 1] = t[j]
  BY <1>1
<1>3. (k + 1) - 1 = k /\ 1 \in 1..k
  BY <1>1
<1>4. CASE n = 0 /\ \A j \in 1..k - 1 : ~IsMarker(t[j])
  <2>1. ASSUME NEW j \in 1 + 1..k PROVE ~IsMarker(u[j])
    <3>1. j - 1 \in 1..k - 1 /\ (j - 1) + 1 = j
      BY <1>1
    <3>2. u[j] = t[j - 1]
      BY <1>2, <3>1
    <3> QED BY <1>4, <3>1, <3>2
  <2>2. IsMark(u, k + 1, p)
    BY <1>1, <1>3, <2>1 DEF IsMark
  <2> QED BY <1>4, <2>2
<1>5. CASE \E j \in 1..k - 1 : t[j] = Marker(n) /\ \A i \in j + 1..k - 1 : ~IsMarker(t[i])
  <2>1. PICK j \in 1..k - 1 : t[j] = Marker(n) /\ \A i \in j + 1..k - 1 : ~IsMarker(t[i])
    BY <1>5
  <2>2. j + 1 \in 1..k /\ u[j + 1] = Marker(n)
    BY <1>1, <1>2, <2>1
  <2>3. ASSUME NEW i \in (j + 1) + 1..k PROVE ~IsMarker(u[i])
    <3>1. i - 1 \in j + 1..k - 1 /\ i - 1 \in 1..k - 1 /\ (i - 1) + 1 = i
      BY <1>1
    <3>2. u[i] = t[i - 1]
      BY <1>2, <3>1
    <3> QED BY <2>1, <3>1, <3>2
  <2> QED BY <1>3, <2>2, <2>3 DEF IsMark
<1> QED BY <1>4, <1>5 DEF IsMark

(* Every item of t stands under its page's marker if the pages of what is shown      *)
(* ascend from 1 up to it; before the text is whole, nothing but the marker of page   *)
(* 1 is missing.                                                                      *)
First(c, f) == Seen(c, f) /\ c[f].page = 1 /\ \A l \in 1..f - 1 : ~Seen(c, l)

Ascends(c, i) ==
  /\ \E f \in 1..i : First(c, f)
  /\ \A j, l \in 1..i : Seen(c, j) /\ Seen(c, l) /\ j <= l => c[j].page <= c[l].page

MarkFor(p, whole) == IF whole \/ p > 1 THEN p ELSE 0

RightlyMarked(t, c, k, whole) ==
  /\ IsMarker(t[k]) => \E n \in Nat : n < t[k][2] /\ IsMark(t, k, n)
  /\ Renders(t[k]) /\ Ascends(c, t[k][2]) =>
       /\ c[t[k][2]].page \in Nat /\ c[t[k][2]].page >= 1
       /\ IsMark(t, k, MarkFor(c[t[k][2]].page, whole))

LaterMarks(t) ==
  \A k \in 1..Len(t) : IsMarker(t[k]) => t[k][2] \in Nat /\ t[k][2] > 1

(* p is the page that has been reached, the n-th item being the next.               *)
Reached(t, c, n, p) ==
  /\ \A i \in 1..n - 1 : Seen(c, i) => c[i].page <= p
  /\ \E m \in 0..p : IsMark(t, Len(t) + 1, m)
  /\ (\E f \in 1..Len(c) : First(c, f)) => IsMark(t, Len(t) + 1, MarkFor(p, FALSE))
  /\ p = 0 \/ \E j \in 1..n : j <= Len(c) /\ Seen(c, j) /\ p = c[j].page

MarksInv ==
  use.breaks =>
    /\ \A k \in 1..Len(text) : RightlyMarked(text, Contents, k, Assembled)
    /\ ~Assembled => LaterMarks(text) /\ Reached(text, Contents, at, page)

LEMMA RightlyBehind ==
  ASSUME NEW t \in Seq(Parts), NEW e \in Parts, NEW c, NEW k \in 1..Len(t),
         RightlyMarked(t, c, k, FALSE)
  PROVE  RightlyMarked(Append(t, e), c, k, FALSE)
<1> DEFINE u == Append(t, e)
<1>1. u[k] = t[k] /\ k \in 1..Len(t) + 1
  <2>1. Len(t) \in Nat
    BY LenProperties
  <2> QED BY <2>1, GrowsBehind
<1>2. \A n : IsMark(t, k, n) => IsMark(u, k, n)
  BY <1>1, MarkBehind
<1> HIDE DEF u
<1>3. RightlyMarked(u, c, k, FALSE)
  BY <1>1, <1>2 DEF RightlyMarked
<1> QED BY <1>3 DEF u

LEMMA BreakMarks ==
  ASSUME NEW t \in Seq(Parts), NEW c, NEW n \in Nat, NEW p \in Nat, NEW q \in Nat,
         n >= 1, n <= Len(c), Len(c) \in Nat, Seen(c, n), q = c[n].page, q > p,
         \A i \in 1..Len(c) : c[i].page \in Nat,
         \A k \in 1..Len(t) : RightlyMarked(t, c, k, FALSE),
         LaterMarks(t), Reached(t, c, n, p),
         NEW u, IF p > 0 THEN u = Append(t, Marker(q)) ELSE u = t
  PROVE  /\ \A k \in 1..Len(u) : RightlyMarked(u, c, k, FALSE)
         /\ LaterMarks(u) /\ Reached(u, c, n, q)
<1>0. Len(t) \in Nat
  BY LenProperties
<1>1. \A i \in 1..n - 1 : (Seen(c, i) => c[i].page <= p) /\ c[i].page \in Nat
  BY DEF Reached
<1>1a. \A i \in 1..n - 1 : Seen(c, i) => c[i].page <= q
  <2>1. \A a \in Nat : a <= p => a <= q
    OBVIOUS
  <2> QED BY ONLY <1>1, <2>1
<1>1c. \E j \in 1..n : j <= Len(c) /\ Seen(c, j) /\ q = c[j].page
  <2>1. n \in 1..n
    OBVIOUS
  <2> QED BY <2>1
<1>1b. p > 0 \/ p = 0
  OBVIOUS
<1>2. CASE p > 0
  <2> DEFINE e == Marker(q)
  <2>1. e \in Parts /\ IsMarker(e) /\ e[2] = q /\ e[1] = "marker"
    BY PlainParts DEF Plain, IsMarker, Marker
  <2>2. ~Renders(e)
    BY <2>1 DEF Renders
  <2>3. /\ u = Append(t, e) /\ Len(u) = Len(t) + 1
        /\ u[Len(t) + 1] = e /\ \A k \in 1..Len(t) : u[k] = t[k]
    <3>1. u = Append(t, Marker(q))
      BY <1>2
    <3>2. u = Append(t, e)
      BY ONLY <3>1
    <3>3. e \in Parts /\ t \in Seq(Parts)
      BY <2>1
    <3> HIDE DEF e
    <3> QED BY ONLY <3>2, <3>3, GrowsBehind
  <2>4. IsMark(u, Len(u) + 1, q)
    BY <2>3, MarkNew
  <2> HIDE DEF e
  <2>5. \A k \in 1..Len(u) : k = Len(t) + 1 \/ k \in 1..Len(t)
    BY <1>0, <2>3
  <2>6. PICK m \in 0..p : IsMark(t, Len(t) + 1, m)
    BY DEF Reached
  <2>7. IsMark(u, Len(t) + 1, m)
    BY <1>0, <2>1, <2>3, <2>6, MarkBehind
  <2>8. ASSUME NEW k \in 1..Len(u) PROVE RightlyMarked(u, c, k, FALSE)
    <3>1. CASE k = Len(t) + 1
      <4>1. m \in Nat /\ m < q
        BY <2>6
      <4> QED BY <2>1, <2>2, <2>3, <2>7, <3>1, <4>1 DEF RightlyMarked
    <3>2. CASE k \in 1..Len(t)
      BY <2>1, <2>3, <3>2, RightlyBehind
    <3> QED BY <2>5, <3>1, <3>2
  <2>9. LaterMarks(u)
    <3>1. q > 1
      BY <1>2
    <3> QED BY <2>1, <2>3, <2>5, <3>1 DEF LaterMarks
  <2>10. Reached(u, c, n, q)
    <3>1. MarkFor(q, FALSE) = q /\ q \in 0..q
      BY <1>2 DEF MarkFor
    <3> QED BY <1>1a, <1>1c, <2>4, <3>1 DEF Reached
  <2> QED BY <2>8, <2>9, <2>10
<1>3. CASE p = 0
  <2>1. u = t
    BY <1>3
  <2>2. IsMark(t, Len(t) + 1, 0) /\ 0 \in 0..q
    BY <1>3 DEF Reached
  <2>3. ASSUME NEW f \in 1..Len(c), First(c, f) PROVE IsMark(t, Len(t) + 1, MarkFor(q, FALSE))
    <3>1. f = n
      <4>1. CASE f < n
        <5>1. f \in 1..n - 1
          BY <4>1
        <5>2. c[f].page <= p /\ c[f].page = 1
          BY <1>1, <2>3, <5>1 DEF First
        <5> QED BY <1>3, <5>2
      <4>2. CASE f > n
        <5>1. n \in 1..f - 1
          BY <4>2
        <5> QED BY <2>3, <5>1 DEF First
      <4> QED BY <4>1, <4>2
    <3>2. MarkFor(q, FALSE) = 0
      BY <2>3, <3>1 DEF MarkFor, First
    <3> QED BY <2>2, <3>2
  <2>4. Reached(t, c, n, q)
    BY <1>1a, <1>1c, <2>2, <2>3 DEF Reached
  <2> QED BY <2>1, <2>4
<1> QED BY <1>1b, <1>2, <1>3

LEMMA ReachedOne ==
  ASSUME NEW t, NEW c, NEW n \in Nat, NEW p \in Nat, n >= 1, n <= Len(c), Len(c) \in Nat,
         \A i \in 1..Len(c) : c[i].page \in Nat,
         Seen(c, n), c[n].page <= p, Reached(t, c, n, p), Ascends(c, n)
  PROVE  p = c[n].page /\ p >= 1
<1>1. n \in 1..n /\ c[n].page \in Nat
  OBVIOUS
<1>2. PICK f \in 1..n : First(c, f)
  BY DEF Ascends
<1>3. c[f].page = 1 /\ c[f].page <= c[n].page
  BY <1>1, <1>2 DEF First, Ascends
<1>4. p >= 1
  BY <1>1, <1>3
<1>5. PICK j \in 1..n : j <= Len(c) /\ Seen(c, j) /\ p = c[j].page
  BY <1>4 DEF Reached
<1>6. c[j].page <= c[n].page
  BY <1>1, <1>5 DEF Ascends
<1> QED BY <1>1, <1>4, <1>5, <1>6

LEMMA ReachedNext ==
  ASSUME NEW t, NEW u, NEW c, NEW n \in Nat, NEW p \in Nat, n >= 1, n <= Len(c), Len(c) \in Nat,
         \A i \in 1..Len(c) : c[i].page \in Nat, Seen(c, n) => c[n].page <= p,
         Reached(t, c, n, p),
         \A m : IsMark(t, Len(t) + 1, m) => IsMark(u, Len(u) + 1, m)
  PROVE  Reached(u, c, n + 1, p)
<1>1. ASSUME NEW i \in 1..(n + 1) - 1, Seen(c, i) PROVE c[i].page <= p
  <2>1. i = n \/ i \in 1..n - 1
    OBVIOUS
  <2> QED BY <1>1, <2>1 DEF Reached
<1>2. \E m \in 0..p : IsMark(u, Len(u) + 1, m)
  BY DEF Reached
<1>3. (\E f \in 1..Len(c) : First(c, f)) => IsMark(u, Len(u) + 1, MarkFor(p, FALSE))
  BY DEF Reached
<1>4. \A j \in 1..n : j \in 1..n + 1
  OBVIOUS
<1>5. p = 0 \/ \E j \in 1..n + 1 : j <= Len(c) /\ Seen(c, j) /\ p = c[j].page
  BY <1>4 DEF Reached
<1> QED BY <1>1, <1>2, <1>3, <1>5 DEF Reached

LEMMA EmissionMarks ==
  ASSUME NEW t \in Seq(Parts), NEW c, NEW n \in Nat, NEW p \in Nat,
         n >= 1, n <= Len(c), Len(c) \in Nat, \A i \in 1..Len(c) : c[i].page \in Nat,
         Seen(c, n), c[n].page <= p,
         \A k \in 1..Len(t) : RightlyMarked(t, c, k, FALSE),
         LaterMarks(t), Reached(t, c, n, p),
         NEW e \in Parts, Renders(e), e[2] = n
  PROVE  LET u == Append(t, e)
         IN  /\ \A k \in 1..Len(u) : RightlyMarked(u, c, k, FALSE)
             /\ LaterMarks(u) /\ Reached(u, c, n + 1, p)
<1> DEFINE u == Append(t, e)
<1>1. ~IsMarker(e)
  BY DEF Renders, IsMarker
<1>2. /\ Len(t) \in Nat /\ Len(u) = Len(t) + 1
      /\ u[Len(t) + 1] = e /\ \A k \in 1..Len(t) : u[k] = t[k]
  BY GrowsBehind
<1>3. \A k \in 1..Len(u) : k = Len(t) + 1 \/ k \in 1..Len(t)
  BY <1>2
<1>4. \A m : IsMark(t, Len(t) + 1, m) => IsMark(u, Len(u) + 1, m)
  BY <1>1, MarkPast
<1>5. \A m : IsMark(t, Len(t) + 1, m) => IsMark(u, Len(t) + 1, m)
  <2>1. Len(t) + 1 \in 1..Len(t) + 1
    BY <1>2
  <2> QED BY <2>1, MarkBehind
<1>6. \A k \in 1..Len(t) : RightlyMarked(u, c, k, FALSE)
  BY RightlyBehind
<1> HIDE DEF u
<1>7. RightlyMarked(u, c, Len(t) + 1, FALSE)
  <2>1. ASSUME Ascends(c, n)
        PROVE  c[n].page \in Nat /\ c[n].page >= 1 /\ IsMark(u, Len(t) + 1, MarkFor(c[n].page, FALSE))
    <3>1. p = c[n].page /\ p >= 1
      BY <2>1, ReachedOne
    <3>2. \E f \in 1..Len(c) : First(c, f)
      <4>1. \A f \in 1..n : f \in 1..Len(c)
        OBVIOUS
      <4> QED BY <2>1, <4>1 DEF Ascends
    <3>3. IsMark(t, Len(t) + 1, MarkFor(p, FALSE))
      BY <3>2 DEF Reached
    <3> QED BY <1>5, <3>1, <3>3
  <2> QED BY <1>1, <1>2, <2>1 DEF RightlyMarked
<1>8. LaterMarks(u)
  <2>1. ASSUME NEW k \in 1..Len(u), IsMarker(u[k]) PROVE u[k][2] \in Nat /\ u[k][2] > 1
    <3>1. k \in 1..Len(t) /\ u[k] = t[k]
      BY <1>1, <1>2, <1>3, <2>1
    <3> QED BY <2>1, <3>1 DEF LaterMarks
  <2> QED BY <2>1 DEF LaterMarks
<1>9. Reached(u, c, n + 1, p)
  BY <1>4, ReachedNext
<1>10. \A k \in 1..Len(u) : RightlyMarked(u, c, k, FALSE)
  BY <1>3, <1>6, <1>7
<1> QED BY <1>8, <1>9, <1>10 DEF u

LEMMA FirstPageMarks ==
  ASSUME NEW t, NEW u, NEW c, Put(t, Marker(1), u),
         \A k \in 1..Len(t) : RightlyMarked(t, c, k, FALSE), LaterMarks(t)
  PROVE  \A k \in 1..Len(u) : RightlyMarked(u, c, k, TRUE)
<1>1. /\ Len(t) \in Nat /\ Len(u) = Len(t) + 1 /\ u[1] = Marker(1)
      /\ \A k \in 1..Len(t) : u[k + 1] = t[k]
  BY PutKeeps
<1>2. RightlyMarked(u, c, 1, TRUE)
  <2>1. u[1][1] = "marker" /\ u[1][2] = 1
    BY <1>1 DEF Marker
  <2>2. IsMark(u, 1, 0)
    BY DEF IsMark
  <2>3. ~Renders(u[1]) /\ 0 < u[1][2]
    BY <2>1 DEF Renders
  <2> QED BY <2>2, <2>3 DEF RightlyMarked
<1>3. ASSUME NEW k \in 1..Len(t) PROVE RightlyMarked(u, c, k + 1, TRUE)
  <2>1. k \in 1..Len(t) + 1 /\ u[k + 1] = t[k]
    BY <1>1
  <2>2. \A n : IsMark(t, k, n) => IsMark(u, k + 1, n) \/ (n = 0 /\ IsMark(u, k + 1, 1))
    BY <2>1, FirstMarkInFront
  <2>3. RightlyMarked(t, c, k, FALSE)
    OBVIOUS
  <2>4. ASSUME IsMarker(t[k]) PROVE \E n \in Nat : n < t[k][2] /\ IsMark(u, k + 1, n)
    <3>1. PICK n \in Nat : n < t[k][2] /\ IsMark(t, k, n)
      BY <2>3, <2>4 DEF RightlyMarked
    <3>2. 1 < t[k][2] /\ 1 \in Nat
      BY <2>4 DEF LaterMarks
    <3> QED BY <2>2, <3>1, <3>2
  <2>5. ASSUME Renders(t[k]), Ascends(c, t[k][2])
        PROVE  /\ c[t[k][2]].page \in Nat /\ c[t[k][2]].page >= 1
               /\ IsMark(u, k + 1, MarkFor(c[t[k][2]].page, TRUE))
    <3> DEFINE p == c[t[k][2]].page
    <3>1. p \in Nat /\ p >= 1 /\ IsMark(t, k, MarkFor(p, FALSE))
      BY <2>3, <2>5 DEF RightlyMarked
    <3> HIDE DEF p
    <3>2. CASE p > 1
      <4>1. MarkFor(p, FALSE) = p /\ MarkFor(p, TRUE) = p /\ p # 0
        BY <3>1, <3>2 DEF MarkFor
      <4>2. IsMark(u, k + 1, MarkFor(p, TRUE))
        BY <2>2, <3>1, <4>1
      <4> QED BY <3>1, <4>2 DEF p
    <3>3. CASE ~(p > 1)
      <4>1. MarkFor(p, FALSE) = 0 /\ MarkFor(p, TRUE) = 1 /\ p = 1
        BY <3>1, <3>3 DEF MarkFor
      <4>2. IsMark(t, k, 0)
        BY <3>1, <4>1
      <4>3. IsMark(u, k + 1, 0) \/ IsMark(u, k + 1, 1)
        BY <2>2, <4>2
      <4>4. ~IsMark(u, k + 1, 0)
        <5>1. 1 \in 1..(k + 1) - 1 /\ IsMarker(u[1])
          BY <1>1 DEF IsMarker, Marker
        <5>2. ~\E j \in 1..(k + 1) - 1 : u[j] = Marker(0)
          <6>1. ASSUME NEW j \in 1..(k + 1) - 1, u[j] = Marker(0) PROVE FALSE
            <7>1. u[j][1] = "marker" /\ u[j][2] = 0
              BY <6>1 DEF Marker
            <7>2. CASE j = 1
              BY <1>1, <7>1, <7>2 DEF Marker
            <7>3. CASE j # 1
              <8>1. j - 1 \in 1..Len(t) /\ (j - 1) + 1 = j
                BY <1>1, <7>3
              <8>2. u[j] = t[j - 1]
                BY <1>1, <8>1
              <8> QED BY <7>1, <8>1, <8>2 DEF LaterMarks, IsMarker
            <7> QED BY <7>2, <7>3
          <6> QED BY <6>1
        <5> QED BY <5>1, <5>2 DEF IsMark
      <4> QED BY <3>1, <4>1, <4>3, <4>4 DEF p
    <3> QED BY <3>2, <3>3
  <2> QED BY <2>1, <2>4, <2>5 DEF RightlyMarked
<1>4. ASSUME NEW k \in 1..Len(u) PROVE k = 1 \/ (k - 1 \in 1..Len(t) /\ (k - 1) + 1 = k)
  BY <1>1
<1>5. ASSUME NEW k \in 1..Len(u) PROVE RightlyMarked(u, c, k, TRUE)
  <2>1. CASE k = 1
    BY <1>2, <2>1
  <2>2. CASE k - 1 \in 1..Len(t) /\ (k - 1) + 1 = k
    <3>1. RightlyMarked(u, c, (k - 1) + 1, TRUE)
      BY <1>3, <2>2
    <3> QED BY <2>2, <3>1
  <2> QED BY <1>4, <2>1, <2>2
<1> QED BY <1>5

LEMMA MarksBehindFront ==
  ASSUME NEW t, NEW e, NEW u, NEW c, Put(t, e, u), ~IsMarker(e),
         \A k \in 1..Len(t) : RightlyMarked(t, c, k, TRUE)
  PROVE  \A k \in 1..Len(u) : RightlyMarked(u, c, k, TRUE)
<1>1. /\ Len(t) \in Nat /\ Len(u) = Len(t) + 1 /\ u[1] = e /\ Plain(e)
      /\ \A k \in 1..Len(t) : u[k + 1] = t[k]
  BY PutKeeps DEF Put
<1>2. RightlyMarked(u, c, 1, TRUE)
  BY <1>1 DEF RightlyMarked, Plain, Renders
<1>3. ASSUME NEW k \in 1..Len(t) PROVE RightlyMarked(u, c, k + 1, TRUE)
  <2>1. k \in 1..Len(t) + 1 /\ u[k + 1] = t[k]
    BY <1>1
  <2>2. \A n : IsMark(t, k, n) => IsMark(u, k + 1, n)
    BY <2>1, MarkInFront
  <2> QED BY <2>1, <2>2 DEF RightlyMarked
<1>4. ASSUME NEW k \in 1..Len(u) PROVE RightlyMarked(u, c, k, TRUE)
  <2>1. CASE k = 1
    BY <1>2, <2>1
  <2>2. CASE k # 1
    <3>1. k - 1 \in 1..Len(t) /\ (k - 1) + 1 = k
      BY <1>1, <2>2
    <3>2. RightlyMarked(u, c, (k - 1) + 1, TRUE)
      BY <1>3, <3>1
    <3> QED BY <3>1, <3>2
  <2> QED BY <2>1, <2>2
<1> QED BY <1>4

LEMMA MarksInvStep ==
  ASSUME DocInv0, MarksInv, DocNext
  PROVE  MarksInv'
<1>0. /\ at \in Nat /\ at >= 1 /\ Len(Contents) \in Nat /\ page \in Nat /\ text \in Seq(Parts)
      /\ \A i \in 1..Len(Contents) : Contents[i].page \in Nat
  BY StateFacts DEF DocInv0, DocTyping
<1>1. ASSUME Fixed PROVE Contents' = Contents /\ use' = use
  BY <1>1, FixedContents DEF Fixed
<1>2. CASE Enrich
  <2>1. /\ stage = "enriching" /\ UNCHANGED <<text, at, page, use, stage>>
    BY <1>2 DEF Enrich, textVars
  <2>2. text' = <<>> /\ at' = 1 /\ page' = 0
    BY <2>1 DEF DocInv0, DocTyping, Unwritten
  <2>3. Len(text') = 0
    BY <2>2, EmptySeq
  <2>4. IsMark(text', Len(text') + 1, 0) /\ MarkFor(0, FALSE) = 0
    BY <2>3 DEF IsMark, MarkFor
  <2>5. Reached(text', Contents', at', page')
    <3>1. 1..at' - 1 = {} /\ 0 \in 0..page' /\ ~(at' > 1)
      BY <2>2
    <3>2. \E m \in 0..page' : IsMark(text', Len(text') + 1, m)
      BY <2>4, <3>1
    <3>3. IsMark(text', Len(text') + 1, MarkFor(page', FALSE)) /\ page' = 0
      BY <2>2, <2>4
    <3> HIDE DEF Contents
    <3> QED BY <2>2, <3>1, <3>2, <3>3 DEF Reached
  <2>6. LaterMarks(text') /\ ~Assembled'
    BY <2>1, <2>3 DEF LaterMarks, Assembled
  <2> QED BY <2>3, <2>5, <2>6 DEF MarksInv
<1>3. CASE Still
  <2>1. /\ Contents' = Contents /\ use' = use /\ text' = text /\ at' = at /\ page' = page
        /\ Assembled' = Assembled
    BY <1>1, <1>3 DEF Still, Assembled
  <2> HIDE DEF Assembled
  <2> QED BY <2>1 DEF MarksInv
<1>4. ASSUME use.breaks, stage = "serializing"
      PROVE  /\ \A k \in 1..Len(text) : RightlyMarked(text, Contents, k, FALSE)
             /\ LaterMarks(text) /\ Reached(text, Contents, at, page)
  <2>1. Assembled = FALSE
    BY <1>4 DEF Assembled
  <2> QED BY <1>4, <2>1 DEF MarksInv
<1>5. ASSUME Fixed, stage' = "serializing",
             use.breaks => /\ \A k \in 1..Len(text') : RightlyMarked(text', Contents, k, FALSE)
                           /\ LaterMarks(text') /\ Reached(text', Contents, at', page')
      PROVE  MarksInv'
  <2>1. Assembled' = FALSE
    BY <1>5 DEF Assembled
  <2> QED BY <1>1, <1>5, <2>1 DEF MarksInv
<1>6. CASE Break
  <2>1. /\ at \in 1..Len(Contents) /\ page' = Contents[at].page /\ page' > page /\ page' \in Nat
        /\ Seen(Contents, at) /\ stage = "serializing" /\ Fixed /\ stage' = stage /\ at' = at
        /\ IF use.breaks /\ page > 0 THEN text' = Append(text, Marker(page')) ELSE text' = text
    BY <1>6, BrokenText
  <2>2. ASSUME use.breaks
        PROVE  /\ \A k \in 1..Len(text') : RightlyMarked(text', Contents, k, FALSE)
               /\ LaterMarks(text') /\ Reached(text', Contents, at, page')
    <3>1. IF page > 0 THEN text' = Append(text, Marker(page')) ELSE text' = text
      BY <2>1, <2>2
    <3>2. at <= Len(Contents)
      BY <2>1
    <3> QED BY <1>0, <1>4, <2>1, <2>2, <3>1, <3>2, BreakMarks
  <2> QED BY <1>5, <2>1, <2>2
<1>7. CASE Emission
  <2>1. /\ stage = "serializing" /\ at \in 1..Len(Contents)
        /\ Seen(Contents, at) => Contents[at].page <= page
        /\ at' = at + 1 /\ Fixed /\ stage' = stage /\ page' = page /\ at <= Len(Contents)
    BY <1>0, <1>7 DEF Emission
  <2>2. ASSUME use.breaks
        PROVE  /\ \A k \in 1..Len(text') : RightlyMarked(text', Contents, k, FALSE)
               /\ LaterMarks(text') /\ Reached(text', Contents, at + 1, page)
    <3>1. /\ \A k \in 1..Len(text) : RightlyMarked(text, Contents, k, FALSE)
          /\ LaterMarks(text) /\ Reached(text, Contents, at, page)
      BY <1>4, <2>1, <2>2
    <3>2. CASE text' = text
      <4>1. Reached(text, Contents, at + 1, page)
        BY <1>0, <2>1, <3>1, ReachedNext
      <4> QED BY <3>1, <3>2, <4>1
    <3>3. CASE \E e \in Parts : /\ text' = Append(text, e) /\ Renders(e) /\ e[2] = at
                                /\ Seen(Contents, at)
      <4>1. PICK e \in Parts : /\ text' = Append(text, e) /\ Renders(e) /\ e[2] = at
                               /\ Seen(Contents, at)
        BY <3>3
      <4> QED BY <1>0, <2>1, <3>1, <4>1, EmissionMarks
    <3> QED BY <1>7, <3>2, <3>3, EmittedPart
  <2> QED BY <1>5, <2>1, <2>2
<1>8. CASE Assemble
  <2>1. /\ stage = "serializing" /\ Fixed /\ at' = at /\ page' = page
        /\ stage' = IF use.caller = "save" THEN "images" ELSE "done"
    BY <1>8 DEF Assemble, Fixed
  <2>2. Assembled' = TRUE
    BY <1>1, <2>1 DEF Assembled
  <2>3. ASSUME use.breaks
        PROVE  \A k \in 1..Len(text') : RightlyMarked(text', Contents, k, TRUE)
    <3>1. PICK t, u \in Seq(Parts) :
             /\ IF ~use.breaks \/ (text # <<>> /\ text[1] = Marker(1)) THEN t = text
                                                                       ELSE Put(text, Marker(1), t)
             /\ IF use.matter THEN Put(t, <<"matter">>, u) ELSE u = t
             /\ IF use.keys THEN Put(u, <<"keys">>, text') ELSE text' = u
      BY <1>8, AssembleParts
    <3>2. /\ \A k \in 1..Len(text) : RightlyMarked(text, Contents, k, FALSE)
          /\ LaterMarks(text)
      BY <1>4, <2>1, <2>3
    <3>3. ~(text # <<>> /\ text[1] = Marker(1))
      <4>1. ASSUME text # <<>>, text[1] = Marker(1) PROVE FALSE
        <5>1. 1 \in 1..Len(text)
          BY <1>0, <4>1, EmptySeq
        <5>2. IsMarker(text[1]) /\ text[1][2] = 1
          BY <4>1 DEF IsMarker, Marker
        <5> QED BY <3>2, <5>1, <5>2 DEF LaterMarks
      <4> QED BY <4>1
    <3>4. Put(text, Marker(1), t)
      BY <2>3, <3>1, <3>3
    <3>5. \A k \in 1..Len(t) : RightlyMarked(t, Contents, k, TRUE)
      BY <3>2, <3>4, FirstPageMarks
    <3>6. ~IsMarker(<<"matter">>) /\ ~IsMarker(<<"keys">>)
      BY DEF IsMarker
    <3>7. \A k \in 1..Len(u) : RightlyMarked(u, Contents, k, TRUE)
      BY <3>1, <3>5, <3>6, MarksBehindFront
    <3> QED BY <3>1, <3>6, <3>7, MarksBehindFront
  <2> QED BY <1>1, <2>1, <2>2, <2>3 DEF MarksInv
<1> QED BY <1>2, <1>3, <1>6, <1>7, <1>8, DocSteps

-----------------------------------------------------------------------------
(* The inductive invariant.                                                         *)
DocInv == DocInv0 /\ TextInv /\ MatterInv /\ MarksInv

LEMMA DocInvInit ==
  ASSUME DocInit
  PROVE  DocInv
<1>1. /\ Init /\ body \in Bodies /\ use \in Uses /\ stage = "enriching" /\ at = 1 /\ page = 0
      /\ text = <<>> /\ saved = {} /\ Detections
  BY DEF DocInit, Detections
<1>2. ExcelInv
  BY <1>1, ExcelInit
<1>3. added \in Seq(Finds)
  BY <1>2 DEF ExcelInv, ExcelTyping
<1>4. text \in Seq(Parts) /\ Len(text) = 0
  BY <1>1, EmptySeq
<1>5. Len(Contents) \in Nat /\ DOMAIN Contents = 1..Len(Contents)
  BY <1>1, <1>3, ContentsParts
<1>6. DocTyping
  <2>1. at \in 1..Len(Contents) + 1
    BY <1>1, <1>5
  <2> QED BY <1>1, <1>4, <2>1 DEF DocTyping, Assembled
<1>7. TextInv
  <2>1. InOrder(text, Coming, at) /\ AllWhole(text, Contents, use.html)
    BY <1>1, <1>4 DEF InOrder, AllWhole
  <2>2. DOMAIN Names \subseteq Pictures /\ \A i \in Pictures : ~(i < 1)
    BY <1>5 DEF Pictures, Names, Linkable
  <2>3. LinksIn(text, Names, at)
    BY <1>1, <1>4, <2>2 DEF LinksIn
  <2> QED BY <1>1, <2>1, <2>3 DEF TextInv
<1>8. MatterInv
  BY <1>1 DEF MatterInv, Assembled
<1>9. MarksInv
  <2>1. IsMark(text, Len(text) + 1, 0) /\ MarkFor(page, FALSE) = 0
    BY <1>1, <1>4 DEF IsMark, MarkFor
  <2>2. LaterMarks(text)
    BY <1>4 DEF LaterMarks
  <2>3. Reached(text, Contents, at, page)
    <3>1. 1..at - 1 = {} /\ 0 \in 0..page /\ ~(at > 1) /\ page = 0
      BY <1>1
    <3> HIDE DEF Contents
    <3> QED BY <2>1, <3>1 DEF Reached
  <2> QED BY <1>4, <2>2, <2>3 DEF MarksInv
<1> QED BY <1>2, <1>6, <1>7, <1>8, <1>9 DEF DocInv, DocInv0

LEMMA ExcelStutter ==
  ASSUME ExcelInv, UNCHANGED vars
  PROVE  ExcelInv'
<1>1. UNCHANGED <<workbook, detected, phase, sheet, found, item, hashes, added>>
  BY DEF vars
<1>2. Searched' /\ ExcelTyping'
  <2>1. phase' # "search" => sheet > Len(workbook) \/ workbook[sheet].state = "broken"
    BY <1>1 DEF ExcelInv, Searched
  <2>2. added' \in Seq(Finds) /\ item' \in Nat
    BY <1>1 DEF ExcelInv, ExcelTyping
  <2> QED BY <1>1, <2>1, <2>2, FoundStays
<1>3. Compared'
  <2>1. KnownHashes' = KnownHashes
    BY <1>1 DEF KnownHashes
  <2> HIDE DEF KnownHashes
  <2> QED BY <1>1, <2>1 DEF ExcelInv, Compared
<1> QED BY <1>2, <1>3 DEF ExcelInv

LEMMA DocStutter ==
  ASSUME DocInv, UNCHANGED docVars
  PROVE  DocInv'
<1>1. Fixed /\ UNCHANGED vars /\ UNCHANGED <<body, use, stage, at, page, text, saved>>
  BY DEF docVars, textVars, Fixed
<1>2. ExcelInv'
  BY <1>1, ExcelStutter DEF DocInv, DocInv0
<1>3. Contents' = Contents /\ Names' = Names /\ Pictures' = Pictures /\ Coming' = Coming
  BY <1>1, FixedContents DEF Names
<1>4. Assembled' = Assembled /\ Unwritten' = Unwritten
  BY <1>1 DEF Assembled, Unwritten
<1>5. DocTyping'
  <2>1. DocTyping /\ Detections
    BY DEF DocInv, DocInv0, DocTyping
  <2>2. Detections'
    BY <1>1, <2>1 DEF vars, Detections
  <2> HIDE DEF Contents, Assembled, Unwritten
  <2> QED BY <1>1, <1>3, <1>4, <2>1, <2>2 DEF DocTyping
<1>6. TextInv'
  <2>1. {Name(i) : i \in Pictures}' = {Name(i) : i \in Pictures}
    BY <1>1, FixedContents
  <2> HIDE DEF Contents, Names, Coming
  <2> QED BY <1>1, <1>3, <2>1 DEF DocInv, TextInv
<1>7. MatterInv'
  BY <1>1, <1>4 DEF DocInv, MatterInv
<1>8. MarksInv'
  BY <1>1, <1>3, <1>4 DEF DocInv, MarksInv
<1> QED BY <1>2, <1>5, <1>6, <1>7, <1>8 DEF DocInv, DocInv0

LEMMA DocInvStep ==
  ASSUME DocInv, [DocNext]_docVars
  PROVE  DocInv'
<1>1. CASE UNCHANGED docVars
  BY <1>1, DocStutter
<1>2. CASE DocNext
  <2>1. ExcelInv'
    <3>1. ExcelInv
      BY DEF DocInv, DocInv0
    <3>2. CASE EnrichStep
      BY <3>1, <3>2, ExcelStep
    <3>3. CASE UNCHANGED vars
      BY <3>1, <3>3, ExcelStutter
    <3>4. EnrichStep \/ UNCHANGED vars
      <4>1. CASE Enrich
        BY <4>1 DEF Enrich
      <4>2. CASE Still \/ Break \/ Emission \/ Assemble
        BY <4>2 DEF Still, Fixed, Break, Emission, Assemble
      <4> QED BY <1>2, <4>1, <4>2, DocSteps DEF DocInv
    <3> QED BY <3>2, <3>3, <3>4
  <2>2. DocTyping'
    BY <1>2, <2>1, DocTypingStep DEF DocInv
  <2>3. TextInv'
    BY <1>2, <2>1, TextInvStep DEF DocInv
  <2>4. MatterInv'
    BY <1>2, MatterInvStep DEF DocInv
  <2>5. MarksInv'
    BY <1>2, MarksInvStep DEF DocInv
  <2> QED BY <2>1, <2>2, <2>3, <2>4, <2>5 DEF DocInv, DocInv0
<1> QED BY <1>1, <1>2

LEMMA DocInvariant == DocSpec => []DocInv
<1>1. DocInit => DocInv
  BY DocInvInit
<1>2. DocInv /\ [DocNext]_docVars => DocInv'
  BY DocInvStep
<1> QED BY <1>1, <1>2, PTL DEF DocSpec

LEMMA WholeText ==
  ASSUME DocInv, stage = "done"
  PROVE  /\ InOrder(text, Coming, Len(Contents) + 1) /\ AllWhole(text, Contents, use.html)
         /\ \A e \in Tagged("link") : \E i \in Linkable : e = <<"link", i, Name(i)>>
         /\ \A i \in Linkable : <<"link", i, Name(i)>> \in Tagged("link")
<1>1. /\ at = Len(Contents) + 1 /\ Len(Contents) \in Nat /\ DOMAIN text = 1..Len(text)
      /\ Linkable \subseteq 1..Len(Contents) /\ Assembled
  BY StateFacts DEF DocInv, DocInv0, DocTyping, Assembled, Pictures, Linkable
<1>2. InOrder(text, Coming, at) /\ AllWhole(text, Contents, use.html) /\ LinksIn(text, Names, at)
  BY DEF DocInv, TextInv
<1>3. DOMAIN Names = Linkable /\ \A i \in Linkable : Names[i] = Name(i)
  BY DEF Names
<1>4. ASSUME NEW e \in Tagged("link") PROVE \E i \in Linkable : e = <<"link", i, Name(i)>>
  <2>1. PICK k \in 1..Len(text) : text[k] = e /\ text[k][1] = "link"
    BY <1>1 DEF Tagged
  <2> QED BY <1>2, <1>3, <2>1 DEF LinksIn
<1>5. ASSUME NEW i \in Linkable PROVE <<"link", i, Name(i)>> \in Tagged("link")
  <2>1. i < at
    BY <1>1
  <2>2. PICK k \in 1..Len(text) : text[k] = <<"link", i, Name(i)>>
    BY <1>2, <1>3, <2>1 DEF LinksIn
  <2>3. text[k][1] = "link"
    BY <2>2
  <2> QED BY <1>1, <2>2, <2>3 DEF Tagged
<1> QED BY <1>1, <1>2, <1>4, <1>5

(* The items come out in order and each once, a table with its captions and itself.  *)
(* Only a formula with nothing in it, a hidden picture and, as HTML, a table whose     *)
(* export returns nothing are left out (of the last, the captions are not).            *)
THEOREM OrderKept == DocSpec => []ContentInOrder
<1>1. DocInv => ContentInOrder
  <2> SUFFICES ASSUME DocInv, stage = "done" PROVE ContentInOrder
    BY DEF ContentInOrder
  <2>1. /\ DOMAIN text = 1..Len(text) /\ DOMAIN Contents = 1..Len(Contents) /\ Len(Contents) \in Nat
    BY StateFacts DEF DocInv
  <2>2. InOrder(text, Coming, Len(Contents) + 1) /\ AllWhole(text, Contents, use.html)
    BY WholeText
  <2>3. 1..(Len(Contents) + 1) - 1 = 1..Len(Contents)
    BY <2>1
  <2>4. Rendered = {k \in 1..Len(text) : Renders(text[k])}
    BY <2>1 DEF Rendered, Renders
  <2>5. ASSUME NEW i \in DOMAIN Contents
        PROVE  \/ Contents[i].kind \in {"nothing", "hidden"}
               \/ use.html /\ Contents[i].kind = "blank" /\ ~Contents[i].captioned
               \/ \E k \in Rendered : text[k][2] = i
    <3>1. CASE i \in Coming
      BY <2>1, <2>2, <2>3, <2>4, <3>1 DEF InOrder
    <3>2. CASE i \notin Coming
      BY <3>2 DEF Coming, Gone
    <3> QED BY <3>1, <3>2
  <2>6. \A j, k \in Rendered : j < k => text[j][2] < text[k][2]
    BY <2>2, <2>4 DEF InOrder
  <2>7. ASSUME NEW k \in Rendered, text[k][1] = "item", Contents[text[k][2]].kind \in Tables
        PROVE  /\ Contents[text[k][2]].captioned => "captions" \in text[k][3]
               /\ \/ text[k][3] \cap {"gfm", "html"} # {}
                  \/ use.html /\ Contents[text[k][2]].kind = "blank"
    <3>1. k \in 1..Len(text)
      BY <2>4
    <3>2. Whole(Contents[text[k][2]], text[k][3], use.html)
      BY <2>2, <2>7, <3>1 DEF AllWhole
    <3> QED BY <2>7, <3>2 DEF Whole
  <2> HIDE DEF Contents, Rendered
  <2> QED BY <2>5, <2>6, <2>7 DEF ContentInOrder
<1> QED BY <1>1, DocInvariant, PTL

(* The text begins with the front matter, or, if there is a key section, with that      *)
(* and then the front matter.                                                            *)
THEOREM MatterFirst == DocSpec => []MatterLeads
<1>1. DocInv => MatterLeads
  BY DEF DocInv, MatterInv, Assembled, Led, MatterLeads
<1> QED BY <1>1, DocInvariant, PTL

(* The markers ascend, and an item stands under that of its page, if what is shown of  *)
(* the document begins with page 1 and its pages ascend up to the item.                 *)
THEOREM MarkersTrue == DocSpec => []MarkersNamePages
<1>1. DocInv => MarkersNamePages
  <2> SUFFICES ASSUME DocInv, stage = "done", use.breaks, NEW k \in DOMAIN text
               PROVE  /\ text[k][1] = "marker" => MarkerAt(k) < text[k][2]
                      /\ text[k][1] \in {"item", "link"} =>
                           LET i == text[k][2]
                               reached == {j \in 1..i : Contents[j].kind # "hidden"}
                           IN  /\ \E f \in reached : Contents[f].page = 1 /\ \A j \in reached : f <= j
                               /\ \A j, l \in reached : j <= l => Contents[j].page <= Contents[l].page
                               => MarkerAt(k) = Contents[i].page
    BY DEF MarkersNamePages
  <2>1. /\ k \in 1..Len(text) /\ k \in Nat /\ Len(Contents) \in Nat
    BY StateFacts DEF DocInv
  <2>2. RightlyMarked(text, Contents, k, TRUE)
    <3>1. Assembled = TRUE
      BY DEF Assembled
    <3> QED BY <2>1, <3>1 DEF DocInv, MarksInv
  <2>3. ASSUME text[k][1] = "marker" PROVE MarkerAt(k) < text[k][2]
    <3>1. PICK n \in Nat : n < text[k][2] /\ IsMark(text, k, n)
      BY <2>2, <2>3 DEF RightlyMarked, IsMarker
    <3>2. MarkerAt(k) = n
      BY <2>1, <3>1, MarkValue
    <3> QED BY <3>1, <3>2
  <2>4. ASSUME text[k][1] \in {"item", "link"}
        PROVE  LET i == text[k][2]
                   reached == {j \in 1..i : Contents[j].kind # "hidden"}
               IN  /\ \E f \in reached : Contents[f].page = 1 /\ \A j \in reached : f <= j
                   /\ \A j, l \in reached : j <= l => Contents[j].page <= Contents[l].page
                   => MarkerAt(k) = Contents[i].page
    <3> DEFINE i == text[k][2]
               reached == {j \in 1..i : Contents[j].kind # "hidden"}
    <3>1. i \in 1..Len(Contents)
      <4>1. i \in 1..(Len(Contents) + 1) - 1
        BY <2>1, <2>4, WholeText DEF InOrder, Renders
      <4> QED BY <2>1, <4>1
    <3> SUFFICES ASSUME \E f \in reached : Contents[f].page = 1 /\ \A j \in reached : f <= j,
                        \A j, l \in reached : j <= l => Contents[j].page <= Contents[l].page
                 PROVE  MarkerAt(k) = Contents[i].page
      OBVIOUS
    <3>2. \A j \in 1..i : j \in reached <=> Seen(Contents, j)
      BY DEF Seen
    <3>3. reached \subseteq 1..i /\ i \in Nat
      BY <2>1, <3>1
    <3> HIDE DEF reached
    <3>4. \E f \in 1..i : First(Contents, f)
      <4>1. PICK f \in reached : Contents[f].page = 1 /\ \A j \in reached : f <= j
        OBVIOUS
      <4>2. ASSUME NEW l \in 1..f - 1 PROVE ~Seen(Contents, l)
        <5>1. l \in 1..i /\ ~(f <= l)
          BY <3>3
        <5> QED BY <3>2, <4>1, <5>1
      <4>3. f \in 1..i /\ Seen(Contents, f)
        BY <3>2, <3>3
      <4> QED BY <4>1, <4>2, <4>3 DEF First
    <3>5. Ascends(Contents, i)
      BY <3>2, <3>4 DEF Ascends
    <3>6. /\ Contents[i].page \in Nat /\ Contents[i].page >= 1
          /\ IsMark(text, k, MarkFor(Contents[i].page, TRUE))
      BY <2>2, <2>4, <3>5 DEF RightlyMarked, Renders
    <3>7. MarkFor(Contents[i].page, TRUE) = Contents[i].page
      BY DEF MarkFor
    <3> QED BY <2>1, <3>6, <3>7, MarkValue
  <2> QED BY <2>3, <2>4
<1> QED BY <1>1, DocInvariant, PTL

(* The pictures of a workbook's document are pictures of its sheets.                    *)
LEMMA PictureOnSheet ==
  ASSUME DocInv, workbook # <<>>, NEW i \in Pictures
  PROVE  /\ Contents[i].page \in DOMAIN workbook /\ Contents[i].page # 0
         /\ \E m \in Elements(Pictured(Contents[i].page)) : m.image = Contents[i].image
<1>0. ExcelInv /\ Detections
  BY DEF DocInv, DocInv0, DocTyping
<1>1. /\ Len(body) \in Nat /\ Len(added) \in Nat /\ Len(Contents) = Len(body) + Len(added)
      /\ DOMAIN Contents = 1..Len(Contents) /\ DOMAIN body = 1..Len(body)
      /\ \A j \in 1..Len(body) : Contents[j] = body[j]
      /\ \A k \in 1..Len(added) : Contents[Len(body) + k] = Recovered(k)
  BY <1>0, ContentsParts, BodyIsSeq DEF ExcelInv, ExcelTyping, Detections
<1>2. Len(workbook) \in Nat /\ DOMAIN workbook = 1..Len(workbook)
  BY <1>0, WorkbookIsSeq DEF ExcelInv, ExcelTyping
<1>3. i \in 1..Len(Contents) /\ Contents[i].kind \in PictureKinds
  BY <1>1 DEF Pictures
<1>4. CASE i <= Len(body)
  <2>1. i \in DOMAIN body /\ Contents[i] = body[i]
    BY <1>1, <1>3, <1>4
  <2> DEFINE p == [image |-> body[i].image, page |-> body[i].page]
  <2>2. p \in detected /\ body[i].page \in DOMAIN workbook
    BY <1>0, <1>3, <2>1 DEF Detections
  <2>3. OnPage(p)
    BY <1>0, <2>2 DEF ExcelInv, ExcelTyping
  <2>4. \E m \in Elements(Pictured(body[i].page)) : m.image = body[i].image
    BY <2>3 DEF OnPage
  <2> HIDE DEF p
  <2> QED BY <1>2, <2>1, <2>2, <2>4
<1>5. CASE ~(i <= Len(body))
  <2>1. PICK k \in 1..Len(added) : i = Len(body) + k
    <3>1. i - Len(body) \in 1..Len(added) /\ i = Len(body) + (i - Len(body))
      BY <1>1, <1>3, <1>5
    <3> QED BY <3>1
  <2>2. Contents[i] = Recovered(k)
    BY <1>1, <2>1
  <2>3. Contents[i].page = added[k].page /\ Contents[i].image = added[k].media.image
    BY <2>2 DEF Recovered
  <2>4. PICK j \in 1..Len(found) : added[k] = found[j]
    BY <1>0 DEF ExcelInv, Compared
  <2>5. PICK s \in DOMAIN Showing(sheet - 1) : found[j].page = s /\ found[j].media \in Showing(sheet - 1)[s]
    BY <1>0 DEF ExcelInv, Searched, FoundOn
  <2>6. s \in 1..sheet - 1 /\ Showing(sheet - 1)[s] = Elements(Pictured(s))
    BY <2>5 DEF Showing
  <2>7. s \in 1..Len(workbook)
    BY <1>0, <1>2, <2>6 DEF ExcelInv, Searched
  <2> QED BY <1>2, <2>3, <2>4, <2>5, <2>6, <2>7
<1> QED BY <1>1, <1>3, <1>4, <1>5

(* A link names a sheet that shows its picture, no other picture has its name, and      *)
(* what is saved is linked or hidden.                                                    *)
THEOREM LinksTrue == DocSpec => []LinksNameTheirPictures
<1>1. DocInv => LinksNameTheirPictures
  <2> SUFFICES ASSUME DocInv PROVE LinksNameTheirPictures
    OBVIOUS
  <2>0. body \in Bodies /\ added \in Seq(Finds) /\ DOMAIN text = 1..Len(text)
    BY StateFacts DEF DocInv
  <2>1. ASSUME NEW e \in Tagged("link") PROVE \E i \in Pictures : e = <<"link", i, Name(i)>>
    <3>1. PICK k \in 1..Len(text) : text[k] = e /\ text[k][1] = "link"
      BY <2>0 DEF Tagged
    <3> QED BY <3>1 DEF DocInv, TextInv, LinksIn, Names, Linkable
  <2>2. ASSUME NEW e \in Tagged("link"), workbook # <<>>
        PROVE  /\ e[3][1] \in DOMAIN workbook
               /\ \E m \in Elements(Pictured(e[3][1])) : m.image = Contents[e[2]].image
    <3>1. PICK i \in Pictures : e = <<"link", i, Name(i)>>
      BY <2>1
    <3>2. /\ Contents[i].page \in DOMAIN workbook /\ Contents[i].page # 0
          /\ \E m \in Elements(Pictured(Contents[i].page)) : m.image = Contents[i].image
      BY <2>2, PictureOnSheet
    <3>3. Name(i)[1] = Contents[i].page
      BY <3>2 DEF Name
    <3>4. e[2] = i /\ e[3] = Name(i)
      BY <3>1
    <3> QED BY <3>2, <3>3, <3>4
  <2>3. ASSUME NEW e \in Tagged("link"), NEW i \in Pictures, Name(i) = e[3] PROVE i = e[2]
    <3>1. PICK j \in Pictures : e = <<"link", j, Name(j)>>
      BY <2>1
    <3>2. Name(i) = Name(j) /\ e[2] = j
      BY <2>3, <3>1
    <3> QED BY <2>0, <3>2, NamesAreTheirOwn
  <2>4. ASSUME stage = "done"
        PROVE  saved \subseteq {e[3] : e \in Tagged("link")}
                               \cup {Name(i) : i \in {j \in Pictures : Contents[j].kind = "hidden"}}
    <3>1. ASSUME NEW i \in Linkable PROVE Name(i) \in {e[3] : e \in Tagged("link")}
      <4> DEFINE e == <<"link", i, Name(i)>>
      <4>1. e \in Tagged("link") /\ e[3] = Name(i)
        BY <2>4, WholeText
      <4> HIDE DEF e
      <4> QED BY <4>1
    <3>2. \A i \in Pictures : i \in Linkable \/ Contents[i].kind = "hidden"
      BY DEF Linkable, Seen
    <3>3. saved \subseteq {Name(i) : i \in Pictures}
      BY DEF DocInv, TextInv
    <3> QED BY <3>1, <3>2, <3>3
  <2> QED BY <2>2, <2>3, <2>4 DEF LinksNameTheirPictures
<1> QED BY <1>1, DocInvariant, PTL

(* A picture of a sheet that could be read, and that PIL can load, is one of the        *)
(* document's.                                                                           *)
LEMMA ReadableIsKnown ==
  ASSUME DocInv, phase = "enriched", NEW s \in 1..Len(workbook), ReadableUpTo(s),
         NEW m \in Elements(Pictured(s)), m.quality = "good"
  PROVE  \E i \in Pictures : Contents[i].image = m.image
<1>0. ExcelInv /\ Detections
  BY DEF DocInv, DocInv0, DocTyping
<1>1. /\ Len(body) \in Nat /\ Len(added) \in Nat /\ Len(Contents) = Len(body) + Len(added)
      /\ DOMAIN Contents = 1..Len(Contents) /\ DOMAIN body = 1..Len(body)
      /\ \A j \in 1..Len(body) : Contents[j] = body[j]
      /\ \A k \in 1..Len(added) : Contents[Len(body) + k] = Recovered(k)
  BY <1>0, ContentsParts, BodyIsSeq DEF ExcelInv, ExcelTyping, Detections
<1>2. /\ Len(workbook) \in Nat /\ DOMAIN workbook = 1..Len(workbook) /\ workbook # <<>>
  BY <1>0, WorkbookIsSeq, EmptySeq DEF ExcelInv, ExcelTyping
<1>3. s \in 1..sheet - 1
  <2>1. sheet \in 1..Len(workbook) + 1 /\ (sheet > Len(workbook) \/ workbook[sheet].state = "broken")
    BY <1>0 DEF ExcelInv, Searched
  <2>2. ~(sheet <= s)
    <3>1. ASSUME sheet <= s PROVE FALSE
      <4>1. sheet \in 1..s /\ ~(sheet > Len(workbook))
        BY <1>2, <2>1, <3>1
      <4> QED BY <2>1, <4>1 DEF ReadableUpTo
    <3> QED BY <3>1
  <2> QED BY <1>2, <2>1, <2>2
<1>4. PICK k \in 1..Len(found) : found[k].media = m
  <2>1. s \in DOMAIN Showing(sheet - 1) /\ Showing(sheet - 1)[s] = Elements(Pictured(s))
    BY <1>3 DEF Showing
  <2> QED BY <1>0, <2>1 DEF ExcelInv, Searched, FoundOn
<1>5. Hash(m) \in KnownHashes
  <2>1. k \in 1..item - 1
    <3>1. item > Len(found) /\ item \in 1..Len(found) + 1 /\ Len(found) \in Nat
      BY <1>0, LenProperties DEF ExcelInv, Compared, ExcelTyping
    <3> QED BY <3>1
  <2> QED BY <1>0, <1>4, <2>1 DEF ExcelInv, Compared
<1>6. CASE \E p \in detected : Hash(m) = <<p.image, "png">>
  <2>1. PICK p \in detected : Hash(m) = <<p.image, "png">>
    BY <1>6
  <2>2. p.image = m.image
    BY <2>1 DEF Hash
  <2>3. PICK j \in DOMAIN body : body[j].kind \in PictureKinds /\ p = [image |-> body[j].image, page |-> body[j].page]
    BY <1>0, <1>2 DEF Detections
  <2>4. j \in DOMAIN Contents /\ Contents[j] = body[j]
    BY <1>1
  <2> QED BY <2>2, <2>3, <2>4 DEF Pictures
<1>7. CASE \E q \in 1..Len(added) : Hash(m) = Hash(added[q].media)
  <2>1. PICK q \in 1..Len(added) : Hash(m) = Hash(added[q].media)
    BY <1>7
  <2>2. added[q].media.image = m.image
    BY <2>1 DEF Hash
  <2>3. Len(body) + q \in DOMAIN Contents /\ Contents[Len(body) + q] = Recovered(q)
    BY <1>1
  <2>4. Recovered(q).kind = "picture" /\ Recovered(q).image = added[q].media.image
    BY DEF Recovered
  <2>5. Len(body) + q \in Pictures
    BY <2>3, <2>4 DEF Pictures, PictureKinds
  <2> QED BY <2>2, <2>3, <2>4, <2>5
<1> QED BY <1>5, <1>6, <1>7 DEF KnownHashes

(* Every picture of a workbook that PIL can load is linked in the Markdown, those of    *)
(* the sheets before a malformed one included, unless an exception stopped the adding   *)
(* or docling has it and hides it.                                                       *)
THEOREM AllPicturesLinked == DocSpec => []NothingIsLost
<1>1. DocInv => NothingIsLost
  <2> SUFFICES ASSUME DocInv, stage = "done", phase = "enriched",
                      NEW s \in 1..Len(workbook), ReadableUpTo(s),
                      NEW m \in Elements(Pictured(s)), m.quality = "good"
               PROVE  \/ \E e \in Tagged("link") : Contents[e[2]].image = m.image
                      \/ \E i \in Pictures : Contents[i].kind = "hidden" /\ Contents[i].image = m.image
    BY DEF NothingIsLost
  <2>1. PICK i \in Pictures : Contents[i].image = m.image
    BY ReadableIsKnown
  <2>2. CASE Contents[i].kind = "hidden"
    BY <2>1, <2>2
  <2>3. CASE Contents[i].kind # "hidden"
    <3> DEFINE e == <<"link", i, Name(i)>>
    <3>1. i \in Linkable
      BY <2>3 DEF Linkable, Seen
    <3>2. e \in Tagged("link") /\ e[2] = i
      BY <3>1, WholeText
    <3> HIDE DEF e
    <3> QED BY <2>1, <3>2
  <2> QED BY <2>2, <2>3
<1> QED BY <1>1, DocInvariant, PTL
=============================================================================
