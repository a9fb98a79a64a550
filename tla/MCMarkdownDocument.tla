------------------------- MODULE MCMarkdownDocument -------------------------
(* Values for the runs of MarkdownDocument and ExcelImages. *)
EXTENDS MarkdownDocument

CONSTANTS a, b, none

File(i, how, q) == [image |-> i, stored |-> how, quality |-> q]
SomeMedia == {File(a, "png", "good"), File(a, "otherwise", "good"),
              File(b, "otherwise", "unsavable"), File(b, "png", "unopenable")}

Drawing(two, one) == [state |-> "drawing", two |-> two, one |-> one]
AtMostOne == {<<>>} \cup {<<m>> : m \in SomeMedia \cup {none}}
Sheets == {Drawing(two, one) : two \in AtMostOne, one \in AtMostOne}
            \cup {[state |-> s, two |-> <<>>, one |-> <<>>] : s \in {"plain", "broken"}}
TwoSheets == {<<>>} \cup {<<s>> : s \in Sheets} \cup {<<s, q>> : s \in Sheets, q \in Sheets}

Item(k, p) == [kind |-> k, page |-> p, image |-> none, captioned |-> FALSE]
Captioned(k, p) == [Item(k, p) EXCEPT !.captioned = TRUE]
Picture(i, p) == [Item("picture", p) EXCEPT !.image = i]
Hidden(i, p) == [Item("hidden", p) EXCEPT !.image = i]
Detected(p) == {<<>>, <<Picture(a, p)>>}
SomeBodies ==
  {<<Captioned("merged", 1)>> \o d \o e : d \in Detected(1), e \in {<<>>} \cup
                                       {<<Item("table", 2)>> \o f : f \in Detected(2)}}
    \cup { <<Hidden(a, 1), Captioned("failing", 1), Item("table", 2)>>,
           <<Picture(none, 1), Item("text", 3), Hidden(b, 2), Picture(b, 3), Item("formula", 3)>>,
           <<Item("undecoded", 2), Item("text", 0), Picture(b, 0), Item("nothing", 1), Item("failing", 4)>>,
           <<Captioned("blank", 1), Item("blank", 1), Captioned("table", 3), Hidden(b, 4)>> }

Use(breaks, keys, html, caller) ==
  [breaks |-> breaks, keys |-> keys, html |-> html, matter |-> TRUE, caller |-> caller]
SomeUses ==
  {Use(TRUE, FALSE, TRUE, "save"), Use(TRUE, TRUE, TRUE, "assets"),
   [Use(FALSE, FALSE, FALSE, "render") EXCEPT !.matter = FALSE]}
=============================================================================
