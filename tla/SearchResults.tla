---------------------------- MODULE SearchResults ----------------------------
(***************************************************************************)
(* The results page of the search in the published documentation, as       *)
(* Doxygen's script makes it (documentation/html/search/search.js): rows   *)
(* that may have children, and the keys that walk through those displayed. *)
(*                                                                         *)
(* Texts are sequences of characters, in lower case.  Rows and children    *)
(* are counted from 1.  A document is the sequence of its rows, an         *)
(* operator's argument and result: SearchPage has the frame that it lives  *)
(* in.                                                                     *)
(***************************************************************************)
EXTENDS Integers, SequencesExt, FiniteSetsExt

CONSTANTS Plain,        \* the characters that the ids of rows keep
          searchData    \* the rows of each page: ids, and how many children

\* Doxygen sorts the rows of a page: those that begin alike are neighbours.
ASSUME DataAssumption ==
  \A page \in DOMAIN searchData :
    LET rows == searchData[page] IN
    /\ rows \in Seq([id : Seq(STRING), children : Nat])
    /\ \A i, j, k \in DOMAIN rows : \A n \in 1..Len(rows[i].id) :
         i < j /\ j < k /\ IsPrefix(SubSeq(rows[i].id, 1, n), rows[k].id)
           => IsPrefix(SubSeq(rows[i].id, 1, n), rows[j].id)

-----------------------------------------------------------------------------
(* The document.                                                           *)

\* An id writes every other character as '_' and its code.
convertToId(text) ==
  FlattenSeq([i \in DOMAIN text |-> IF text[i] \in Plain THEN <<text[i]>> ELSE <<"_", text[i]>>])

Space == " "

WithoutLeading(text) ==
  SubSeq(text, SelectInSeq(text \o <<"end">>, LAMBDA c : c # Space), Len(text))

WithoutTrailing(text) == Reverse(WithoutLeading(Reverse(text)))

\* What a frame without results holds: the empty frame, and nomatches.html.
NoResults == <<>>

\* createResults, and Search with the query of the location: the rows whose id
\* begins with it are displayed, their children are not.
Document(page, query) ==
  IF page \notin DOMAIN searchData
  THEN NoResults
  ELSE LET search == convertToId(WithoutTrailing(WithoutLeading(query))) IN
       [i \in DOMAIN searchData[page] |->
         [children  |-> searchData[page][i].children,
          displayed |-> IsPrefix(search, searchData[page][i].id),
          open      |-> FALSE]]

\* The children of a row are displayed or not; a row without any stays as it is.
SetOpen(doc, i, open) ==
  IF doc[i].children = 0 THEN doc ELSE [doc EXCEPT ![i].open = open]

Toggle(doc, i) == SetOpen(doc, i, ~doc[i].open)

-----------------------------------------------------------------------------
(* Moving through it.  What has the focus is named by a sequence.          *)

Item(i)     == <<"item", i>>
Child(i, c) == <<"child", i, c>>
Field       == <<"field">>          \* the search field of the page
InResults(focus) == focus[1] \in {"item", "child"}

\* Mutant: rows that are not displayed are not passed over.
NavNextAny(doc, i) == IF i \in DOMAIN doc THEN i ELSE 0

\* The first item from i on, and the last one up to i, that is displayed; 0: none.
NavNext(doc, i) == SelectInSubSeq(doc, i, Len(doc), LAMBDA row : row.displayed)
NavPrev(doc, i) == SelectLastInSubSeq(doc, 1, i, LAMBDA row : row.displayed)

\* Where the focus goes from an item.  (The children looked for are those of the
\* item before it, whichever item NavPrev found.)
NavUp(doc, i) ==
  LET found == NavPrev(doc, i - 1) IN
  IF found = 0 THEN Field
  ELSE IF doc[found].open /\ doc[i - 1].children > 0
       THEN Child(i - 1, doc[i - 1].children)
       ELSE Item(found)

ItemOr(i, here) == IF i = 0 THEN here ELSE Item(i)

NavDown(doc, i) ==
  IF doc[i].open THEN Child(i, 1) ELSE ItemOr(NavNext(doc, i + 1), Item(i))

\* Where it goes from a child.
NavChildUp(i, c) == IF c > 1 THEN Child(i, c - 1) ELSE Item(i)

NavChildDown(doc, i, c) ==
  IF c < doc[i].children THEN Child(i, c + 1) ELSE ItemOr(NavNext(doc, i + 1), Child(i, c))

\* What Nav and NavChild do for an arrow that is handled: focus and document.
Up(doc, at)   == IF at[1] = "item" THEN NavUp(doc, at[2]) ELSE NavChildUp(at[2], at[3])
Down(doc, at) == IF at[1] = "item" THEN NavDown(doc, at[2]) ELSE NavChildDown(doc, at[2], at[3])

Opened(doc, at, key) ==
  IF at[1] = "item" /\ key \in {"left", "right"} THEN SetOpen(doc, at[2], key = "right") ELSE doc

-----------------------------------------------------------------------------
(* ProcessKeys: which events of a key are handled.  A key that is kept down*)
(* repeats, by events whose first tells nothing new.                       *)

NoKey   == [lastKey |-> "none", repeatOn |-> FALSE]

ProcessKeys(keys, type, key) ==
  CASE type = "keydown"  -> [lastKey |-> key, repeatOn |-> FALSE]
    [] type = "keypress" -> [keys EXCEPT !.repeatOn = @ \/ keys.lastKey # "none"]
    [] type = "keyup"    -> NoKey

\* Mutant: the first keypress is handled too.
HandlesFirst(before, type, after) == type \in STRING /\ after.lastKey # "none"

\* Whether the event is handled, by what was known before it and is known after.
Handles(before, type, after) ==
  after.lastKey # "none" /\ (type = "keypress" => before.repeatOn)
=============================================================================
