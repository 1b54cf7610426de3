------------------------------ MODULE SearchBox ------------------------------
(***************************************************************************)
(* The search box of the published documentation (SearchBox of             *)
(* documentation/html/search/search.js): a field, a menu of sections, and  *)
(* the window of results.  The script runs on one thread, and its handlers *)
(* call each other, also by way of the browser: moving the focus from or to*)
(* the field calls its handlers of blur and focus on the spot.  So a       *)
(* handler is an operator from the state of the box to the next one.       *)
(*                                                                         *)
(* The state is a record:                                                  *)
(*   value, focus          the text in the field, and what has the focus   *)
(*   searchActive, searchIndex, lastSearchValue    as in the code          *)
(*   shown                 the results window and its close button, which  *)
(*                         are displayed together                          *)
(*   menu, hideTimeout     the menu, and its timer                         *)
(*   keyTimeout            the timer of the field, as the box knows it     *)
(*   stray                 timers of the field that the box has forgotten  *)
(*   location              what the frame of results is loading, if it is  *)
(***************************************************************************)
EXTENDS SearchResults

CONSTANTS Label,                        \* searchLabel
          indexSectionsWithContent      \* per section, from 0: initials that have a page

ASSUME LabelAssumption == Label \in Seq(STRING)

None   == <<"none">>       \* nothing has the focus
Select == <<"select">>     \* an item of the menu has it

NoPage     == <<>>          \* nomatches.html
NoLocation == [page |-> None, query |-> <<>>]

Box == [value |-> Label, focus |-> None, searchActive |-> FALSE, searchIndex |-> 0,
        lastSearchValue |-> <<>>, shown |-> FALSE, menu |-> FALSE, hideTimeout |-> FALSE,
        keyTimeout |-> FALSE, stray |-> 0, location |-> NoLocation]

\* The text without any space, as the box compares it.
Squeeze(text) == SelectSeq(text, LAMBDA c : c # Space)

-----------------------------------------------------------------------------
(* Activation and focus.                                                   *)

\* Activate: entering clears the label, leaving a box without results resets it.
Activate(box, isActive) ==
  IF isActive \/ box.shown
  THEN IF box.value = Label THEN [box EXCEPT !.value = <<>>, !.searchActive = TRUE] ELSE box
  ELSE [box EXCEPT !.value = Label, !.searchActive = FALSE, !.lastSearchValue = <<>>]

\* focus() and blur(), with OnSearchFieldFocus.  What is not displayed cannot have
\* the focus.
FocusOn(box, there) ==
  LET moved == [box EXCEPT !.focus = there] IN
  IF there = box.focus \/ (InResults(there) /\ ~box.shown) THEN box
  ELSE IF box.focus = Field THEN Activate(moved, FALSE)
  ELSE IF there = Field THEN Activate(moved, TRUE)
  ELSE moved

-----------------------------------------------------------------------------
(* Actions.                                                                *)

\* What is no more displayed loses the focus.
Hidden(box) == [box EXCEPT !.shown = FALSE, !.focus = IF InResults(@) THEN None ELSE @]

CloseResultsWindow(box) == Activate(Hidden(box), FALSE)

CloseSelectionWindow(box) ==
  [box EXCEPT !.menu = FALSE, !.focus = IF @ = Select THEN None ELSE @]

\* The initial is looked for among those of the section; an empty text has none,
\* and is found at the first.
PageOf(index, text) ==
  LET initials == indexSectionsWithContent[index] IN
  IF text = <<>> THEN <<index, Head(initials)>>
  ELSE IF Contains(initials, Head(text)) THEN <<index, Head(text)>>
  ELSE NoPage

\* Search forgets the timer first, even one that has not run out, and throws if
\* there is no such section.
NoSection(index) == index \notin DOMAIN indexSectionsWithContent

Search(box) ==
  LET text   == WithoutLeading(box.value)
      forgot == [box EXCEPT !.keyTimeout = FALSE, !.stray = IF box.keyTimeout THEN @ + 1 ELSE @]
  IN
  IF NoSection(box.searchIndex) THEN forgot
  ELSE [forgot EXCEPT !.location = [page |-> PageOf(box.searchIndex, text), query |-> text],
                      !.shown = TRUE, !.lastSearchValue = text]

-----------------------------------------------------------------------------
(* Event handlers.                                                         *)

OnSearchSelectShow(box) == [box EXCEPT !.menu = TRUE, !.hideTimeout = FALSE]
OnSearchSelectHide(box) == [box EXCEPT !.hideTimeout = TRUE]

\* Mutant: the timer is started for the first text only.
CompareOnce(box) ==
  IF box.lastSearchValue # <<>> THEN box
  ELSE [box EXCEPT !.keyTimeout = Squeeze(box.value) # <<>>]

\* A text that is not the last searched is searched later, none closes the window.
Compare(box) ==
  LET text == Squeeze(box.value) IN
  IF text = box.lastSearchValue THEN box
  ELSE IF text # <<>> THEN [box EXCEPT !.keyTimeout = TRUE]
  ELSE [Hidden(box) EXCEPT !.lastSearchValue = <<>>]

Escaped(box) ==
  LET left == FocusOn(box, None) IN
  Activate([left EXCEPT !.shown = FALSE, !.lastSearchValue = <<>>], FALSE)

\* The first result of the document in the frame, if there is one.
FirstResult(box, doc) ==
  IF NavNext(doc, 1) # 0 THEN FocusOn(box, Item(NavNext(doc, 1))) ELSE box

\* OnSearchFieldChange, which runs when a key is released in the field.
OnSearchFieldChange(box, doc, key, shift) ==
  LET untimed == [box EXCEPT !.keyTimeout = FALSE] IN
  CASE key \in {"down", "enter"} /\ shift  -> FocusOn(OnSearchSelectShow(untimed), Select)
    [] key \in {"down", "enter"} /\ ~shift -> Compare(FirstResult(untimed, doc))
    [] key = "escape" -> Escaped(untimed)
    [] OTHER -> Compare(untimed)

Searches(box) == Squeeze(box.value) # <<>> /\ box.searchActive

OnSelectItem(box, id) ==
  LET chosen == [box EXCEPT !.searchIndex = id] IN
  IF Searches(box) THEN Search(chosen) ELSE chosen

\* One item per section.  The key for down goes one beyond the last.
SelectItemCount == Cardinality(DOMAIN indexSectionsWithContent)

OnSearchSelectKey(box, key) ==
  CASE key = "down" /\ box.searchIndex < SelectItemCount -> OnSelectItem(box, box.searchIndex + 1)
    [] key = "up" /\ box.searchIndex > 0 -> OnSelectItem(box, box.searchIndex - 1)
    [] key \in {"enter", "escape"} ->
         LET chosen == OnSelectItem(box, box.searchIndex) IN
         IF Searches(box) /\ NoSection(box.searchIndex) THEN chosen
         ELSE FocusOn(CloseSelectionWindow(chosen), Field)
    [] OTHER -> box
=============================================================================
