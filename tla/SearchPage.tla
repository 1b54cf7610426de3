----------------------------- MODULE SearchPage -----------------------------
(***************************************************************************)
(* A page of the published documentation: its search box, the frame of     *)
(* results, and a user at keyboard and mouse.  Between the events of the   *)
(* user, timers run out and the frame loads.                               *)
(*                                                                         *)
(* A key goes down, repeats while it is held, and comes up; each of these  *)
(* events goes to what has the focus by then.  The user does not use the   *)
(* mouse while holding a key.                                              *)
(***************************************************************************)
EXTENDS SearchBox

CONSTANTS Text,         \* the texts that are typed
          MaxStray      \* bound: forgotten timers

ASSUME TextAssumption ==
  /\ <<>> \in Text /\ Text \subseteq Seq(STRING)
  /\ MaxStray \in Nat

VARIABLES box,          \* the search box
          doc,          \* the document in the frame
          keys,         \* lastKey and repeatOn of its searchResults
          held,         \* the key that is held
          repeated,     \* whether it has repeated
          typed         \* history: the text when a key last came up in the field,
                        \* while the field has kept the focus since

vars == <<box, doc, keys, held, repeated, typed>>

Key == {"letter", "up", "down", "left", "right", "enter", "escape"}

\* init_search selects the first section.
Init == /\ box  = OnSelectItem(Box, 0)
        /\ doc  = NoResults
        /\ keys = NoKey
        /\ held = "none" /\ repeated = FALSE
        /\ typed = <<>>

-----------------------------------------------------------------------------
(* Keys.                                                                   *)

\* The event of a key that Nav or NavChild of the item with the focus gets.
NavKey(type, key) ==
  LET after == ProcessKeys(keys, type, key)
      at    == box.focus
  IN
  /\ keys' = after
  /\ IF ~Handles(keys, type, after) THEN UNCHANGED <<box, doc>>
     ELSE /\ doc' = Opened(doc, at, after.lastKey)
          /\ box' = CASE after.lastKey = "up"     -> FocusOn(box, Up(doc, at))
                      [] after.lastKey = "down"   -> FocusOn(box, Down(doc, at))
                      [] after.lastKey = "escape" -> FocusOn(CloseResultsWindow(box), Field)
                      [] OTHER -> box

\* What goes down in the field edits it, in the menu it moves there, at a result
\* through the results; enter is left to the link, which may toggle its children.
KeyDown(key) ==
  /\ held \in {"none", key}
  /\ held' = key
  /\ repeated' = FALSE
  /\ \/ /\ box.focus = Field /\ key = "letter"
        /\ \E text \in Text : box' = [box EXCEPT !.value = text]
        /\ UNCHANGED <<doc, keys>>
     \/ /\ box.focus = Select
        /\ box' = OnSearchSelectKey(box, key)
        /\ UNCHANGED <<doc, keys>>
     \/ /\ InResults(box.focus) /\ key # "enter"
        /\ NavKey("keydown", key)
     \/ /\ box.focus[1] = "item" /\ key = "enter"
        /\ doc' = Toggle(doc, box.focus[2])
        /\ UNCHANGED <<box, keys>>
     \/ /\ box.focus = Field /\ key # "letter"
        /\ UNCHANGED <<box, doc, keys>>

\* Repetition, for the browsers that tell it by keypress.
KeyPress ==
  /\ held \notin {"none", "enter"}
  /\ InResults(box.focus)
  /\ repeated' = TRUE
  /\ NavKey("keypress", held)
  /\ UNCHANGED held

KeyUp(shift) ==
  /\ held # "none"
  /\ held' = "none"
  /\ repeated' = FALSE
  /\ IF box.focus = Field
     THEN box' = OnSearchFieldChange(box, doc, held, shift) /\ UNCHANGED <<doc, keys>>
     ELSE IF InResults(box.focus) /\ held # "enter"
     THEN NavKey("keyup", held)
     ELSE UNCHANGED <<box, doc, keys>>

-----------------------------------------------------------------------------
(* The mouse.                                                              *)

Mouse == held = "none" /\ UNCHANGED <<keys, held, repeated>>

\* Into the field, or out of everything.
Click(there) ==
  /\ Mouse
  /\ box.focus # there
  /\ box' = FocusOn(box, there)
  /\ UNCHANGED <<doc>>

\* A click takes the focus before it does anything.
ClickClose ==
  /\ Mouse
  /\ box.shown
  /\ box' = CloseResultsWindow(FocusOn(box, None))
  /\ UNCHANGED <<doc>>

ClickSection(id) ==
  /\ Mouse
  /\ box.menu
  /\ box.stray < MaxStray
  /\ box' = OnSelectItem(FocusOn(box, Select), id)
  /\ UNCHANGED <<doc>>

ClickItem(i) ==
  /\ Mouse
  /\ box.shown
  /\ i \in DOMAIN doc /\ doc[i].displayed
  /\ box' = FocusOn(box, Item(i))
  /\ doc' = Toggle(doc, i)

\* The mouse comes over the menu or its icon, and leaves it.
MouseOver == /\ Mouse
             /\ box' = OnSearchSelectShow(box)
             /\ UNCHANGED doc

MouseOut == /\ Mouse
            /\ box.menu /\ ~box.hideTimeout
            /\ box' = OnSearchSelectHide(box)
            /\ UNCHANGED doc

-----------------------------------------------------------------------------
(* Timers and the frame.                                                   *)

KeyTimer ==
  /\ \/ box.keyTimeout /\ box' = Search([box EXCEPT !.keyTimeout = FALSE])
     \/ box.stray > 0  /\ box' = Search([box EXCEPT !.stray = @ - 1])
  /\ UNCHANGED <<doc, keys, held, repeated>>

HideTimer ==
  /\ box.hideTimeout
  /\ box' = CloseSelectionWindow([box EXCEPT !.hideTimeout = FALSE])
  /\ UNCHANGED <<doc, keys, held, repeated>>

\* The frame has loaded its document, with a new searchResults; what had the focus
\* in the old one is gone.
Load ==
  /\ box.location # NoLocation
  /\ doc' = Document(box.location.page, box.location.query)
  /\ keys' = NoKey
  /\ box' = [box EXCEPT !.location = NoLocation, !.focus = IF InResults(@) THEN None ELSE @]
  /\ UNCHANGED <<held, repeated>>

-----------------------------------------------------------------------------

Step ==
  \/ \E key \in Key : KeyDown(key)
  \/ KeyPress
  \/ \E shift \in BOOLEAN : KeyUp(shift)
  \/ \E there \in {Field, None} : Click(there)
  \/ ClickClose
  \/ \E id \in DOMAIN indexSectionsWithContent : ClickSection(id)
  \/ \E i \in DOMAIN doc : ClickItem(i)
  \/ MouseOver \/ MouseOut
  \/ KeyTimer \/ HideTimer \/ Load

Noted == IF box'.focus # Field THEN <<>>
         ELSE IF held # "none" /\ held' = "none" THEN box'.value
         ELSE typed

Next == Step /\ typed' = Noted

Spec == Init /\ [][Next]_vars

\* The timer of the field runs out: the user pauses now and then.
FairSpec == Spec /\ WF_vars(KeyTimer /\ typed' = Noted)

-----------------------------------------------------------------------------
(* Properties.                                                             *)

\* The results that are displayed, in the order in which they are read.
Reading ==
  FlattenSeq([i \in DOMAIN doc |->
    IF ~doc[i].displayed THEN <<>>
    ELSE <<Item(i)>> \o [c \in 1..(IF doc[i].open THEN doc[i].children ELSE 0) |-> Child(i, c)]])

\* The keys for down and up go through the results in that order, whatever has
\* been found and whatever is open: none is passed over, none is hidden, up from
\* the first leads to the field, down from the last stays.
InOrder ==
  \A k \in DOMAIN Reading :
    /\ Down(doc, Reading[k]) = Reading[IF k < Len(Reading) THEN k + 1 ELSE k]
    /\ Up(doc, Reading[k])   = IF k = 1 THEN Field ELSE Reading[k - 1]

\* Within the results, a key that is pressed once moves once, though its events
\* go to the result moved from and to the result moved to.
Loads == box.location # NoLocation /\ box'.location = NoLocation

OneMove ==
  [][InResults(box.focus) /\ held # "none" /\ box'.focus # box.focus /\ ~Loads
       => held' # "none" /\ (repeated' => repeated)]_vars

\* What has been typed is searched, unless it is changed or left before; but for
\* its spaces, for a text that differs in them only is taken for the one searched,
\* and only within the sections there are.
Searched ==
  \A text \in Text \ {<<>>} :
    held = "none" /\ typed = text ~>
      \/ Squeeze(box.lastSearchValue) = Squeeze(text)
      \/ typed # text \/ box.value # text
      \/ NoSection(box.searchIndex)
=============================================================================
