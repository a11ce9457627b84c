---------------------------- MODULE RecordPanel ----------------------------
(***************************************************************************)
(* The record panel of the console and the views one can move between: a   *)
(* main view, and an errors view that exists only while there are errors.  *)
(* Errors found while it does not exist wait for the next layout.          *)
(***************************************************************************)
EXTENDS Naturals, Sequences

CONSTANTS Blank, NoView

\* main: what the main view shows.  errors: what the errors view shows, or NoView.
\* pending: the errors that wait.  Texts are named by what they are about.
\* focus is curView, counted from 1.
NewPanel == [main |-> Blank, hasErrors |-> FALSE, errorsOnly |-> FALSE,
             pending |-> Blank, errors |-> NoView]
NewScreen == [panel |-> NewPanel, views |-> <<"Files", "Records", "Header">>, focus |-> 1]

\* The errors view is left to the next layout.
Clear(p) == [p EXCEPT !.main = Blank, !.hasErrors = FALSE, !.errorsOnly = FALSE,
                      !.pending = Blank]

\* Written at once into a view that is there.
WriteErrors(p, about) ==
  IF p.errors = NoView THEN [p EXCEPT !.pending = about]
                       ELSE [p EXCEPT !.errors = about, !.pending = Blank]

RenderReadError(p, about) ==
  WriteErrors([p EXCEPT !.hasErrors = TRUE, !.errorsOnly = TRUE], about)

RenderErrors(p, about) == WriteErrors([p EXCEPT !.hasErrors = TRUE], about)

PopulateContent(p, about) == [p EXCEPT !.main = about]

ViewNames(p) ==
  IF p.errorsOnly THEN <<"Errors">>
  ELSE IF p.hasErrors THEN <<"Header", "Errors">> ELSE <<"Header">>

\* Layout of the panel: the errors view comes, with the errors that waited, or goes.
PanelLayout(p) ==
  IF ~p.hasErrors THEN [p EXCEPT !.errors = NoView]
  ELSE IF p.pending # Blank THEN [p EXCEPT !.errors = p.pending, !.pending = Blank]
  ELSE [p EXCEPT !.errors = IF @ = NoView THEN Blank ELSE @]

Clamp_Never(focus, views) == focus

\* The focus stays within the views there are.
Clamp(focus, views) == IF focus > Len(views) THEN Len(views) ELSE focus

ScreenLayout(s) ==
  LET panel == PanelLayout(s.panel)
      views == <<"Files", "Records">> \o ViewNames(panel)
  IN [panel |-> panel, views |-> views, focus |-> Clamp(s.focus, views)]

NextView(s) == [s EXCEPT !.focus = IF @ = Len(s.views) THEN 1 ELSE @ + 1]
PrevView(s) == [s EXCEPT !.focus = IF @ = 1 THEN Len(s.views) ELSE @ - 1]
=============================================================================
