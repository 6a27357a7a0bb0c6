------------------------------- MODULE Hud -------------------------------
(***************************************************************************)
(* The loader of FireChat: the one JGProgressHUD that every screen shares  *)
(* (UIViewController.hud), as a value and the calls that change it.        *)
(***************************************************************************)
CONSTANT NoView   \* no target view

(* view: the target view (a weak reference).  moving: an animation runs,   *)
(* "in" or "out", or "no".  then: dismiss when the animation is over.      *)
HudType(Views) == [view : Views \cup {NoView}, moving : {"no", "in", "out"},
                   then : BOOLEAN]

Hidden == [view |-> NoView, moving |-> "no", then |-> FALSE]

(* A call while an animation runs, or while it is visible, is ignored.     *)
ShowIn(h, v) ==
    IF h.moving # "no" \/ h.view # NoView THEN h
    ELSE [h EXCEPT !.view = v, !.moving = "in"]

(* A call while an animation runs is kept for its end.                     *)
Dismiss(h) ==
    IF h.moving # "no" THEN [h EXCEPT !.then = TRUE]
    ELSE IF h.view = NoView THEN h
    ELSE [h EXCEPT !.moving = "out"]

(* Variant: what was asked for during the animation is forgotten.          *)
ForgetAnimation(h) ==
    IF h.moving = "out" THEN Hidden ELSE [h EXCEPT !.moving = "no", !.then = FALSE]

(* The animation is over.                                                  *)
EndAnimation(h) ==
    IF h.moving = "out" THEN Hidden
    ELSE LET shown == [h EXCEPT !.moving = "no", !.then = FALSE]
         IN  IF h.then THEN Dismiss(shown) ELSE shown

(* Variant: the target view is kept.                                       *)
Anywhere(h, Views) == h

(* Views that are gone do not hold it any more.                            *)
Within(h, Views) == IF h.view \in Views THEN h ELSE [h EXCEPT !.view = NoView]

(* It takes the touches of its view, until it fades out.                   *)
Covers(h, v) == h.view = v /\ h.moving # "out"
=============================================================================
