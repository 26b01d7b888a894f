----------------------------- MODULE StockInterface -----------------------------
(***************************************************************************)
(* What the interface hooks promise the engine.  It makes and frees the    *)
(* elements and shows or hides them; a draw of one is of an element that   *)
(* exists, sees it in one place for as long as the draw lasts, and begins  *)
(* on none the engine has hidden.  The mod decides no more than where the  *)
(* element stands and whether this one draw leaves it out.  It does not    *)
(* promise that showing or hiding an element while it is drawn outlasts    *)
(* the draw: the visibility is then what it was when the draw began.       *)
(***************************************************************************)
CONSTANTS
  Elements,  \* addresses an element can be at
  Places     \* where its sprite can stand

VARIABLES
  live,      \* the elements that exist
  visible,   \* whether the engine has made each of them visible
  drawn      \* the picture each is being drawn as: none or one

vars == <<live, visible, drawn>>

Picture(seen, place) == [seen |-> seen, place |-> place]

Init == /\ live = {}
        /\ visible = [e \in Elements |-> TRUE]
        /\ drawn = [e \in Elements |-> {}]

Create(e) == /\ e \notin live
             /\ live' = live \cup {e}
             /\ visible' = [visible EXCEPT ![e] = TRUE]
             /\ UNCHANGED drawn

Free(e) == /\ e \in live /\ drawn[e] = {}
           /\ live' = live \ {e}
           /\ UNCHANGED <<visible, drawn>>

Toggle(e) == /\ e \in live /\ drawn[e] = {}
             /\ visible' = [visible EXCEPT ![e] = ~@]
             /\ UNCHANGED <<live, drawn>>

\* The change is of the picture, and gone with it.
ToggleWhileDrawn(e) ==
  /\ e \in live /\ drawn[e] # {}
  /\ drawn' = [drawn EXCEPT ![e] = {Picture(~p.seen, p.place) : p \in @}]
  /\ UNCHANGED <<live, visible>>

\* The element is drawn as the engine would have it, or not at all.
BeginDraw(e) ==
  /\ e \in live /\ drawn[e] = {}
  /\ \E seen \in {visible[e], FALSE}, place \in Places : drawn'[e] = {Picture(seen, place)}
  /\ drawn' = [drawn EXCEPT ![e] = drawn'[e]]
  /\ UNCHANGED <<live, visible>>

EndDraw(e) == /\ drawn[e] # {}
              /\ drawn' = [drawn EXCEPT ![e] = {}]
              /\ UNCHANGED <<live, visible>>

Next == \E e \in Elements :
  Create(e) \/ Free(e) \/ Toggle(e) \/ ToggleWhileDrawn(e) \/ BeginDraw(e) \/ EndDraw(e)

Spec == Init /\ [][Next]_vars
================================================================================
